----------------------- MODULE BackendLifecycleProofs -----------------------
(***************************************************************************)
(* Proofs about BackendLifecycle, for any number of stop workers and any   *)
(* bound on generations.  The argument: everything named by a nonzero      *)
(* generation outside the controller is strictly older than the current    *)
(* one, the controller's server (if any) is exactly the current one, and   *)
(* starting is a function of where that server's start goroutine is.       *)
(***************************************************************************)
EXTENDS BackendLifecycle, TLAPS

\* The controller's server is the one the current generation created, so the
\* two tests of the guard in startAsync agree.
ServerIsCurrent == server # 0 => server = generation

\* Nothing of a future generation exists yet; what calls hold and what was
\* cancelled is of a past one.
PastOnly ==
    /\ \A g \in Gens : g > generation => pc[g] = "none" /\ g \notin open
    /\ \A g \in startCancelled : g < generation
    /\ \A c \in Callers : /\ frame[c].server # 0 => frame[c].server < generation
                          /\ frame[c].start # 0 => frame[c].start < generation

\* starting is true exactly while the current start goroutine has not settled.
StartingIsPc ==
    /\ starting <=> (server # 0 /\ pc[server] \notin {"none", "done"})
    /\ starting => ~startErr

\* The goroutine has published its client before it goes past "client".
ClientBeforeWatch ==
    server # 0 /\ pc[server] \in {"watch", "sync", "restore"} => client = server

\* A current goroutine that has not launched its watch (sync) finds none there.
NotYetLaunched ==
    /\ \A g \in Gens : pc[g] \in {"none", "start", "client", "watch"} => g \notin watching
    /\ \A g \in Gens : pc[g] \in {"none", "start", "client", "watch", "sync"} => g \notin syncing
    /\ server # 0 /\ pc[server] \in {"start", "client", "watch"} => watchStop = 0
    /\ server # 0 /\ pc[server] \in {"start", "client", "watch", "sync"} => syncStop = 0

\* Only the JS thread restarts, it holds no backend in the controller while a
\* call of its own is under way, and a frame at rest is empty.
CallerShape ==
    /\ frame[JsThread].at # "idle" => server = 0
    /\ \A c \in Callers : /\ frame[c].at = "idle" => frame[c] = Idle
                          /\ frame[c].at = "start" => c = JsThread
                          /\ frame[c].op = "restart" => c = JsThread
                          /\ frame[c].at \in {"cancel", "close"} => frame[c].op \in {"stop", "restart"}
                          /\ frame[c].at \in {"close", "start"} =>
                               frame[c].start = 0 /\ frame[c].watch = 0 /\ frame[c].sync = 0
                          /\ frame[c].at = "start" => frame[c].server = 0

\* Whose state the controller and the calls hold.
IdentityInv == ServerIsCurrent /\ ControllerBelongsToServer /\ PastOnly

\* How far the current start has come.
ProgressInv == StartingIsPc /\ ClientBeforeWatch /\ ReadyHasClient /\ NotYetLaunched

\* Who will clean up.
CleanupInv ==
    /\ CallerShape
    /\ NoOrphanServer
    /\ NoOrphanGoroutine
    /\ SingleCloser
    /\ TunNotLostToRace

\* The inductive invariant of the controller.
IInv == TypeOK /\ IdentityInv /\ ProgressInv /\ CleanupInv
-----------------------------------------------------------------------------
USE MaxGenAssumption, ThreadAssumption DEF Gens, GenOrNil, Callers

\* The initial state of the controller satisfies the inductive invariant.
LEMMA InitIInv == Init => IInv
<1> SUFFICES ASSUME Init PROVE IInv
  OBVIOUS
<1>1. Idle \in Frame
  BY DEF Idle, Call, Frame
<1>2. FlagType /\ ControllerType
  <2>1. FlagType
    BY DEF Init, FlagType
  <2>2. QED
    BY <2>1 DEF Init, ControllerType
<1>3. GoroutineType
  BY DEF Init, GoroutineType, StartPc
<1>4. TypeOK
  BY <1>1, <1>2, <1>3 DEF Init, TypeOK, ResourceType
<1>5. QED
  BY <1>4 DEF Init, IInv, IdentityInv, ProgressInv, CleanupInv, Call, Idle,
         ServerIsCurrent, ControllerBelongsToServer, PastOnly, StartingIsPc,
         ClientBeforeWatch, ReadyHasClient, NotYetLaunched, CallerShape,
         NoOrphanServer, NoOrphanGoroutine, SingleCloser, TunNotLostToRace

\* stop and restartWithTun empty the controller.
LEMMA TakeBackendIInv ==
  ASSUME IInv, NEW c \in Callers, NEW op \in {"stop", "restart"}, NEW tun \in BOOLEAN,
         op = "restart" => c = JsThread, TakeBackend(c, op, tun)
  PROVE  IInv'
<1> USE DEF IInv, TypeOK, FlagType, ControllerType, GoroutineType, ResourceType,
            Call, Idle, Frame, StartPc, TakeBackend, Captured,
            ClearController, ClearFields, goroutines, resources
<1>1. TypeOK'
  <2>1. frame' \in [Callers -> Frame]
    OBVIOUS
  <2>2. FlagType'
    OBVIOUS
  <2>3. ControllerType'
    OBVIOUS
  <2>4. GoroutineType'
    OBVIOUS
  <2>5. ResourceType'
    OBVIOUS
  <2>6. QED
    BY <2>1, <2>2, <2>3, <2>4, <2>5
<1>2. IdentityInv'
  BY <1>1 DEF IdentityInv, ServerIsCurrent, ControllerBelongsToServer, PastOnly
<1>3. ProgressInv'
  BY <1>1 DEF IdentityInv, ServerIsCurrent, ControllerBelongsToServer, PastOnly,
        ProgressInv, StartingIsPc, ClientBeforeWatch, ReadyHasClient, NotYetLaunched
<1>4. CleanupInv'
  BY <1>1 DEF IdentityInv, ServerIsCurrent, ControllerBelongsToServer, PastOnly,
        ProgressInv, StartingIsPc, CleanupInv, CallerShape, NoOrphanServer,
        NoOrphanGoroutine, SingleCloser, TunNotLostToRace
<1>5. QED
  BY <1>1, <1>2, <1>3, <1>4

\* Cancelling the captured contexts.
LEMMA CancelContextsIInv ==
  ASSUME IInv, NEW c \in Callers, CancelContexts(c)
  PROVE  IInv'
<1> USE DEF IInv, TypeOK, FlagType, ControllerType, GoroutineType, ResourceType,
            Call, Idle, Frame, StartPc, CancelContexts, controller, resources
<1>0. /\ {frame[c].start} \ {0} \subseteq Gens
       /\ {frame[c].watch} \ {0} \subseteq Gens
       /\ {frame[c].sync} \ {0} \subseteq Gens
  OBVIOUS
<1>1. TypeOK'
  <2>1. frame' \in [Callers -> Frame]
    OBVIOUS
  <2>2. FlagType'
    OBVIOUS
  <2>3. ControllerType'
    OBVIOUS
  <2>4. GoroutineType'
    BY <1>0
  <2>5. ResourceType'
    BY <1>0
  <2>6. QED
    BY <2>1, <2>2, <2>3, <2>4, <2>5
<1>2. IdentityInv'
  BY <1>0, <1>1 DEF IdentityInv, ServerIsCurrent, ControllerBelongsToServer, PastOnly
<1>3. ProgressInv'
  BY <1>0, <1>1 DEF IdentityInv, ServerIsCurrent, ControllerBelongsToServer, PastOnly,
        ProgressInv, StartingIsPc, ClientBeforeWatch, ReadyHasClient, NotYetLaunched
<1>4. CleanupInv'
  BY <1>0, <1>1 DEF IdentityInv, ServerIsCurrent, ControllerBelongsToServer, PastOnly,
        ProgressInv, StartingIsPc, CleanupInv, CallerShape, NoOrphanServer,
        NoOrphanGoroutine, SingleCloser, TunNotLostToRace
<1>5. QED
  BY <1>1, <1>2, <1>3, <1>4

\* Closing the captured server.
LEMMA CloseServerIInv ==
  ASSUME IInv, NEW c \in Callers, CloseServer(c)
  PROVE  IInv'
<1> USE DEF IInv, TypeOK, FlagType, ControllerType, GoroutineType, ResourceType,
            Call, Idle, Frame, StartPc, CloseServer, controller, goroutines
<1>1. TypeOK'
  <2>1. frame' \in [Callers -> Frame]
    OBVIOUS
  <2>2. FlagType'
    OBVIOUS
  <2>3. ControllerType'
    OBVIOUS
  <2>4. GoroutineType'
    OBVIOUS
  <2>5. ResourceType'
    OBVIOUS
  <2>6. QED
    BY <2>1, <2>2, <2>3, <2>4, <2>5
<1>2. IdentityInv'
  BY <1>1 DEF IdentityInv, ServerIsCurrent, ControllerBelongsToServer, PastOnly
<1>3. ProgressInv'
  BY <1>1 DEF IdentityInv, ServerIsCurrent, ControllerBelongsToServer, PastOnly,
        ProgressInv, StartingIsPc, ClientBeforeWatch, ReadyHasClient, NotYetLaunched
<1>4. CleanupInv'
  BY <1>1 DEF IdentityInv, ServerIsCurrent, ControllerBelongsToServer, PastOnly,
        ProgressInv, StartingIsPc, CleanupInv, CallerShape, NoOrphanServer,
        NoOrphanGoroutine, SingleCloser, TunNotLostToRace
<1>5. QED
  BY <1>1, <1>2, <1>3, <1>4

\* Close returned an error.
LEMMA CloseServerFailsIInv ==
  ASSUME IInv, NEW c \in Callers, CloseServerFails(c)
  PROVE  IInv'
<1> USE DEF IInv, TypeOK, FlagType, ControllerType, GoroutineType, ResourceType,
            Call, Idle, Frame, StartPc, CloseServerFails, controller, goroutines
<1>0. frame[c].server \in Gens
  OBVIOUS
<1>1. TypeOK'
  <2>1. frame' \in [Callers -> Frame]
    OBVIOUS
  <2>2. FlagType'
    OBVIOUS
  <2>3. ControllerType'
    OBVIOUS
  <2>4. GoroutineType'
    BY <1>0
  <2>5. ResourceType'
    BY <1>0
  <2>6. QED
    BY <2>1, <2>2, <2>3, <2>4, <2>5
<1>2. IdentityInv'
  BY <1>0, <1>1 DEF IdentityInv, ServerIsCurrent, ControllerBelongsToServer, PastOnly
<1>3. ProgressInv'
  BY <1>0, <1>1 DEF IdentityInv, ServerIsCurrent, ControllerBelongsToServer, PastOnly,
        ProgressInv, StartingIsPc, ClientBeforeWatch, ReadyHasClient, NotYetLaunched
<1>4. CleanupInv'
  BY <1>0, <1>1 DEF IdentityInv, ServerIsCurrent, ControllerBelongsToServer, PastOnly,
        ProgressInv, StartingIsPc, CleanupInv, CallerShape, NoOrphanServer,
        NoOrphanGoroutine, SingleCloser, TunNotLostToRace
<1>5. QED
  BY <1>1, <1>2, <1>3, <1>4

\* start installs a server.
LEMMA StartIInv ==
  ASSUME IInv, NEW c \in Callers, c = JsThread, Start(c)
  PROVE  IInv'
<1> USE DEF IInv, TypeOK, FlagType, ControllerType, GoroutineType, ResourceType,
            Call, Idle, Frame, StartPc, Start, InstallServer, SlotFree
<1>1. TypeOK'
  <2>1. frame' \in [Callers -> Frame]
    OBVIOUS
  <2>2. FlagType'
    OBVIOUS
  <2>3. ControllerType'
    OBVIOUS
  <2>4. GoroutineType'
    OBVIOUS
  <2>5. ResourceType'
    OBVIOUS
  <2>6. QED
    BY <2>1, <2>2, <2>3, <2>4, <2>5
<1>2. IdentityInv'
  BY <1>1 DEF IdentityInv, ServerIsCurrent, ControllerBelongsToServer, PastOnly
<1>3. ProgressInv'
  BY <1>1 DEF IdentityInv, ServerIsCurrent, ControllerBelongsToServer, PastOnly,
        ProgressInv, StartingIsPc, ClientBeforeWatch, ReadyHasClient, NotYetLaunched
<1>4. CleanupInv'
  BY <1>1 DEF IdentityInv, ServerIsCurrent, ControllerBelongsToServer, PastOnly,
        ProgressInv, StartingIsPc, CleanupInv, CallerShape, NoOrphanServer,
        NoOrphanGoroutine, SingleCloser, TunNotLostToRace
<1>5. QED
  BY <1>1, <1>2, <1>3, <1>4

\* restartWithTun installs a server on its descriptor.
LEMMA StartOnTunIInv ==
  ASSUME IInv, NEW c \in Callers, StartOnTun(c)
  PROVE  IInv'
<1> USE DEF IInv, TypeOK, FlagType, ControllerType, GoroutineType, ResourceType,
            Call, Idle, Frame, StartPc, StartOnTun, InstallServer, SlotFree
<1>1. TypeOK'
  <2>1. frame' \in [Callers -> Frame]
    OBVIOUS
  <2>2. FlagType'
    OBVIOUS
  <2>3. ControllerType'
    OBVIOUS
  <2>4. GoroutineType'
    OBVIOUS
  <2>5. ResourceType'
    OBVIOUS
  <2>6. QED
    BY <2>1, <2>2, <2>3, <2>4, <2>5
<1>2. IdentityInv'
  BY <1>1 DEF IdentityInv, ServerIsCurrent, ControllerBelongsToServer, PastOnly
<1>3. ProgressInv'
  BY <1>1 DEF IdentityInv, ServerIsCurrent, ControllerBelongsToServer, PastOnly,
        ProgressInv, StartingIsPc, ClientBeforeWatch, ReadyHasClient, NotYetLaunched
<1>4. CleanupInv'
  BY <1>1 DEF IdentityInv, ServerIsCurrent, ControllerBelongsToServer, PastOnly,
        ProgressInv, StartingIsPc, CleanupInv, CallerShape, NoOrphanServer,
        NoOrphanGoroutine, SingleCloser, TunNotLostToRace
<1>5. QED
  BY <1>1, <1>2, <1>3, <1>4

\* startWithDevice returns early.
LEMMA StartOnTunRefusedIInv ==
  ASSUME IInv, NEW c \in Callers, StartOnTunRefused(c)
  PROVE  IInv'
<1> USE DEF IInv, TypeOK, FlagType, ControllerType, GoroutineType, ResourceType,
            Call, Idle, Frame, StartPc, StartOnTunRefused, SlotFree, controller, goroutines
<1>1. TypeOK'
  OBVIOUS
<1>2. IdentityInv'
  BY <1>1 DEF IdentityInv, ServerIsCurrent, ControllerBelongsToServer, PastOnly
<1>3. ProgressInv'
  BY <1>1 DEF IdentityInv, ServerIsCurrent, ControllerBelongsToServer, PastOnly,
        ProgressInv, StartingIsPc, ClientBeforeWatch, ReadyHasClient, NotYetLaunched
<1>4. CleanupInv'
  BY <1>1 DEF IdentityInv, ServerIsCurrent, ControllerBelongsToServer, PastOnly,
        ProgressInv, StartingIsPc, CleanupInv, CallerShape, NoOrphanServer,
        NoOrphanGoroutine, SingleCloser, TunNotLostToRace
<1>5. QED
  BY <1>1, <1>2, <1>3, <1>4

\* server.Start and LocalClient return.
LEMMA ServerStartedIInv ==
  ASSUME IInv, NEW g \in Gens, ServerStarted(g)
  PROVE  IInv'
<1> USE DEF IInv, TypeOK, FlagType, ControllerType, GoroutineType, ResourceType,
            Call, Idle, Frame, StartPc, ServerStarted, controller, resources
<1>1. TypeOK'
  OBVIOUS
<1>2. IdentityInv'
  BY <1>1 DEF IdentityInv, ServerIsCurrent, ControllerBelongsToServer, PastOnly
<1>3. ProgressInv'
  BY <1>1 DEF IdentityInv, ServerIsCurrent, ControllerBelongsToServer, PastOnly,
        ProgressInv, StartingIsPc, ClientBeforeWatch, ReadyHasClient, NotYetLaunched
<1>4. CleanupInv'
  BY <1>1 DEF IdentityInv, ServerIsCurrent, ControllerBelongsToServer, PastOnly,
        ProgressInv, StartingIsPc, CleanupInv, CallerShape, NoOrphanServer,
        NoOrphanGoroutine, SingleCloser, TunNotLostToRace
<1>5. QED
  BY <1>1, <1>2, <1>3, <1>4

\* A start goroutine reports an error.
LEMMA StartFailsIInv ==
  ASSUME IInv, NEW g \in Gens, StartFails(g)
  PROVE  IInv'
<1> USE DEF IInv, TypeOK, FlagType, ControllerType, GoroutineType, ResourceType,
            Call, Idle, Frame, StartPc, StartFails, IsCurrent, resources
<1>1. TypeOK'
  <2>1. frame' \in [Callers -> Frame]
    OBVIOUS
  <2>2. FlagType'
    OBVIOUS
  <2>3. ControllerType'
    OBVIOUS
  <2>4. GoroutineType'
    OBVIOUS
  <2>5. ResourceType'
    OBVIOUS
  <2>6. QED
    BY <2>1, <2>2, <2>3, <2>4, <2>5
<1>2. IdentityInv'
  BY <1>1 DEF IdentityInv, ServerIsCurrent, ControllerBelongsToServer, PastOnly
<1>3. ProgressInv'
  BY <1>1 DEF IdentityInv, ServerIsCurrent, ControllerBelongsToServer, PastOnly,
        ProgressInv, StartingIsPc, ClientBeforeWatch, ReadyHasClient, NotYetLaunched
<1>4. CleanupInv'
  BY <1>1 DEF IdentityInv, ServerIsCurrent, ControllerBelongsToServer, PastOnly,
        ProgressInv, StartingIsPc, CleanupInv, CallerShape, NoOrphanServer,
        NoOrphanGoroutine, SingleCloser, TunNotLostToRace
<1>5. QED
  BY <1>1, <1>2, <1>3, <1>4

\* A start goroutine publishes its client.
LEMMA InstallClientIInv ==
  ASSUME IInv, NEW g \in Gens, InstallClient(g)
  PROVE  IInv'
<1> USE DEF IInv, TypeOK, FlagType, ControllerType, GoroutineType, ResourceType,
            Call, Idle, Frame, StartPc, InstallClient, IsCurrent, resources
<1>1. TypeOK'
  OBVIOUS
<1>2. IdentityInv'
  BY <1>1 DEF IdentityInv, ServerIsCurrent, ControllerBelongsToServer, PastOnly
<1>3. ProgressInv'
  BY <1>1 DEF IdentityInv, ServerIsCurrent, ControllerBelongsToServer, PastOnly,
        ProgressInv, StartingIsPc, ClientBeforeWatch, ReadyHasClient, NotYetLaunched
<1>4. CleanupInv'
  <2> USE DEF IdentityInv, ServerIsCurrent, ControllerBelongsToServer, PastOnly, CleanupInv
  <2>1. CallerShape'
    BY <1>1 DEF CallerShape
  <2>2. NoOrphanServer'
    BY <1>1 DEF CallerShape, NoOrphanServer
  <2>3. NoOrphanGoroutine'
    BY <1>1 DEF CallerShape, NoOrphanGoroutine
  <2>4. SingleCloser'
    BY <1>1 DEF CallerShape, SingleCloser
  <2>5. TunNotLostToRace'
    BY <1>1 DEF CallerShape, TunNotLostToRace, ProgressInv, StartingIsPc
  <2>6. QED
    BY <2>1, <2>2, <2>3, <2>4, <2>5
<1>5. QED
  BY <1>1, <1>2, <1>3, <1>4

\* A start goroutine launches its inbox watch.
LEMMA StartWatchIInv ==
  ASSUME IInv, NEW g \in Gens, StartWatch(g)
  PROVE  IInv'
<1> USE DEF IInv, TypeOK, FlagType, ControllerType, GoroutineType, ResourceType,
            Call, Idle, Frame, StartPc, StartWatch, IsCurrent, resources
<1>0. {watchStop} \ {0} \subseteq Gens
  OBVIOUS
<1>1. TypeOK'
  <2>1. frame' \in [Callers -> Frame]
    OBVIOUS
  <2>2. FlagType'
    OBVIOUS
  <2>3. ControllerType'
    OBVIOUS
  <2>4. GoroutineType'
    BY <1>0
  <2>5. ResourceType'
    BY <1>0
  <2>6. QED
    BY <2>1, <2>2, <2>3, <2>4, <2>5
<1>2. IdentityInv'
  BY <1>0, <1>1 DEF IdentityInv, ServerIsCurrent, ControllerBelongsToServer, PastOnly
<1>3. ProgressInv'
  BY <1>0, <1>1 DEF IdentityInv, ServerIsCurrent, ControllerBelongsToServer, PastOnly,
        ProgressInv, StartingIsPc, ClientBeforeWatch, ReadyHasClient, NotYetLaunched
<1>4. CleanupInv'
  BY <1>0, <1>1 DEF IdentityInv, ServerIsCurrent, ControllerBelongsToServer, PastOnly,
        ProgressInv, StartingIsPc, CleanupInv, CallerShape, NoOrphanServer,
        NoOrphanGoroutine, SingleCloser, TunNotLostToRace
<1>5. QED
  BY <1>1, <1>2, <1>3, <1>4

\* A start goroutine launches its device sync.
LEMMA StartSyncIInv ==
  ASSUME IInv, NEW g \in Gens, StartSync(g)
  PROVE  IInv'
<1> USE DEF IInv, TypeOK, FlagType, ControllerType, GoroutineType, ResourceType,
            Call, Idle, Frame, StartPc, StartSync, IsCurrent, resources
<1>0. {syncStop} \ {0} \subseteq Gens
  OBVIOUS
<1>1. TypeOK'
  BY <1>0
<1>2. IdentityInv'
  BY <1>0, <1>1 DEF IdentityInv, ServerIsCurrent, ControllerBelongsToServer, PastOnly
<1>3. ProgressInv'
  BY <1>0, <1>1 DEF IdentityInv, ServerIsCurrent, ControllerBelongsToServer, PastOnly,
        ProgressInv, StartingIsPc, ClientBeforeWatch, ReadyHasClient, NotYetLaunched
<1>4. CleanupInv'
  BY <1>0, <1>1 DEF IdentityInv, ServerIsCurrent, ControllerBelongsToServer, PastOnly,
        ProgressInv, StartingIsPc, CleanupInv, CallerShape, NoOrphanServer,
        NoOrphanGoroutine, SingleCloser, TunNotLostToRace
<1>5. QED
  BY <1>1, <1>2, <1>3, <1>4

\* A start goroutine marks its backend ready.
LEMMA BecomeReadyIInv ==
  ASSUME IInv, NEW g \in Gens, BecomeReady(g)
  PROVE  IInv'
<1> USE DEF IInv, TypeOK, FlagType, ControllerType, GoroutineType, ResourceType,
            Call, Idle, Frame, StartPc, BecomeReady, IsCurrent, resources
<1>1. TypeOK'
  <2>1. frame' \in [Callers -> Frame]
    OBVIOUS
  <2>2. FlagType'
    OBVIOUS
  <2>3. ControllerType'
    OBVIOUS
  <2>4. GoroutineType'
    OBVIOUS
  <2>5. ResourceType'
    OBVIOUS
  <2>6. QED
    BY <2>1, <2>2, <2>3, <2>4, <2>5
<1>2. IdentityInv'
  BY <1>1 DEF IdentityInv, ServerIsCurrent, ControllerBelongsToServer, PastOnly
<1>3. ProgressInv'
  BY <1>1 DEF IdentityInv, ServerIsCurrent, ControllerBelongsToServer, PastOnly,
        ProgressInv, StartingIsPc, ClientBeforeWatch, ReadyHasClient, NotYetLaunched
<1>4. CleanupInv'
  BY <1>1 DEF IdentityInv, ServerIsCurrent, ControllerBelongsToServer, PastOnly,
        ProgressInv, StartingIsPc, CleanupInv, CallerShape, NoOrphanServer,
        NoOrphanGoroutine, SingleCloser, TunNotLostToRace
<1>5. QED
  BY <1>1, <1>2, <1>3, <1>4

\* An inbox watch delivers a list.
LEMMA WatchDeliverIInv ==
  ASSUME IInv, NEW g \in Gens, WatchDeliver(g)
  PROVE  IInv'
<1> USE DEF IInv, TypeOK, FlagType, ControllerType, GoroutineType, ResourceType,
            Call, Idle, Frame, StartPc, WatchDeliver, IsCurrent, goroutines, resources
<1>1. TypeOK'
  OBVIOUS
<1>2. IdentityInv'
  BY <1>1 DEF IdentityInv, ServerIsCurrent, ControllerBelongsToServer, PastOnly
<1>3. ProgressInv'
  BY <1>1 DEF IdentityInv, ServerIsCurrent, ControllerBelongsToServer, PastOnly,
        ProgressInv, StartingIsPc, ClientBeforeWatch, ReadyHasClient, NotYetLaunched
<1>4. CleanupInv'
  BY <1>1 DEF IdentityInv, ServerIsCurrent, ControllerBelongsToServer, PastOnly,
        ProgressInv, StartingIsPc, CleanupInv, CallerShape, NoOrphanServer,
        NoOrphanGoroutine, SingleCloser, TunNotLostToRace
<1>5. QED
  BY <1>1, <1>2, <1>3, <1>4

\* An inbox watch ends.
LEMMA WatchExitIInv ==
  ASSUME IInv, NEW g \in Gens, WatchExit(g)
  PROVE  IInv'
<1> USE DEF IInv, TypeOK, FlagType, ControllerType, GoroutineType, ResourceType,
            Call, Idle, Frame, StartPc, WatchExit, controller, resources
<1>1. TypeOK'
  OBVIOUS
<1>2. IdentityInv'
  BY <1>1 DEF IdentityInv, ServerIsCurrent, ControllerBelongsToServer, PastOnly
<1>3. ProgressInv'
  BY <1>1 DEF IdentityInv, ServerIsCurrent, ControllerBelongsToServer, PastOnly,
        ProgressInv, StartingIsPc, ClientBeforeWatch, ReadyHasClient, NotYetLaunched
<1>4. CleanupInv'
  BY <1>1 DEF IdentityInv, ServerIsCurrent, ControllerBelongsToServer, PastOnly,
        ProgressInv, StartingIsPc, CleanupInv, CallerShape, NoOrphanServer,
        NoOrphanGoroutine, SingleCloser, TunNotLostToRace
<1>5. QED
  BY <1>1, <1>2, <1>3, <1>4

\* A device sync ends.
LEMMA SyncExitIInv ==
  ASSUME IInv, NEW g \in Gens, SyncExit(g)
  PROVE  IInv'
<1> USE DEF IInv, TypeOK, FlagType, ControllerType, GoroutineType, ResourceType,
            Call, Idle, Frame, StartPc, SyncExit, IsCurrent, resources
<1>1. TypeOK'
  OBVIOUS
<1>2. IdentityInv'
  BY <1>1 DEF IdentityInv, ServerIsCurrent, ControllerBelongsToServer, PastOnly
<1>3. ProgressInv'
  BY <1>1 DEF IdentityInv, ServerIsCurrent, ControllerBelongsToServer, PastOnly,
        ProgressInv, StartingIsPc, ClientBeforeWatch, ReadyHasClient, NotYetLaunched
<1>4. CleanupInv'
  BY <1>1 DEF IdentityInv, ServerIsCurrent, ControllerBelongsToServer, PastOnly,
        ProgressInv, StartingIsPc, CleanupInv, CallerShape, NoOrphanServer,
        NoOrphanGoroutine, SingleCloser, TunNotLostToRace
<1>5. QED
  BY <1>1, <1>2, <1>3, <1>4

\* Every step of the controller, its callers and its goroutines preserves the
\* inductive invariant.
LEMMA NextIInv == IInv /\ [Next]_vars => IInv'
<1> SUFFICES ASSUME IInv, [Next]_vars PROVE IInv'
  OBVIOUS
<1>1. ASSUME NEW c \in Callers, Stop(c) PROVE IInv'
  BY <1>1, TakeBackendIInv DEF Stop
<1>2. ASSUME NEW c \in Callers, CallStep(c) PROVE IInv'
  BY <1>2, CancelContextsIInv, CloseServerIInv, CloseServerFailsIInv, StartOnTunIInv,
     StartOnTunRefusedIInv DEF CallStep
<1>3. CASE Start(JsThread)
  BY <1>3, StartIInv
<1>4. CASE RestartWithTun(JsThread)
  BY <1>4, TakeBackendIInv DEF RestartWithTun
<1>5. ASSUME NEW g \in Gens, StartStep(g) PROVE IInv'
  BY <1>5, ServerStartedIInv, StartFailsIInv, InstallClientIInv, StartWatchIInv,
     StartSyncIInv, BecomeReadyIInv DEF StartStep
<1>6. ASSUME NEW g \in Gens, GoroutineStep(g) PROVE IInv'
  BY <1>6, WatchDeliverIInv, WatchExitIInv, SyncExitIInv DEF GoroutineStep
<1>7. CASE UNCHANGED vars
  BY <1>7 DEF vars, controller, goroutines, resources, IInv, TypeOK, FlagType,
     ControllerType, GoroutineType, ResourceType, IdentityInv, ServerIsCurrent,
     ControllerBelongsToServer, PastOnly, ProgressInv, StartingIsPc, ClientBeforeWatch,
     ReadyHasClient, NotYetLaunched, CleanupInv, CallerShape, NoOrphanServer,
     NoOrphanGoroutine, SingleCloser, TunNotLostToRace
<1>8. QED
  BY <1>1, <1>2, <1>3, <1>4, <1>5, <1>6, <1>7 DEF Next

LEMMA IInvHolds == SafeSpec => []IInv
<1>1. QED
  BY InitIInv, NextIInv, PTL DEF SafeSpec

\* Type correctness of the controller, for any number of threads and generations.
THEOREM TypeCorrect == SafeSpec => []TypeOK
<1>1. IInv => TypeOK
  BY DEF IInv
<1>2. QED
  BY <1>1, IInvHolds, PTL

\* A late start goroutine never leaves its client, inbox list, descriptor or
\* cancel functions in a controller that holds another server or none.
THEOREM ControllerOwnership == SafeSpec => []ControllerBelongsToServer
<1>1. IInv => ControllerBelongsToServer
  BY DEF IInv, IdentityInv
<1>2. QED
  BY <1>1, IInvHolds, PTL

\* A backend that reports neither starting nor failed has its client.
THEOREM ReadyImpliesClient == SafeSpec => []ReadyHasClient
<1>1. IInv => ReadyHasClient
  BY DEF IInv, ProgressInv
<1>2. QED
  BY <1>1, IInvHolds, PTL

\* A backend that reports starting has a live goroutine and a live context.
THEOREM StartingAlive == SafeSpec => []StartingIsAlive
<1>1. IInv => StartingIsAlive
  BY DEF IInv, TypeOK, ControllerType, GoroutineType, Frame, IdentityInv, ServerIsCurrent,
         PastOnly, ProgressInv, StartingIsPc, StartingIsAlive
<1>2. QED
  BY <1>1, IInvHolds, PTL

\* stop and restartWithTun leave no server and no goroutine that nobody will
\* close, and no server that two threads close.
THEOREM NothingOrphaned == SafeSpec => []NoOrphans
<1>1. IInv => NoOrphans
  BY DEF IInv, CleanupInv, NoOrphans
<1>2. QED
  BY <1>1, IInvHolds, PTL

\* restartWithTun never drops its descriptor because of a concurrent backend.
THEOREM TunKept == SafeSpec => []TunNotLostToRace
<1>1. IInv => TunNotLostToRace
  BY DEF IInv, CleanupInv
<1>2. QED
  BY <1>1, IInvHolds, PTL
-----------------------------------------------------------------------------
(* The controller implements the slot. *)

LEMMA InitSlot == Init => Slot!Init
  BY DEF Init, Slot!Init, SlotState

\* stop and restartWithTun are Reset.
LEMMA TakeBackendSlot ==
  ASSUME IInv, NEW c \in Callers, NEW op, NEW tun, TakeBackend(c, op, tun)
  PROVE  Slot!Reset
  BY DEF TakeBackend, ClearController, ClearFields, Slot!Reset, SlotState

\* Installing a server is Begin.
LEMMA InstallServerSlot ==
  ASSUME IInv, NEW tun, InstallServer(tun)
  PROVE  Slot!Begin
  BY DEF InstallServer, SlotFree, Slot!Begin, SlotState, IInv, TypeOK, ControllerType

\* Only the current generation's goroutine settles a start; the others stutter.
LEMMA StartStepSlot ==
  ASSUME IInv, NEW g \in Gens, StartStep(g)
  PROVE  Slot!Settle \/ UNCHANGED Slot!slotVars
<1> USE DEF Slot!Settle, Slot!slotVars, SlotState, IsCurrent
<1>1. CASE StartFails(g)
  BY <1>1 DEF StartFails, IInv, ProgressInv, StartingIsPc
<1>2. CASE BecomeReady(g)
  BY <1>2 DEF BecomeReady, IInv, ProgressInv, StartingIsPc
<1>3. CASE ServerStarted(g)
  BY <1>3 DEF ServerStarted, controller
<1>4. CASE InstallClient(g)
  BY <1>4 DEF InstallClient
<1>5. CASE StartWatch(g)
  BY <1>5 DEF StartWatch
<1>6. CASE StartSync(g)
  BY <1>6 DEF StartSync
<1>7. QED
  BY <1>1, <1>2, <1>3, <1>4, <1>5, <1>6 DEF StartStep

LEMMA NextSlot == IInv /\ [Next]_vars => [Slot!Next]_(Slot!slotVars)
<1> SUFFICES ASSUME IInv, [Next]_vars PROVE Slot!Next \/ UNCHANGED Slot!slotVars
  OBVIOUS
<1> USE DEF Slot!Next
<1>1. ASSUME NEW c \in Callers, Stop(c) PROVE Slot!Next
  BY <1>1, TakeBackendSlot DEF Stop
<1>2. ASSUME NEW c \in Callers, CallStep(c) PROVE Slot!Next \/ UNCHANGED Slot!slotVars
  <2>1. CASE StartOnTun(c)
    BY <2>1, InstallServerSlot DEF StartOnTun
  <2>2. CASE ~StartOnTun(c)
    BY <1>2, <2>2 DEF CallStep, CancelContexts, CloseServer, CloseServerFails,
       StartOnTunRefused, controller, Slot!slotVars, SlotState
  <2>3. QED
    BY <2>1, <2>2
<1>3. CASE Start(JsThread)
  BY <1>3, InstallServerSlot DEF Start
<1>4. CASE RestartWithTun(JsThread)
  BY <1>4, TakeBackendSlot DEF RestartWithTun
<1>5. ASSUME NEW g \in Gens, StartStep(g) PROVE Slot!Next \/ UNCHANGED Slot!slotVars
  BY <1>5, StartStepSlot
<1>6. ASSUME NEW g \in Gens, GoroutineStep(g) PROVE UNCHANGED Slot!slotVars
  BY <1>6 DEF GoroutineStep, WatchDeliver, WatchExit, SyncExit, controller,
     Slot!slotVars, SlotState
<1>7. CASE UNCHANGED vars
  BY <1>7 DEF vars, controller, Slot!slotVars, SlotState
<1>8. QED
  BY <1>1, <1>2, <1>3, <1>4, <1>5, <1>6, <1>7 DEF Next

\* The safety part of the refinement: no goroutine, however late, revives,
\* completes or fails a backend other than its own.
THEOREM RefinesSlot == SafeSpec => Slot!SafeSpec
<1>1. QED
  BY InitSlot, NextSlot, IInvHolds, PTL DEF SafeSpec, Slot!SafeSpec
=============================================================================
