# TLA+ models of MeshArc (Tailscale for HarmonyOS)

MeshArc embeds the Tailscale engine in a HarmonyOS application. Three kinds of code
meet at run time, and most of what can go wrong lies between them:

* the **Go bridge** (`native/go_bridge/`): one `backendController` per process around a
  `tsnet.Server`, called from the JavaScript thread and from worker threads, with
  goroutines of its own;
* the **VPN extension** (`vpnextensionability/`, some of `services/`): a separate
  process, single threaded JavaScript, driven by timers, promises and platform callbacks;
* the **UI** (`components/BridgeStatus.ets`, most of `services/`): another process that
  talks to the extension through small request and snapshot files.

## Inventory

| Component | State | Operations | Interacts with | Hard part | Correct when |
|---|---|---|---|---|---|
| Backend lifecycle (`backend.go`) | server, client, generation, starting, startErr, cancel functions under `mu` | start, stop, restartWithTun, startAsync | every other native call; extension and UI threads | calls on two threads; goroutines that outlive their backend; Close outside the lock | no late goroutine touches another backend; nothing open is forgotten; a start always settles |
| Taildrop send, native (`backend.go`) | transfer record, cancel function under `taildropMu` | taildropSend, taildropCancel, stop | lifecycle, extension | cancel, stop and completion race; retries | one outcome per transfer; never wedged; cancel and stop end the send |
| Taildrop send, extension and UI | request files, stored snapshot, in-flight flags, history | request timer, status timer, promises, UI submit, poll and cancel | native send; three processes' worth of files | snapshots that are out of date when stored | the user learns every outcome once; nothing stays pending |
| Network monitor (`VpnNetworkMonitor.ets`) | revision, fingerprint, timer, handle, generation | start, stop, refresh, platform callbacks | extension lifecycle, native networkChanged | awaits, late callbacks, failing rebinds | no change lost, no listener leaked, converges |
| Background task (`VpnBackgroundTaskManager.ets`) | task, generation, suppression, backoff | reconcile, start, stop, cancel event | platform, VPN status file | a cancel while a start or stop is awaited | released on disconnect; the user's cancel is honoured |
| VPN extension lifecycle, backend handoff | TUN, destroying, handoff and stop files | createProbeTun, handoff, stop, destroy | UI, backend lifecycle | destroy during awaits; bounded waits; a process that dies | the backend changes process only after its stop was answered; a stop meets its own session |
| VPN commands (`VpnCommandGateway.ets`) | active command, generation | begin, complete, timeout, invalidate | UI | a late answer after the timeout | an answer settles its own command only; a disconnect ends |
| Interactive login | login claim, login command | authURL, logout, polling | lifecycle | claim against restart and logout | one login request per generation; polling ends |
| Exit node and settings | preference files, live preferences | setExitNode, setNetworkSetting, restore, status queries, vpnConfig | lifecycle, logout | re-persisting after logout; shared temporary files; crashes | what was answered OK is stored; no default route is dropped behind the user's back |
| Device sync (`mesharc_devices.go`) | statuses, failure counts, receiver state | sync loop, refresh | lifecycle | stale results, hysteresis, a lock held over network calls | results of an old backend are dropped; two misses, not one, make a peer unavailable |
| Taildrive (`taildrive.go`, `TaildriveBrowser.ets`) | tracked slot, cancel function, part files, warm and ready times | list, stat, mutate, download, upload, cancel | lifecycle, UI queues | a cancel without an id; killed processes; stacked deadlines | as for sends; a reported file is whole; a query answers before the UI gives up |
| Taildrop receive | staged files, pending deletes, receive state | stage, save, delete | files, UI | crash between save and delete | a file is deleted only once saved |
| TUN device, routes, path cache, probes | queues, caches | read, write, Close, Build | lifecycle | closing while reading | pure or small |

Marshalling (`napi_init.cpp`, `main.go`), notifications, diagnostics, preferences and
views carry no protocol and are not modelled. `PROJECT.json` lists every component with
its status, and every hazard with the line where it bites.

## Modules

| Module | Models |
|---|---|
| `BackendSlot` | what the controller promises: a slot that is stopped, starting, ready or failed, and an epoch |
| `BackendLifecycle` | the controller, its callers and its goroutines; implements `BackendSlot` |
| `BackendLifecycleProofs` | its invariants and the refinement, proved |
| `TaildropSlot` | what the native code promises of the transfer record |
| `TaildropTransfer` | taildropSend, taildropCancel and stop at lock granularity; implements `TaildropSlot` |
| `TaildropTransferProofs` | its invariant and the refinement, and the invariant of `TaildropDelivery`, proved |
| `TaildropDelivery` | UI, extension and files around `TaildropSlot` |
| `NetworkMonitor` | the monitor, the platform and the native rebind |
| `NetworkMonitorProofs` | its invariants, proved |
| `BackgroundTask` | the continuous-task manager of the UI and the platform it calls |
| `BackgroundTaskProofs` | its invariants, proved |
| `TaildriveTransfer` | downloads, exports, uploads and their cancel, in the bridge, the extension and the UI |
| `TaildriveTransferProofs` | its invariants and those of `TaildriveBrowse`, proved |
| `TaildriveBrowse` | list, stat and mutate, with warm-up, cold probe and deadlines |
| `DeviceSync` | the sweeps of the backends' loops and of the user's refresh |
| `DeviceSyncProofs` | its safety properties, proved |
| `ExitNodeStore` | the exit node choice and the network settings, in preferences and in files |
| `ExitNodeStoreProofs` | its invariants, proved |
| `LoginFlow` | the login command, its polls, the claim of a login request, logout |
| `VpnSession` | connect, handoff and disconnect over the UI's and the extension's process |
| `VpnSessionProofs` | its safety properties and those of `LoginFlow`, proved |

A definition whose name ends in `Unchecked`, `Forgotten`, `Keeping...`, `Quietly` and the
like (`Deaf`, `Anytime`, `Truncating`, `Resolved`, `Uncleared`) is a deliberately wrong variant of the definition that follows it, used to make sure
that each property can fail. No specification uses one.

### BackendLifecycle

Every step is one critical section of `b.mu` or one call made outside it. Servers, clients,
contexts and goroutines are named by the generation that created them, 0 being nil.
`Stop` and `RestartWithTun` are the critical section both share (`TakeBackend`); the
contexts are cancelled (`CancelContexts`) and the server closed (`CloseServer`,
`CloseServerFails`) after the lock is released, with the locals kept in `frame`;
`restartWithTun` then goes on to `startWithDevice` (`StartOnTun`, `StartOnTunRefused`).
`ServerStarted` to `BecomeReady` are the steps of `startAsync`, and `StartFails` its error
and recover paths. `start` and `restartWithTun` are synchronous calls of the JavaScript
thread; `stop` also runs on workers (`backendStopAsync`). Left out: `phase`, `osVersion`,
`stateDir`, `subnetRoutes` (data nothing here tests).

### TaildropTransfer, TaildropSlot, TaildropDelivery

`TaildropTransfer` has one action for each part of `taildropSend` between two lock
operations or blocking calls, one `canceller` for each call that cancels, and the
extension's `taildropSendInFlight`, because `replaceTaildropTransfer` is only right if
sends are serialised. A push may return anything; after `server.Close` it cannot succeed.
The mapping to `TaildropSlot` keeps record and results and abstracts the program counter.
Two cases are left out. `taildropSendInFlight` belongs to the extension instance, and an
extension re-created in a process that is still sending for the old one is not modelled here
(`TaildriveTransfer` does so for its calls). A request that does not parse returns without
replacing the record (`backend.go:1029`), but the extension has parsed and validated every
request it passes on, so that `RejectRequest` is only the one that fails the bridge's validation.

`TaildropDelivery` extends `TaildropSlot` with the rest of the way to the user. Each handler
of the extension is one action, with all it calls: storing a snapshot is followed by
`processTaildropSendRequest` and `processTaildropCancelRequest` in the same action, as in
the code. `NativeSnapshot` copies the record long before `SnapshotDone` stores it. The UI's
five-second rules are choices: a poll may or may not fall into that time. `records` counts
history entries up to `MaxRecords`; only the properties about the history need it. The extension that has stopped its backend goes on ticking until
it is destroyed.

### NetworkMonitor

Fields keep their names. `refresh` is cut at its awaits: `RefreshBegins`, `Sample`,
`ReadReturns`, `NativePublish` (the hint of `NotifyNetworkChange`), `RebindReturns`, and the
failures. A handle is named by its generation. Delays are left to the interleaving.

### BackgroundTask

One reconciliation runs at a time (`operationInFlight` is `pc # "idle"`), cut at its awaits:
`getWantAgent` ("agent"), `startBackgroundRunning` ("call", "started"), the notification
("publish") and `stopBackgroundRunning` ("stop", "stopped"). `after` is what follows a stop:
the rest of `start`, the `finally` block, or nothing. `cancellationRevision` is compared only
with its value when `start` began, so it is the flag `cancelled`. The platform is external:
it runs at most one task, may reject any call, may cancel the task at any time, and delivers
a cancel event before the result of a later stop. The code depends on the last point: it
takes an event that arrives while it holds no task for one about the start in flight.
`dismissed` is a history variable: what the user did, whether or not the manager saw it.
The listeners are assumed to be accepted when the manager registers.

### TaildriveTransfer

A call is cut where it locks, blocks or touches a file: `Begin` (`beginTaildriveTransfer`),
the request, `CreatePart` (exclusive), the copy, `RenamePart`, `Finish`, `Cleanup`. Previews
and uploads share the tracked record and its cancel function; a manual export has a channel
and a context of its own. All previews are of one entry and so share a path, the interesting
case: a call that an extension left behind, or a killed process, meets the next download of
the same file. A request outside the run's workload stays `"unused"`; no export is named
`"preview"`, the name of the path previews share. `wanted` keeps which transfer a queued cancel
was meant for, which the request itself does not say. A response announces its length: the
one of unknown length, whose short body no size check can find (`taildrive.go:815`, `854`), is
left out. Sizes, names, progress and directory contents are left out.

### TaildriveBrowse

Time is counted along one query: every call under a deadline takes none or all of it, and the
constants are the code's own (seconds). Entries of `taildriveWarmAt` and `taildriveDAVReadyAt`
are there while younger than their time to live.

### DeviceSync

Sweeper 0 is the refresh, sweeper *g* the loop of generation *g*. A sweep is cut at the lock
(with its timed attempts), `Status`, the probes, the merge under `mu` and the post. The eight
probe workers are one step whose result is the set of peers that answered; `misses` is a
history variable that counts whole, separate samples. Certificates and wire formats are left out.

### ExitNodeStore

`setExitNode`, `setNetworkSetting`, the status queries that write the choice back, `logout`,
`vpnConfig` and `restoreBackendPreferences` run as threads over two files and the preferences.
A file is written as one `.tmp` shared by all writers and renamed; either may fail, and the
process may die between them. `late` holds the restores that their stop did not end: once
`EditPrefs` has returned, `restoreBackendPreferences` does not look at its context again and
writes the settings it read at its start, into whatever the next backend has made of the file.
Such a restore may also be of another process than the one that died (`Crash`). `beside` is a
history variable: the settings whose last update ran beside one. `shown` is the status' idea of the exit node, which lags behind
the preference. Of the routes only the default route is kept.

### LoginFlow

`authURL` is cut at `Status`, the claim, the request and the answer; a poll whose command has
ended may still be in it. Backend generations follow each other and `logout` waits for the
control server in between. A node loses its login only by a logout; expired keys are left out.

### VpnSession

The UI's commands, their awaits and its polls; the extension from `onCreate` to `onDestroy`;
the status, config, handoff and stop files; the backend of each process. A deadline is a step
that may come at any time. The extension's process may die and the page be created again at
any point. Left out: the replacement of another VPN (it waits for an approval file that no
code writes), `forceStopSystemVpn` and diagnostics; the grace period before a stop request is
given up is part of the deadline. `CommitConnect` looks at the status when it commits; the
code may commit one it saw up to a timer earlier (`BridgeStatus.ets:3360`), so that `shown` can
be out of date, which here it becomes by a destruction after the commit.

## Runs

| Run | Shows |
|---|---|
| `backend_lifecycle` | the controller's safety, its refinement of `BackendSlot`, and that dropped servers and goroutines end |
| `taildrop_transfer` | the record settles once, is never wedged, and cancel and stop end the send |
| `taildrop_delivery` | two requests, the second submitted while the first may still run: each is handed over once, a completion the user sees is the send's own, and the UI settles |
| `network_monitor` | shutdown is quiet, no listener leaks, no change is lost, the monitor converges |
| `background_task` | no task is lost sight of or brought back after a noted user cancel; disconnect and destruction release it |
| `taildrive_transfer` | the slot is never wedged, a `.part` file has one owner, what is reported downloaded is there and whole, an answer is the caller's own |
| `taildrive_browse` | whatever warm-ups, probes and timeouts a query meets, it answers before the UI gives up |
| `device_sync` | only two whole samples in a row make a peer unavailable, late sweeps change nothing, a refresh ends, a running loop reports what has stopped |
| `exit_node_store` | no configuration without the exit route goes to a user who chose an exit node; a setting answered OK is in the file, through late restores too, unless its update ran beside one |
| `login_flow` | what backs a backend's claim of its login is taken away by a logout only; one chain of polls; polling ends |
| `vpn_session` | a stop meets its own session, the extension waits for the stop of the UI's backend, a disconnect ends |
| `exit_choice_leaks` | *violation*: a query or a choice that began before a logout writes the old account's exit node after it |

Invariants whose parts say one thing together are conjunctions: `NoOrphans`, `SlotInv`,
`DeliveryInv`, `TrackingInv`, `FilesInv`, `QueryInv`, `TablesInv`, `StoreInv`, `StopInv`; each part is named and commented.
In `StopInv`, that a stop request finds a session is claimed only while no extension has died.

### Disagreements with comments and documents

The configurations below are not part of the regular runs: TLC finds each property violated.
Each property is what a comment or a document of the repository says.

| Configuration | Property | What the code does |
|---|---|---|
| `TaildropDeliveryHistory` | `HistoryRecordsOnce` | with two requests, a transfer that is shown again after another was handled enters the history twice (`docs/taildrop-technical-plan.md:37`) |
| `TaildropDeliveryOverwrite` | `CompletionNotOverwritten` | a periodic snapshot copied earlier is stored over a completion (`mesh-refactor/BEHAVIOR_BASELINE.md:11`); the next snapshot heals it |
| `TaildropDeliveryOutcome` | `OutcomeRecorded` | with two requests, one may never enter the history ("persistent terminal history", `docs/taildrop-technical-plan.md:83`): a poll puts the first one's failure in the place of the second, just submitted; the extension's validation rejects the second and stores its failure; and a snapshot copied before either is stored over that failure before the UI polls again |
| `TaildropDeliveryCancel` | `CancelNotDropped` | such a snapshot makes the extension drop a valid cancel (`docs/taildrop-technical-plan.md:38`); the button comes back only when the transfer settles |
| `NetworkMonitorBackend` | `BackendConverges` | the backend keeps the route hint of a rebind that failed when the network changes back (`docs/vpn-network-recovery.md:11`) |
| `BackgroundTaskCancel` | `UserCancelHonoured` | a user's cancel during the grace-period stop is ignored and the task returns (`docs/background-vpn-reliability.md:19`) |
| `BackgroundTaskProtection` | `ProtectedWhileConnected` | an ignored cancel and a rejected stop leave a connected VPN without its task (the same document) |
| `TaildriveCancel` | `CancelHitsItsTarget` | a late cancel fails the next preview ("Cancels only the active preview transfer", `TaildriveBrowser.ets:1001`) |
| `TaildriveRetry` | `RetryNotBlocked` | the `.part` file of a killed process makes every later preview of that entry fail (`TaildriveGateway.ets:330`) |
| `TaildriveBrowseCold` | `ColdPeerWarmedUp` | `restartWithTun` keeps the warm-up times, so that a new session skips its warm-up (`taildrive.go:662`) |
| `DeviceSyncReceiver` | `ReceiverFailureIsReal` | a refresh that runs out of time in `Status` or in the post reports the receiver as failed (`mesharc_devices.go:324`) |
| `ExitNodeChoice` | `ChoiceKept` | a status query writes an older exit node over the choice just answered OK (`backend.go:1704`) |
| `NetworkSettings` | `SettingsPersisted` | two settings updated side by side: one is lost from the file (`backend.go:1780`) |
| `NetworkSettingsLate` | `SettingsPersisted` | a restore whose start was stopped after its `EditPrefs` writes the old settings over an update the next backend has answered OK (`backend.go:1780`, `1946`) |
| `LoginRequest` | `RequestedOnce` | logout clears the claim of a login that began while it waited, and the request is repeated (`backend.go:2796`) |
| `LoginCommand` | `CommandHasOwner` | logout ends the login's polling and not its command, which blocks later ones (`mesh-refactor/M4A_VPN_LIFECYCLE.md:11`) |
| `LoginBlocked` | `LoginNotBlocked` | a logout that cannot remove the choice file leaves the claim taken (`backend.go:385`) |
| `VpnSessionCommand` | `CommandHasOwner` | a connect that fails on its exit node setting leaves its command active (`mesh-refactor/M4A_VPN_LIFECYCLE.md:10`) |
| `VpnSessionAlone` | `UiStartsAlone` | a new page takes a starting extension for a dead one and starts a second backend (`BridgeStatus.ets:3919`); the same happens when an extension fails after starting its backend, the stop of its recovery fails too, and the page judges its heartbeat stale |
| `VpnSessionConnect` | `ConnectEnds` | an extension without a config writes a status the UI does not know, and connecting goes on for ever (`mesh-refactor/BEHAVIOR_BASELINE.md:10`) |
| `VpnSessionStale` | `StaleStatusRejected` | the "starting" status of a dead extension disables the connect button (`mesh-refactor/PROJECT_AUDIT.md:80`) |

`exit_choice_leaks` (`ExitNodeLogout.cfg`, `ChoiceOfThisAccount`) is the one of these kept as
a regular run, being about one account's data in another's session.

### Bounds

* `MaxGen = 4` (lifecycle): a start, a restart (two generations) and a stop that overlaps
  any part of them, with one worker beside the JavaScript thread. The proofs cover all bounds.
* `MaxRequests = 2`, `MaxAttempts = 2` (transfer): a late cancel of the first request meets
  the second; a retry and the exhaustion of retries both happen. The code has 3 attempts.
* `MaxRequests = 2`, `StopBefore = 2`, `MaxRecords = 0` (delivery): the second request is
  prepared while the first runs or its stale copies are under way; the VPN is disconnected, at
  any time, only while there is one request, as nothing is prepared afterwards. No property of
  the run is about the history. `DeliveryInv` is proved for any number and any disconnection.
* `MaxGen = 4`, `MaxChanges = 3` (monitor): stop and restart during a refresh, with late
  callbacks; a network that changes, changes back and changes again.
* `TaskIds` of two ids (background task): the event of one task can meet the next one; the
  model has no other bound, and the proofs cover any set of ids.
* `Workloads` (Taildrive transfer): two previews of one entry, and each pair of two kinds:
  the slot, the file and the queue are each contended by two calls, with one cancel, stop or
  kill beside them. In `ExitNodeStore`: query, choice, logout and configuration together,
  and an update of the settings by itself, as they touch other files.
* `MaxSession = 3`, two machines (browse): one machine is cold when the other is warm, and a
  query outlives two changes of backend.
* `MaxGen = 2`, `MaxRefresh = 1`, one peer (device sync): the old backend's sweep, the new
  one's and the refresh compete for the lock; peers do not influence each other.
* `MaxStart = 2`, `MaxLogin = 2` (exit node): a restore after each kind of interrupted write,
  one that outlives its stop beside the next backend, and a second account.
* `MaxGen = 2`, `MaxCommand = 2`, `MaxAttempt = 2` (login): a poll of the first login and
  backend meets the second; the code allows 60 polls.
* `MaxCommand = 4`, `MaxKill = 1`, `MaxRestart = 1` (session): connect and disconnect twice,
  with one death and one new page at any point.

Deadlock checking is off where the system may rightly stop: a bound is reached, a backend
stays stopped, a destroyed extension or an unregistered manager has nothing to do. `TaildropTransfer` keeps it on.

### Fairness

* A call that has begun continues, and a goroutine whose context is cancelled sees it:
  weak fairness of `CallStep`, `StartStep`, `WatchExit`, `SyncExit`. `tsnet.Server.Start`
  is assumed to return.
* `PushFile` has no deadline. It is only assumed to return once its context is cancelled
  or its server closed, which is what makes `DoomedSendsEnd` a statement about the code's
  cancellation. `TaildropDelivery` assumes in addition that a send returns in the end.
* In `TaildropDelivery` each native call goes on by itself: a cancel that is put back again and
  again does not hold up the snapshot that will end it.
* Timers fire and promises settle (weak fairness of handlers). A status snapshot may fail
  any number of times but not always (strong fairness of `SnapshotDone`); the same for
  reading and rebinding in the monitor (`ReadReturns`, `NativePublish`, `RebindReturns`).
* The background task's timer goes on firing, a backoff passes, awaited calls return and
  events arrive; preparing a start, starting and stopping may fail repeatedly but not for
  ever (strong fairness of `AgentReturns`, `StartServed`, `StopServed`).
* Device sync: a refresh goes on and its deadline passes (weak fairness of `RefreshStep` and
  `Expire`). `LoopReports` needs more and says so as its antecedent, `LoopFairness`: the loop
  goes on, `Status` succeeds again and again, and Go's `select` between a tick and the
  cancelled context, which chooses at random, does not choose the tick for ever (strong
  fairness of `StatusReturns` and `LoopEnds`).
* Login: a poll that has begun goes on, and its timer fires. Session: awaits of the UI return,
  its polls and deadlines fire, the extension's steps go on, and the system creates and
  destroys the extension when asked; nothing is assumed of a process that has died.
* `TaildriveTransfer`, `TaildriveBrowse` and `ExitNodeStore` are checked for safety only and
  state no fairness.
* Nothing obliges the user, the platform's network or the extension's owner to act.

## Proofs

TLAPS proves, for all values of the constants:

* `BackendLifecycleProofs`: `TypeCorrect`, `ControllerOwnership`, `ReadyImpliesClient`,
  `StartingAlive`, `NothingOrphaned`, `TunKept` and `RefinesSlot` (the safety part of the
  refinement), from `MaxGen \in Nat` and `JsThread \notin StopWorkers`. None of the
  properties is inductive. `IInv` adds that the server in the controller is the current
  generation's (so the two tests of the guard agree), that everything held by calls and
  everything cancelled is strictly older (`PastOnly`), that `starting` is a function of
  where the current start goroutine is (`StartingIsPc`), that a goroutine publishes its
  client before it launches the others, and that only the JavaScript thread is ever
  between the two halves of a restart, with an empty controller (`CallerShape`): that is
  what keeps the descriptor from being dropped.
* `NetworkMonitorProofs`: `TypeCorrect`, `ShutdownIsQuiet`, `ListenersReleased`,
  `NoLostWakeup`, `AppliedCurrent`, from `MaxGen, MaxChanges \in Nat` and `NoNet \notin Nets`.
  `IInv` adds `FlightInv`: the flags `inFlight` and `registering` agree with the calls really
  under way, and a registration is never pending beside a handle. On top of it, `CurrentInv`
  follows the network's name through a refresh: unless an event is on its way or the revision
  has moved on, the handle, the sample and the fingerprint are all the phone's network.
* `BackgroundTaskProofs`: `SuppressionKept`, `NothingUntracked` (`TrackingInv`),
  `DestructionReleases`, from `0 \notin TaskIds`. `IInv` adds where a cancel event can find
  the manager (`EventInv`: its task is held, or is what the pending start will return), hence
  that none is on its way while a start is prepared (`StartInv`), and that a stop that is
  about to return has stopped the task (`StopInv`).

* `TaildropTransferProofs`: `SlotKept` and `RefinesSlot`, from `MaxRequests \in Nat` and
  `MaxAttempts \in Nat \ {0}`. `SlotInv` alone does not survive a step: what keeps a late
  cancel off the next transfer is that cancel functions exist only from the claim on
  (`CancelAfterClaim`), that whoever takes one settles its record in the same critical section
  (`TakenIsSettled`), and that `taildropSendInFlight` covers the whole call (`Serial`).
  `RefinesSlot` maps each of its steps to a step or a stutter of `TaildropSlot`, in which a
  settled record never moves; the slot's specification has no fairness, so the theorem is all
  of `ImplementsSlot`. The module also instantiates `TaildropDelivery`, whose record and
  `taildropSendInFlight` are the same, and proves `DeliveryTrue` (its `DeliveryInv`) for any
  number of requests. `DeliveryInv` is inductive as it stands: a request in the file has no
  call because the clock gives each a new number and the file is emptied when it is read
  (`HandedOnce`), the flag covers the call and the active record is the call's (`OneSend`), and
  a copy of the record that says completed stays true because the result of a call that has
  returned does not change and `SendDone` compares the request ids (`CompletionIsTrue`).
  `NeverBusy` follows: what `TaildropSlot` takes for granted of its caller, the extension keeps.
* `TaildriveTransferProofs`: `SlotKept`, `FilesKept`, `AnswersOwn`, from the assumption that
  the kinds of requests are disjoint and the names distinct. `IInv` adds that the queues hold
  each waiting request once (`QueueInv`), that an active record, its call between claim and
  finish and the stored cancel function are one (`RecordInv`), that a call at the rename has
  copied everything and one that has renamed finds its file (`RenameInv`), and that of a
  channel's calls all but the one in flight were left behind (`FlightInv`, `AnswerInv`).
  The module also instantiates `TaildriveBrowse` and proves `QueriesInTime` (`QueryInv`) from
  `Deadlines`: a warm-up, a cold probe and a list together take less than the query gateway
  waits, a mutation less than the mutation gateway; the code's 5 + 3 + 20 < 32 and 30 < 35 are
  the run's instance. `Spent` says how much a query may have used up at each of its steps.
* `DeviceSyncProofs`: `TablesKept`, `TwoMisses`, from bounds in `Nat`. `IInv` adds that a sweep
  inside the lock is alone, so that from its status to its merge no other sample comes in
  between, that what reaches the merge was whole (`SweepInv`), and that the failure counter
  never runs ahead of the missed samples (`CountInv`). The action property
  `OnlyTheRefreshExpires` delimits the disagreement of `DeviceSyncReceiver`: every report of a
  failed receiver that rests on a used-up budget is made by the refresh after its deadline. A
  loop that is cancelled cannot make one (`LoopInv`): its backend has left the controller
  before, and no generation comes back.
* `VpnSessionProofs`: `StopsOwn` and the action property `HandoffsAnswered`, from bounds in
  `Nat`. `IInv` adds that a command creates at most one extension (`CountInv`), that a stop
  request on disk is the living extension's (`RequestInv`), that without a death the status
  file and the UI's view of it are true (`SeenInv`), and that an OK answer to the latest
  handoff request was written by the stop made for it (`HandoffInv`). The module also
  instantiates `LoginFlow`, whose command ids are those of the same state machine, and proves
  `OneTimer` (its `TypeOK`) and the action property `ClaimsBacked` (its `ClaimNotStranded`),
  from `MaxGen \in Nat \ {0}` and the other bounds in `Nat`. `TimerInv` is what makes one timer
  enough: only the active command's chain has one, and a chain whose page is open is over.
  `ClaimsBacked` needs `AgeInv`: no claim and no poll is of a backend to come, so that a claim
  taken late, for an older backend, is not the live one's, and a new backend has none.
* `ExitNodeStoreProofs`: `FailsClosed`, from `MaxStart \in Nat` and `MaxLogin \in Nat \ {0}`.
  `ChoiceInv` is the reason: an empty choice file, or an empty `.tmp` that any writer may
  publish, comes only from a request for no exit node that no other answer has replaced.
  `SettingsKept` (`StoreInv`) has one more hypothesis, `OneSetting`: a workload updates at most
  one of the two settings. Without it the claim is false, see `NetworkSettings` above. With it
  `SettingInv` has two parts. `KeyInv`, of each setting not in `beside`: the file, whatever a
  current or late restore has read and a `.tmp` that one of them is about to rename agree on it.
  `UpdateInv`: an update that is not beside a late restore has the file to itself, and renames a
  `.tmp` of its own. A setting leaves `beside` with the next update that ends alone. For those in
  `beside` the claim is false, see `NetworkSettingsLate`.
  `AnsweredChoiceStored` (`ChoiceKept`) delimits the disagreement of `ExitNodeChoice` in the same
  way: under `SetAlone`, that no status query and no logout writes the file beside the user's
  requests, an answered choice is the stored one, through crashes, stops and restores
  (`AnswerInv`: a request under way is unanswered and renames a `.tmp` of its own).

Each `IInv`, and `LoopInv`, was checked by TLC on the instance of its module's run before it
was proved, and `AnsweredChoiceStored` on a workload of requests and configurations.

Only model-checked is everything under fairness (`NothingLingers`, `DoomedSendsEnd`,
`UiSettles`, `Converges`, `ReleasedAfterDisconnect`, `RefreshEnds`, `LoopReports`,
`PollingEnds`, `DisconnectEnds` and the liveness half of the backend's `ImplementsSlot`),
which is out of the prover's reach. The invariants and action properties of the passing runs
are all proved, `StoreInv` under `OneSetting`, which the workloads of its run satisfy.

## Plan

Done first was what everything else runs on (the backend, the send path, the monitor, the
background task), then the session, the login, the stored choices, Taildrive and device sync;
then the proofs of their safety properties.

What is left, in this order:

1. Taildrop receive: staging, saving and deleting with a crash in between.
2. The composition of `TaildropTransfer` and `TaildropDelivery` in one module, with the fairness
   of the first in place of the assumption that a send returns.

## Not modelled

* Taildrop receive: its bridge side is listing, reading and deleting files of one inbox;
  the protocol is in the pending deletes of the UI. Left for later.
* TUN device: packet I/O on a descriptor and one event channel. Who owns and closes the
  descriptor is in `BackendLifecycle`.
* Subnet routes: a pure selection of prefixes; `ExitNodeStore` keeps the default route.
* Peer path, Sunshine and media probes, control probe: network requests whose results are
  only displayed.
* N-API bridge, notifications, diagnostics, preferences, UI shell: marshalling, rendering,
  text and single-file storage; the bridge's threads are the actors of the models.
