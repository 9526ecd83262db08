--------------------------- MODULE BackgroundTask ---------------------------
(***************************************************************************)
(* VpnBackgroundTaskManager.ets: the UI's continuous task, which keeps the *)
(* process that started the VPN alive in the background.  A reconciliation *)
(* runs every second and at lifecycle events, one at a time, and acquires  *)
(* or releases the platform's task according to the VPN status file.  What *)
(* interleaves with its awaits are cancel events, the status and           *)
(* unregister.                                                             *)
(*                                                                         *)
(* A task is its continuousTaskId, 0 standing for undefined.  register is  *)
(* called once (EntryAbility.onCreate), so lifecycleGeneration has changed *)
(* exactly when monitoring has ended.  Times are choices: whether the      *)
(* grace period, the backoff or the notification interval has passed.      *)
(* Suspend events and the notification's content change nothing here, and  *)
(* the platform accepts the two listeners.                                 *)
(***************************************************************************)
EXTENDS Naturals

CONSTANT TaskIds  \* the platform's task ids
ASSUME TaskIdsAssumption == 0 \notin TaskIds

VARIABLES
    monitoring,
    suppressed,  \* suppressedUntilDisconnect
    backoff,     \* nextStartAtMs was set to a later time
    task,        \* the task the manager holds
    pc,          \* where the reconciliation in flight waits
    cancelled,   \* cancellationRevision moved since start() began
    reply,       \* the task startBackgroundRunning is about to return
    after,       \* what follows the stop() in flight
    stopFailed,  \* the last stopBackgroundRunning was rejected
    status,      \* what the VPN status file says
    running,     \* the task the platform runs
    event,       \* a cancel event on its way: its task, 0 if there is none
    byUser,      \* the reason of that event
    dismissed    \* the user cancelled a task and no disconnect was seen since

manager == <<monitoring, suppressed, backoff, task, pc, cancelled, reply, after, stopFailed>>
platform == <<status, running, event, byUser, dismissed>>
vars == <<manager, platform>>

Statuses == {"connected", "disconnected", "unknown"}
TaskOrNone == TaskIds \cup {0}

\* onCreate has registered the manager.
Init ==
    /\ monitoring = TRUE
    /\ suppressed = FALSE /\ backoff = FALSE
    /\ task = 0
    /\ pc = "idle" /\ cancelled = FALSE /\ reply = 0 /\ after = "idle"
    /\ stopFailed = FALSE
    /\ status \in Statuses
    /\ running = 0 /\ event = 0 /\ byUser = FALSE /\ dismissed = FALSE

\* readStatus: the file may just be replaced or unreadable.
Seen(s) == s \in {status, "unknown"}
-----------------------------------------------------------------------------
\* stop(): nothing to do without a task.
CallStopUnchecked(t, next) == pc' = "stop" /\ after' = next
CallStop(t, next) ==
    IF t # 0 THEN pc' = "stop" /\ after' = next
    ELSE pc' = "idle" /\ UNCHANGED after

\* The finally block of reconcile, when the manager holds t: a manager that was
\* unregistered meanwhile stops the task once more.
FinallyForgotten(t) == pc' = "idle" /\ UNCHANGED after
Finally(t) ==
    IF monitoring THEN pc' = "idle" /\ UNCHANGED after ELSE CallStop(t, "idle")
-----------------------------------------------------------------------------
(* reconcile() *)

SeesDisconnectedKeeping ==
    /\ suppressed' = FALSE /\ backoff' = FALSE /\ dismissed' = FALSE
    /\ UNCHANGED <<pc, after, cancelled>>
SeesDisconnected ==
    /\ suppressed' = FALSE /\ backoff' = FALSE /\ dismissed' = FALSE
    /\ CallStop(task, "finally")
    /\ UNCHANGED cancelled

\* Uncertain: the task is given up once the grace period is over.
SeesUnknown(held) ==
    /\ \/ CallStop(task, "finally")
       \/ UNCHANGED <<pc, after>>
    /\ backoff' = held
    /\ UNCHANGED <<suppressed, dismissed, cancelled>>

\* due: nextStartAtMs has passed.
SeesConnected(due, held) ==
    /\ IF task = 0 /\ ~suppressed /\ due
       THEN pc' = "agent" /\ cancelled' = FALSE
       ELSE /\ pc' \in IF task # 0 THEN {"publish", "idle"} ELSE {"idle"}
            /\ UNCHANGED cancelled
    /\ backoff' = held
    /\ UNCHANGED <<suppressed, dismissed, after>>

Reconcile(seen, due, held) ==
    /\ pc = "idle" /\ monitoring
    /\ \/ seen = "disconnected" /\ SeesDisconnected
       \/ seen = "unknown" /\ SeesUnknown(held)
       \/ seen = "connected" /\ SeesConnected(due, held)
    /\ UNCHANGED <<monitoring, task, reply, stopFailed, status, running, event, byUser>>

\* The timer, or onBackground.
Tick(seen, due) ==
    /\ backoff \/ due
    /\ Reconcile(seen, due, backoff)

\* onForeground forgets the backoff; a reconciliation in flight goes on.
Foreground ==
    \/ \E seen \in Statuses : Seen(seen) /\ Reconcile(seen, TRUE, FALSE)
    \/ /\ pc # "idle" /\ monitoring
       /\ backoff' = FALSE
       /\ UNCHANGED <<monitoring, suppressed, task, pc, cancelled, reply, after, stopFailed,
                      platform>>

\* getWantAgent returns, and start() looks again before it asks the platform.
AgentReturns(seen) ==
    /\ pc = "agent"
    /\ IF monitoring /\ ~cancelled /\ seen = "connected"
       THEN pc' = "call" /\ UNCHANGED after
       ELSE Finally(task)
    /\ UNCHANGED <<monitoring, suppressed, backoff, task, cancelled, reply, stopFailed,
                   platform>>

\* getWantAgent or startBackgroundRunning fails: back off.
StartRejected ==
    /\ pc \in {"agent", "call"}
    /\ backoff' = TRUE
    /\ Finally(task)
    /\ UNCHANGED <<monitoring, suppressed, task, cancelled, reply, stopFailed, platform>>

\* The platform starts a task.
StartServed ==
    /\ pc = "call"
    /\ \E t \in TaskIds : running' = t /\ reply' = t
    /\ pc' = "started"
    /\ UNCHANGED <<monitoring, suppressed, backoff, task, cancelled, after, stopFailed,
                   status, event, byUser, dismissed>>

\* startBackgroundRunning returns: a task that was cancelled meanwhile is dropped,
\* one that nobody needs any more is stopped at once.
StartReturnsUnchecked(seen) ==
    /\ pc = "started"
    /\ task' = reply
    /\ IF monitoring /\ seen # "disconnected"
       THEN pc' = "publish" /\ UNCHANGED after
       ELSE CallStop(reply, "publish")
    /\ UNCHANGED <<monitoring, suppressed, backoff, cancelled, reply, stopFailed, platform>>
StartReturns(seen) ==
    /\ pc = "started"
    /\ IF cancelled THEN Finally(task) /\ UNCHANGED task
       ELSE /\ task' = reply
            /\ IF monitoring /\ seen # "disconnected"
               THEN pc' = "publish" /\ UNCHANGED after
               ELSE CallStop(reply, "publish")
    /\ UNCHANGED <<monitoring, suppressed, backoff, cancelled, reply, stopFailed, platform>>

\* updateNotification returns; preparing the notification may throw.
Published ==
    /\ pc = "publish"
    /\ IF backoff THEN UNCHANGED backoff ELSE backoff' \in BOOLEAN
    /\ Finally(task)
    /\ UNCHANGED <<monitoring, suppressed, task, cancelled, reply, stopFailed, platform>>
-----------------------------------------------------------------------------
(* stop() *)

stopping == pc \in {"stop", "stopped"}

\* What follows a stop() that leaves the manager with t: the rest of reconcile,
\* or nothing if it was the stop of the finally block.
Resume(t) ==
    IF after = "idle" THEN pc' = "idle" /\ UNCHANGED after
    ELSE IF after = "publish" /\ monitoring /\ t # 0 THEN pc' = "publish" /\ UNCHANGED after
    ELSE Finally(t)

StopServed ==
    /\ pc = "stop"
    /\ pc' = "stopped"
    /\ running' = 0
    /\ UNCHANGED <<monitoring, suppressed, backoff, task, cancelled, reply, after,
                   stopFailed, status, event, byUser, dismissed>>

\* A cancel event sent before the stop arrives before its result: the manager
\* relies on it, since an event that names no known task cancels the next start.
StopReturns ==
    /\ pc = "stopped"
    /\ event = 0
    /\ task' = 0
    /\ stopFailed' = FALSE
    /\ Resume(0)
    /\ UNCHANGED <<monitoring, suppressed, backoff, cancelled, reply, platform>>

\* stopBackgroundRunning is rejected: the task is kept for the next attempt.
StopRejectedForgetting ==
    /\ pc = "stop"
    /\ task' = 0
    /\ stopFailed' = TRUE
    /\ Resume(0)
    /\ UNCHANGED <<monitoring, suppressed, backoff, cancelled, reply, platform>>
StopRejected ==
    /\ pc = "stop"
    /\ stopFailed' = TRUE
    /\ Resume(task)
    /\ UNCHANGED <<monitoring, suppressed, backoff, task, cancelled, reply, platform>>
-----------------------------------------------------------------------------
(* Events *)

\* cancelCallback, while it is registered: not during a stop, not for another task.
CancelCallback ==
    /\ event # 0
    /\ event' = 0
    /\ IF monitoring /\ ~stopping /\ task \in {0, event}
       THEN /\ cancelled' = TRUE
            /\ task' = 0
            /\ suppressed' = byUser
            /\ IF byUser THEN UNCHANGED backoff ELSE backoff' = TRUE
       ELSE UNCHANGED <<cancelled, task, suppressed, backoff>>
    /\ UNCHANGED <<monitoring, pc, reply, after, stopFailed, status, running, byUser,
                   dismissed>>

\* The user or the system cancels the running task.
PlatformCancels ==
    /\ running # 0 /\ event = 0
    /\ running' = 0 /\ event' = running
    /\ \E u \in BOOLEAN : /\ byUser' = u
                          /\ IF u THEN dismissed' = TRUE ELSE UNCHANGED dismissed
    /\ UNCHANGED <<manager, status>>

StatusChanges ==
    /\ status' \in Statuses \ {status}
    /\ UNCHANGED <<manager, running, event, byUser, dismissed>>

\* unregister(): reconcile, unless one is in flight, only stops.
Unregister ==
    /\ monitoring
    /\ monitoring' = FALSE
    /\ IF pc = "idle" THEN CallStop(task, "finally") ELSE UNCHANGED <<pc, after>>
    /\ UNCHANGED <<suppressed, backoff, task, cancelled, reply, stopFailed, platform>>
-----------------------------------------------------------------------------
Next ==
    \/ \E seen \in Statuses :
         Seen(seen) /\ (AgentReturns(seen) \/ StartReturns(seen) \/ \E due \in BOOLEAN : Tick(seen, due))
    \/ Foreground
    \/ StartRejected
    \/ StartServed
    \/ Published
    \/ StopServed
    \/ StopReturns
    \/ StopRejected
    \/ CancelCallback
    \/ PlatformCancels
    \/ StatusChanges
    \/ Unregister

\* The timer goes on, a backoff passes and the status can be read; awaited calls
\* return, events arrive, and the platform does not fail for ever.
Fairness ==
    /\ WF_vars(Tick(status, TRUE))
    /\ SF_vars(AgentReturns(status))
    /\ SF_vars(StartServed)
    /\ WF_vars(\E seen \in Statuses : Seen(seen) /\ StartReturns(seen))
    /\ WF_vars(Published)
    /\ SF_vars(StopServed)
    /\ WF_vars(StopReturns)
    /\ WF_vars(CancelCallback)

SafeSpec == Init /\ [][Next]_vars
Spec == SafeSpec /\ Fairness
-----------------------------------------------------------------------------
(* Properties *)

FlagType ==
    /\ monitoring \in BOOLEAN /\ suppressed \in BOOLEAN /\ backoff \in BOOLEAN
    /\ cancelled \in BOOLEAN /\ stopFailed \in BOOLEAN
    /\ byUser \in BOOLEAN /\ dismissed \in BOOLEAN

TaskType ==
    /\ task \in TaskOrNone /\ reply \in TaskOrNone
    /\ running \in TaskOrNone /\ event \in TaskOrNone

PcType ==
    /\ pc \in {"idle", "agent", "call", "started", "publish", "stop", "stopped"}
    /\ after \in {"idle", "finally", "publish"}
    /\ status \in Statuses
    /\ stopping => task # 0

\* Every variable keeps its type; the platform is only asked to stop a task that
\* the manager holds.
TypeOK == FlagType /\ TaskType /\ PcType

\* A user's cancellation that the manager has taken note of is not overwritten by
\* the late result of a start, nor followed by another start
\* (cancellationRevision in start).
SuppressedIsReleased == suppressed => task = 0 /\ running = 0

\* The platform runs no task that the manager has lost sight of: it holds it, or
\* is about to receive it (start, stop, cancelCallback).
NoUntrackedTask == running # 0 => task = running \/ (pc = "started" /\ reply = running)

\* The manager's variables are well formed and it knows the task that runs.
TrackingInv == TypeOK /\ NoUntrackedTask

\* "Destruction may happen during any awaited operation": once an unregistered
\* manager has come to rest no task runs, unless its last stop was rejected.
DestroyReleases == ~monitoring /\ pc = "idle" => running = 0 \/ stopFailed

\* "explicit disconnect still releases the task promptly".
ReleasedAfterDisconnect ==
    (monitoring /\ status = "disconnected") ~>
        (running = 0 \/ status # "disconnected" \/ ~monitoring)

\* What the reliability document says, "Honor user cancellation until a confirmed
\* disconnect": no task runs after the user cancelled one, until a reconciliation
\* has seen the VPN disconnected.
UserCancelHonoured == dismissed => running = 0

\* What the reliability document says of the task, that it "protects the VPN
\* starter process": a VPN that stays connected has it again and again, unless the
\* user cancelled it.
ProtectedWhileConnected ==
    <>[](monitoring /\ status = "connected" /\ ~suppressed) => []<>(running # 0)
=============================================================================
