------------------------ MODULE BackgroundTaskProofs ------------------------
(***************************************************************************)
(* TLAPS proofs of BackgroundTask's invariants, for any set of task ids.   *)
(* What makes them inductive is where a cancel event can find the manager: *)
(* its task is still held, or is the one a pending start will return; so   *)
(* no event is on its way when a start is under preparation.               *)
(***************************************************************************)
EXTENDS BackgroundTask, TLAPS

\* The task of a cancel event on its way.
EventInv ==
    event # 0 => running = 0 /\ (task = event \/ (pc = "started" /\ reply = event))

\* What a start() under way can rely on; a cancellation that it must notice has
\* left nothing running.
StartInv ==
    /\ pc \in {"agent", "call"} =>
         task = 0 /\ running = 0 /\ event = 0 /\ ~cancelled /\ ~suppressed
    /\ pc = "started" =>
         /\ task = 0 /\ reply # 0
         /\ cancelled => running = 0 /\ event = 0
         /\ suppressed => cancelled

\* The platform has stopped the task before the call returns.
StopInv == pc = "stopped" => running = 0

\* The inductive invariant.
IInv ==
    /\ TypeOK
    /\ SuppressedIsReleased /\ NoUntrackedTask /\ DestroyReleases
    /\ EventInv /\ StartInv /\ StopInv
-----------------------------------------------------------------------------
\* The initial states satisfy the invariant: nothing is held and nothing runs.
LEMMA InitInv == Init => IInv
BY TaskIdsAssumption
   DEF Init, IInv, TypeOK, FlagType, TaskType, PcType, TaskOrNone, Statuses, stopping,
       SuppressedIsReleased, NoUntrackedTask, DestroyReleases, EventInv, StartInv, StopInv

\* Every step preserves the invariant.
LEMMA NextInv == IInv /\ [Next]_vars => IInv'
<1> SUFFICES ASSUME IInv, [Next]_vars
             PROVE  IInv'
  OBVIOUS
<1> USE TaskIdsAssumption
    DEF IInv, TypeOK, TaskType, PcType, TaskOrNone, Statuses, stopping, EventInv, StartInv,
        StopInv, SuppressedIsReleased, NoUntrackedTask
\* A start is prepared without a task: by NoUntrackedTask and EventInv the platform
\* runs none then and has no event on its way.
<1>1. ASSUME NEW seen \in Statuses, NEW due \in BOOLEAN, NEW held \in BOOLEAN,
             Reconcile(seen, due, held)
      PROVE  IInv'
  <2>1. FlagType'
    BY <1>1 DEF FlagType, Reconcile, SeesDisconnected, SeesUnknown, SeesConnected, CallStop
  <2>2. DestroyReleases'
    BY <1>1 DEF FlagType, DestroyReleases, Reconcile, SeesDisconnected, SeesUnknown, SeesConnected, CallStop
  <2> QED BY <1>1, <2>1, <2>2 DEF FlagType, Reconcile, SeesDisconnected, SeesUnknown, SeesConnected, CallStop
<1>2. ASSUME NEW seen \in Statuses, AgentReturns(seen)
      PROVE  IInv'
  <2>1. FlagType'
    BY <1>2 DEF FlagType, AgentReturns, Finally, CallStop, platform
  <2>2. DestroyReleases'
    BY <1>2 DEF FlagType, DestroyReleases, AgentReturns, Finally, CallStop, platform
  <2> QED BY <1>2, <2>1, <2>2 DEF FlagType, AgentReturns, Finally, CallStop, platform
\* Nothing was started, so nothing is left behind.
<1>3. CASE StartRejected
  <2>1. FlagType'
    BY <1>3 DEF FlagType, StartRejected, Finally, CallStop, platform
  <2>2. DestroyReleases'
    BY <1>3 DEF FlagType, DestroyReleases, StartRejected, Finally, CallStop, platform
  <2> QED BY <1>3, <2>1, <2>2 DEF FlagType, StartRejected, Finally, CallStop, platform
<1>4. CASE StartServed
  <2>1. FlagType'
    BY <1>4 DEF FlagType, StartServed
  <2>2. DestroyReleases'
    BY <1>4 DEF FlagType, DestroyReleases, StartServed
  <2> QED BY <1>4, <2>1, <2>2 DEF FlagType, StartServed
\* A result that is dropped belongs to a task whose cancel event has arrived
\* (StartInv); one that is kept was not cancelled, so nothing is suppressed.
<1>5. ASSUME NEW seen \in Statuses, StartReturns(seen)
      PROVE  IInv'
  <2>1. FlagType'
    BY <1>5 DEF FlagType, StartReturns, Finally, CallStop, platform
  <2>2. DestroyReleases'
    BY <1>5 DEF FlagType, DestroyReleases, StartReturns, Finally, CallStop, platform
  <2> QED BY <1>5, <2>1, <2>2 DEF FlagType, StartReturns, Finally, CallStop, platform
<1>6. CASE Published
  <2>1. FlagType'
    BY <1>6 DEF FlagType, Published, Finally, CallStop, platform
  <2>2. DestroyReleases'
    BY <1>6 DEF FlagType, DestroyReleases, Published, Finally, CallStop, platform
  <2> QED BY <1>6, <2>1, <2>2 DEF FlagType, Published, Finally, CallStop, platform
<1>7. CASE StopServed
  <2>1. FlagType'
    BY <1>7 DEF FlagType, StopServed
  <2>2. DestroyReleases'
    BY <1>7 DEF FlagType, DestroyReleases, StopServed
  <2> QED BY <1>7, <2>1, <2>2 DEF FlagType, StopServed
\* The platform has stopped the task (StopInv), and no event for it is pending.
<1>8. CASE StopReturns
  <2>1. FlagType'
    BY <1>8 DEF FlagType, StopReturns, Resume, Finally, CallStop, platform
  <2>2. DestroyReleases'
    BY <1>8 DEF FlagType, DestroyReleases, StopReturns, Resume, Finally, CallStop, platform
  <2> QED BY <1>8, <2>1, <2>2 DEF FlagType, StopReturns, Resume, Finally, CallStop, platform
<1>9. CASE StopRejected
  <2>1. FlagType'
    BY <1>9 DEF FlagType, StopRejected, Resume, Finally, CallStop, platform
  <2>2. DestroyReleases'
    BY <1>9 DEF FlagType, DestroyReleases, StopRejected, Resume, Finally, CallStop, platform
  <2> QED BY <1>9, <2>1, <2>2 DEF FlagType, StopRejected, Resume, Finally, CallStop, platform
\* The event's task no longer runs (EventInv), so forgetting it loses nothing.
<1>10. CASE CancelCallback
  <2>1. FlagType'
    BY <1>10 DEF FlagType, CancelCallback
  <2>2. DestroyReleases'
    BY <1>10 DEF FlagType, DestroyReleases, CancelCallback
  <2> QED BY <1>10, <2>1, <2>2 DEF FlagType, CancelCallback
\* NoUntrackedTask becomes EventInv.
<1>11. CASE PlatformCancels
  <2>1. FlagType'
    BY <1>11 DEF FlagType, PlatformCancels, manager
  <2>2. DestroyReleases'
    BY <1>11 DEF FlagType, DestroyReleases, PlatformCancels, manager
  <2> QED BY <1>11, <2>1, <2>2 DEF FlagType, PlatformCancels, manager
<1>12. CASE StatusChanges
  <2>1. FlagType'
    BY <1>12 DEF FlagType, StatusChanges, manager
  <2>2. DestroyReleases'
    BY <1>12 DEF FlagType, DestroyReleases, StatusChanges, manager
  <2> QED BY <1>12, <2>1, <2>2 DEF FlagType, StatusChanges, manager
<1>13. CASE Unregister
  <2>1. FlagType'
    BY <1>13 DEF FlagType, Unregister, CallStop, platform
  <2>2. DestroyReleases'
    BY <1>13 DEF FlagType, DestroyReleases, Unregister, CallStop, platform
  <2> QED BY <1>13, <2>1, <2>2 DEF FlagType, Unregister, CallStop, platform
<1>14. CASE UNCHANGED vars
  <2>1. FlagType'
    BY <1>14 DEF FlagType, vars, manager, platform
  <2>2. DestroyReleases'
    BY <1>14 DEF FlagType, DestroyReleases, vars, manager, platform
  <2> QED BY <1>14, <2>1, <2>2 DEF FlagType, vars, manager, platform
<1>15. ASSUME NEW seen \in Statuses, NEW due \in BOOLEAN, Tick(seen, due)
      PROVE  IInv'
  BY <1>1, <1>15 DEF Tick, FlagType
\* onForeground reconciles, or only forgets the backoff.
<1>16. CASE Foreground
  <2>1. ASSUME NEW seen \in Statuses, Reconcile(seen, TRUE, FALSE)
        PROVE  IInv'
    BY <1>1, <2>1
  <2>2. ASSUME backoff' = FALSE,
               UNCHANGED <<monitoring, suppressed, task, pc, cancelled, reply, after,
                           stopFailed, platform>>
        PROVE  IInv'
    <3>1. FlagType'
      BY <2>2 DEF FlagType, platform
    <3>2. DestroyReleases'
      BY <2>2 DEF FlagType, DestroyReleases, platform
    <3> QED BY <2>2, <3>1, <3>2 DEF FlagType, platform
  <2> QED BY <1>16, <2>1, <2>2 DEF Foreground
<1> QED
  BY <1>2, <1>3, <1>4, <1>5, <1>6, <1>7, <1>8, <1>9, <1>10, <1>11, <1>12, <1>13, <1>14,
     <1>15, <1>16 DEF Next

\* The invariant holds always.
THEOREM Invariance == SafeSpec => []IInv
BY InitInv, NextInv, PTL DEF SafeSpec

\* A user's cancellation that cancelCallback has noted is never overwritten by the
\* late result of a start.
THEOREM SuppressionKept == SafeSpec => []SuppressedIsReleased
BY Invariance, PTL DEF IInv

\* However starts, stops, failures and cancel events interleave, the manager never
\* loses sight of a task the platform runs, and it calls stopBackgroundRunning only
\* with a task in hand.
THEOREM NothingUntracked == SafeSpec => []TrackingInv
BY Invariance, PTL DEF IInv, TrackingInv

\* unregister during any await releases the task, unless the platform refuses to
\* stop it (the finally block of reconcile).
THEOREM DestructionReleases == SafeSpec => []DestroyReleases
BY Invariance, PTL DEF IInv
=============================================================================
