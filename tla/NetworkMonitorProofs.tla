------------------------ MODULE NetworkMonitorProofs ------------------------
(***************************************************************************)
(* Proofs about NetworkMonitor, for every set of networks and every number *)
(* of starts, stops and changes of the network.                            *)
(***************************************************************************)
EXTENDS NetworkMonitor, TLAPS

\* What is under way: a refresh is in flight exactly while inFlight says so, a
\* registration exactly while registering does, never beside a handle; and the
\* generation of an active monitor names a handle.
FlightInv ==
    /\ inFlight <=> refresh.at # "idle"
    /\ registering <=> registration # 0
    /\ netConnection # 0 => registration = 0
    /\ active => generation # 0

\* The inductive invariant: the three safety properties need FlightInv, because a
\* handle is overwritten by none only if no registration is pending beside it,
\* and a timer may be lost only if a refresh really is in flight.
IInv ==
    /\ TypeOK
    /\ FlightInv
    /\ QuietWhenStopped
    /\ NoLeakedListener
    /\ NeverIdleWithWork

USE BoundsAssumption, NetsAssumption

\* Every initial state satisfies the invariant.
LEMMA InitIInv == Init => IInv
<1>. SUFFICES ASSUME Init PROVE IInv
  OBVIOUS
<1>1. FlagType
  BY DEF Init, FlagType
<1>2. CounterType
  BY DEF Init, CounterType
<1>3. NetType /\ RefreshType
  BY DEF Init, NetType, RefreshType, NoRefresh, Refresh
<1>4. FlightInv /\ QuietWhenStopped /\ NoLeakedListener /\ NeverIdleWithWork
  BY DEF Init, FlightInv, QuietWhenStopped, NoLeakedListener, NeverIdleWithWork,
         NoRefresh, Refresh
<1>. QED BY <1>1, <1>2, <1>3, <1>4 DEF IInv, TypeOK

\* start() sets the timer, so the monitor is not idle.
LEMMA StartKeeps == IInv /\ Start => IInv'
<1>. SUFFICES ASSUME IInv, Start PROVE IInv'
  OBVIOUS
<1>1. FlagType'
  BY DEF IInv, TypeOK, FlagType, Start, Changed, platform
<1>2. CounterType'
  BY DEF IInv, TypeOK, CounterType, RefreshType, Start, Changed, platform
<1>3. NetType' /\ RefreshType'
  BY DEF IInv, TypeOK, CounterType, NetType, RefreshType, Start, Changed, platform
<1>4. FlightInv'
  BY DEF IInv, TypeOK, FlagType, CounterType, RefreshType, FlightInv, Start, Changed,
         platform
<1>5. QuietWhenStopped' /\ NoLeakedListener'
  BY DEF IInv, TypeOK, FlagType, CounterType, FlightInv, QuietWhenStopped,
         NoLeakedListener, Start, Changed, platform
<1>6. NeverIdleWithWork'
  BY DEF IInv, TypeOK, FlagType, FlightInv, NeverIdleWithWork, Start, Changed, platform
<1>. QED BY <1>1, <1>2, <1>3, <1>4, <1>5, <1>6 DEF IInv, TypeOK

\* stop() releases what there is to release.
LEMMA StopKeeps == IInv /\ Stop => IInv'
<1>. SUFFICES ASSUME IInv, Stop PROVE IInv'
  OBVIOUS
<1>1. FlagType'
  BY DEF IInv, TypeOK, FlagType, Stop
<1>2. CounterType'
  BY DEF IInv, TypeOK, CounterType, RefreshType, Stop
<1>3. NetType' /\ RefreshType'
  BY DEF IInv, TypeOK, CounterType, NetType, RefreshType, Stop
<1>4. FlightInv'
  BY DEF IInv, TypeOK, FlagType, CounterType, RefreshType, FlightInv, Stop
<1>5. QuietWhenStopped' /\ NoLeakedListener'
  BY DEF IInv, TypeOK, FlagType, CounterType, FlightInv, QuietWhenStopped,
         NoLeakedListener, Stop
<1>6. NeverIdleWithWork'
  BY DEF IInv, TypeOK, FlagType, FlightInv, NeverIdleWithWork, Stop
<1>. QED BY <1>1, <1>2, <1>3, <1>4, <1>5, <1>6 DEF IInv, TypeOK

\* A refresh registers only when there is no handle.
LEMMA RefreshBeginsKeeps == IInv /\ RefreshBegins => IInv'
<1>. SUFFICES ASSUME IInv, RefreshBegins PROVE IInv'
  OBVIOUS
<1>1. FlagType'
  BY DEF IInv, TypeOK, FlagType, RefreshBegins, Register, Refresh
<1>2. CounterType'
  BY DEF IInv, TypeOK, CounterType, RefreshType, RefreshBegins, Register, Refresh
<1>3. NetType' /\ RefreshType'
  BY DEF IInv, TypeOK, CounterType, NetType, RefreshType, RefreshBegins, Register, Refresh
<1>4. FlightInv'
  BY DEF IInv, TypeOK, FlagType, CounterType, RefreshType, FlightInv, RefreshBegins,
         Register, Refresh
<1>5. QuietWhenStopped' /\ NoLeakedListener'
  BY DEF IInv, TypeOK, FlagType, CounterType, FlightInv, QuietWhenStopped,
         NoLeakedListener, RefreshBegins, Register, Refresh
<1>6. NeverIdleWithWork'
  BY DEF IInv, TypeOK, FlagType, FlightInv, NeverIdleWithWork, RefreshBegins, Register,
         Refresh
<1>. QED BY <1>1, <1>2, <1>3, <1>4, <1>5, <1>6 DEF IInv, TypeOK

\* The timer is lost, but a refresh is in flight.
LEMMA RefreshSkippedKeeps == IInv /\ RefreshSkipped => IInv'
<1>. SUFFICES ASSUME IInv, RefreshSkipped PROVE IInv'
  OBVIOUS
<1>1. FlagType'
  BY DEF IInv, TypeOK, FlagType, RefreshSkipped, platform
<1>2. CounterType'
  BY DEF IInv, TypeOK, CounterType, RefreshType, RefreshSkipped, platform
<1>3. NetType' /\ RefreshType'
  BY DEF IInv, TypeOK, CounterType, NetType, RefreshType, RefreshSkipped, platform
<1>4. FlightInv'
  BY DEF IInv, TypeOK, FlagType, CounterType, RefreshType, FlightInv, RefreshSkipped,
         platform
<1>5. QuietWhenStopped' /\ NoLeakedListener'
  BY DEF IInv, TypeOK, FlagType, CounterType, FlightInv, QuietWhenStopped,
         NoLeakedListener, RefreshSkipped, platform
<1>6. NeverIdleWithWork'
  BY DEF IInv, TypeOK, FlagType, FlightInv, NeverIdleWithWork, RefreshSkipped, platform
<1>. QED BY <1>1, <1>2, <1>3, <1>4, <1>5, <1>6 DEF IInv, TypeOK

\* The invariant is preserved by Sample.
LEMMA SampleKeeps == IInv /\ Sample => IInv'
<1>. SUFFICES ASSUME IInv, Sample PROVE IInv'
  OBVIOUS
<1>1. FlagType'
  BY DEF IInv, TypeOK, FlagType, Sample, Refresh, platform
<1>2. CounterType'
  BY DEF IInv, TypeOK, CounterType, RefreshType, Sample, Refresh, platform
<1>3. NetType' /\ RefreshType'
  BY DEF IInv, TypeOK, CounterType, NetType, RefreshType, Sample, Refresh, platform
<1>4. FlightInv'
  BY DEF IInv, TypeOK, FlagType, CounterType, RefreshType, FlightInv, Sample, Refresh,
         platform
<1>5. QuietWhenStopped' /\ NoLeakedListener'
  BY DEF IInv, TypeOK, FlagType, CounterType, FlightInv, QuietWhenStopped,
         NoLeakedListener, Sample, Refresh, platform
<1>6. NeverIdleWithWork'
  BY DEF IInv, TypeOK, FlagType, FlightInv, NeverIdleWithWork, Sample, Refresh, platform
<1>. QED BY <1>1, <1>2, <1>3, <1>4, <1>5, <1>6 DEF IInv, TypeOK

\* The finally block sets the timer unless nothing is left to do.
LEMMA ReadReturnsKeeps == IInv /\ ReadReturns => IInv'
<1>. SUFFICES ASSUME IInv, ReadReturns PROVE IInv'
  OBVIOUS
<1>1. FlagType'
  BY DEF IInv, TypeOK, FlagType, ReadReturns, Finally, Schedule, NoRefresh, Refresh,
         StillCurrent, Applied, platform
<1>2. CounterType'
  BY DEF IInv, TypeOK, CounterType, RefreshType, ReadReturns, Finally, Schedule,
         NoRefresh, Refresh, StillCurrent, Applied, platform
<1>3. NetType' /\ RefreshType'
  BY DEF IInv, TypeOK, CounterType, NetType, RefreshType, ReadReturns, Finally,
         Schedule, NoRefresh, Refresh, StillCurrent, Applied, platform
<1>4. FlightInv'
  <2>1. UNCHANGED <<registering, registration, netConnection, active, generation>>
    BY DEF ReadReturns, platform
  <2>2. inFlight' <=> refresh'.at # "idle"
    <3>1. CASE StillCurrent /\ refresh.revision = revision /\ refresh.network # fingerprint
      <4>1. refresh' = Refresh("rebind", refresh.generation, refresh.revision, refresh.network)
        BY <3>1 DEF ReadReturns
      <4>2. inFlight' = inFlight
        BY <3>1, Zenon DEF ReadReturns
      <4>3. refresh'.at = "rebind"
        BY <4>1 DEF Refresh
      <4>4. inFlight
        BY DEF IInv, FlightInv, ReadReturns
      <4>. QED BY <4>2, <4>3, <4>4
    <3>2. CASE ~(StillCurrent /\ refresh.revision = revision /\ refresh.network # fingerprint)
      <4>1. refresh'.at = "idle" /\ inFlight' = FALSE
        BY <3>2 DEF ReadReturns, Finally, NoRefresh, Refresh
      <4>. QED BY <4>1
    <3>. QED BY <3>1, <3>2
  <2>. QED BY <2>1, <2>2 DEF IInv, FlightInv
<1>5. QuietWhenStopped' /\ NoLeakedListener'
  BY DEF IInv, TypeOK, FlagType, CounterType, FlightInv, QuietWhenStopped,
         NoLeakedListener, ReadReturns, Finally, Schedule, NoRefresh, Refresh,
         StillCurrent, Applied, platform
<1>6. NeverIdleWithWork'
  BY DEF IInv, TypeOK, FlagType, FlightInv, NeverIdleWithWork, ReadReturns, Finally,
         Schedule, NoRefresh, Refresh, StillCurrent, Applied, platform
<1>. QED BY <1>1, <1>2, <1>3, <1>4, <1>5, <1>6 DEF IInv, TypeOK

\* The invariant is preserved by ReadFails.
LEMMA ReadFailsKeeps == IInv /\ ReadFails => IInv'
<1>. SUFFICES ASSUME IInv, ReadFails PROVE IInv'
  OBVIOUS
<1>1. FlagType'
  BY DEF IInv, TypeOK, FlagType, ReadFails, Finally, Schedule, NoRefresh, Refresh,
         StillCurrent, platform
<1>2. CounterType'
  BY DEF IInv, TypeOK, CounterType, RefreshType, ReadFails, Finally, Schedule,
         NoRefresh, Refresh, StillCurrent, platform
<1>3. NetType' /\ RefreshType'
  BY DEF IInv, TypeOK, CounterType, NetType, RefreshType, ReadFails, Finally, Schedule,
         NoRefresh, Refresh, StillCurrent, platform
<1>4. FlightInv'
  BY DEF IInv, TypeOK, FlagType, CounterType, RefreshType, FlightInv, ReadFails,
         Finally, Schedule, NoRefresh, Refresh, StillCurrent, platform
<1>5. QuietWhenStopped' /\ NoLeakedListener'
  BY DEF IInv, TypeOK, FlagType, CounterType, FlightInv, QuietWhenStopped,
         NoLeakedListener, ReadFails, Finally, Schedule, NoRefresh, Refresh,
         StillCurrent, platform
<1>6. NeverIdleWithWork'
  BY DEF IInv, TypeOK, FlagType, FlightInv, NeverIdleWithWork, ReadFails, Finally,
         Schedule, NoRefresh, Refresh, StillCurrent, platform
<1>. QED BY <1>1, <1>2, <1>3, <1>4, <1>5, <1>6 DEF IInv, TypeOK

\* The invariant is preserved by NativePublish.
LEMMA NativePublishKeeps == IInv /\ NativePublish => IInv'
<1>. SUFFICES ASSUME IInv, NativePublish PROVE IInv'
  OBVIOUS
<1>1. FlagType'
  BY DEF IInv, TypeOK, FlagType, NativePublish, Refresh, platform
<1>2. CounterType'
  BY DEF IInv, TypeOK, CounterType, RefreshType, NativePublish, Refresh, platform
<1>3. NetType' /\ RefreshType'
  BY DEF IInv, TypeOK, CounterType, NetType, RefreshType, NativePublish, Refresh, platform
<1>4. FlightInv'
  BY DEF IInv, TypeOK, FlagType, CounterType, RefreshType, FlightInv, NativePublish,
         Refresh, platform
<1>5. QuietWhenStopped' /\ NoLeakedListener'
  BY DEF IInv, TypeOK, FlagType, CounterType, FlightInv, QuietWhenStopped,
         NoLeakedListener, NativePublish, Refresh, platform
<1>6. NeverIdleWithWork'
  BY DEF IInv, TypeOK, FlagType, FlightInv, NeverIdleWithWork, NativePublish, Refresh,
         platform
<1>. QED BY <1>1, <1>2, <1>3, <1>4, <1>5, <1>6 DEF IInv, TypeOK

\* The invariant is preserved by RebindReturns.
LEMMA RebindReturnsKeeps == IInv /\ RebindReturns => IInv'
<1>. SUFFICES ASSUME IInv, RebindReturns PROVE IInv'
  OBVIOUS
<1>1. FlagType'
  BY DEF IInv, TypeOK, FlagType, RebindReturns, Finally, Schedule, NoRefresh, Refresh,
         StillCurrent, Applied, platform
<1>2. CounterType'
  BY DEF IInv, TypeOK, CounterType, RefreshType, RebindReturns, Finally, Schedule,
         NoRefresh, Refresh, StillCurrent, Applied, platform
<1>3. NetType' /\ RefreshType'
  BY DEF IInv, TypeOK, CounterType, NetType, RefreshType, RebindReturns, Finally,
         Schedule, NoRefresh, Refresh, StillCurrent, Applied, platform
<1>4. FlightInv'
  BY DEF IInv, TypeOK, FlagType, CounterType, RefreshType, FlightInv, RebindReturns,
         Finally, Schedule, NoRefresh, Refresh, StillCurrent, Applied, platform
<1>5. QuietWhenStopped' /\ NoLeakedListener'
  BY DEF IInv, TypeOK, FlagType, CounterType, FlightInv, QuietWhenStopped,
         NoLeakedListener, RebindReturns, Finally, Schedule, NoRefresh, Refresh,
         StillCurrent, Applied, platform
<1>6. NeverIdleWithWork'
  BY DEF IInv, TypeOK, FlagType, FlightInv, NeverIdleWithWork, RebindReturns, Finally,
         Schedule, NoRefresh, Refresh, StillCurrent, Applied, platform
<1>. QED BY <1>1, <1>2, <1>3, <1>4, <1>5, <1>6 DEF IInv, TypeOK

\* The invariant is preserved by RebindFails.
LEMMA RebindFailsKeeps == IInv /\ RebindFails => IInv'
<1>. SUFFICES ASSUME IInv, RebindFails PROVE IInv'
  OBVIOUS
<1>1. FlagType'
  BY DEF IInv, TypeOK, FlagType, RebindFails, Finally, Schedule, NoRefresh, Refresh,
         StillCurrent, platform
<1>2. CounterType'
  BY DEF IInv, TypeOK, CounterType, RefreshType, RebindFails, Finally, Schedule,
         NoRefresh, Refresh, StillCurrent, platform
<1>3. NetType' /\ RefreshType'
  BY DEF IInv, TypeOK, CounterType, NetType, RefreshType, RebindFails, Finally,
         Schedule, NoRefresh, Refresh, StillCurrent, platform
<1>4. FlightInv'
  BY DEF IInv, TypeOK, FlagType, CounterType, RefreshType, FlightInv, RebindFails,
         Finally, Schedule, NoRefresh, Refresh, StillCurrent, platform
<1>5. QuietWhenStopped' /\ NoLeakedListener'
  BY DEF IInv, TypeOK, FlagType, CounterType, FlightInv, QuietWhenStopped,
         NoLeakedListener, RebindFails, Finally, Schedule, NoRefresh, Refresh,
         StillCurrent, platform
<1>6. NeverIdleWithWork'
  BY DEF IInv, TypeOK, FlagType, FlightInv, NeverIdleWithWork, RebindFails, Finally,
         Schedule, NoRefresh, Refresh, StillCurrent, platform
<1>. QED BY <1>1, <1>2, <1>3, <1>4, <1>5, <1>6 DEF IInv, TypeOK

\* A handle is kept only by the generation that asked for it.
LEMMA RegisteredKeeps == IInv /\ Registered => IInv'
<1>. SUFFICES ASSUME IInv, Registered PROVE IInv'
  OBVIOUS
<1>1. FlagType'
  BY DEF IInv, TypeOK, FlagType, Registered, Changed
<1>2. CounterType'
  <2>1. registration \in 1 .. MaxGen
    BY DEF IInv, TypeOK, CounterType, Registered
  <2>2. registered' \subseteq 1 .. MaxGen
    BY <2>1 DEF IInv, TypeOK, CounterType, Registered
  <2>. QED BY <2>1, <2>2 DEF IInv, TypeOK, CounterType, Registered, Changed
<1>3. NetType' /\ RefreshType'
  BY DEF IInv, TypeOK, CounterType, NetType, RefreshType, Registered, Changed
<1>4. FlightInv'
  BY DEF IInv, TypeOK, FlagType, CounterType, RefreshType, FlightInv, Registered, Changed
<1>5. QuietWhenStopped' /\ NoLeakedListener'
  BY DEF IInv, TypeOK, FlagType, CounterType, FlightInv, QuietWhenStopped,
         NoLeakedListener, Registered, Changed
<1>6. NeverIdleWithWork'
  BY DEF IInv, TypeOK, FlagType, FlightInv, NeverIdleWithWork, Registered, Changed
<1>. QED BY <1>1, <1>2, <1>3, <1>4, <1>5, <1>6 DEF IInv, TypeOK

\* The invariant is preserved by RegisterFails.
LEMMA RegisterFailsKeeps == IInv /\ RegisterFails => IInv'
<1>. SUFFICES ASSUME IInv, RegisterFails PROVE IInv'
  OBVIOUS
<1>1. FlagType'
  BY DEF IInv, TypeOK, FlagType, RegisterFails, Schedule
<1>2. CounterType'
  BY DEF IInv, TypeOK, CounterType, RefreshType, RegisterFails, Schedule
<1>3. NetType' /\ RefreshType'
  BY DEF IInv, TypeOK, CounterType, NetType, RefreshType, RegisterFails, Schedule
<1>4. FlightInv'
  BY DEF IInv, TypeOK, FlagType, CounterType, RefreshType, FlightInv, RegisterFails,
         Schedule
<1>5. QuietWhenStopped' /\ NoLeakedListener'
  BY DEF IInv, TypeOK, FlagType, CounterType, FlightInv, QuietWhenStopped,
         NoLeakedListener, RegisterFails, Schedule
<1>6. NeverIdleWithWork'
  BY DEF IInv, TypeOK, FlagType, FlightInv, NeverIdleWithWork, RegisterFails, Schedule
<1>. QED BY <1>1, <1>2, <1>3, <1>4, <1>5, <1>6 DEF IInv, TypeOK

\* The invariant is preserved by NetworkChanges.
LEMMA NetworkChangesKeeps == IInv /\ NetworkChanges => IInv'
<1>. SUFFICES ASSUME IInv, NetworkChanges PROVE IInv'
  OBVIOUS
<1>1. FlagType'
  BY DEF IInv, TypeOK, FlagType, NetworkChanges, monitor
<1>2. CounterType'
  BY DEF IInv, TypeOK, CounterType, RefreshType, NetworkChanges, monitor
<1>3. NetType' /\ RefreshType'
  BY DEF IInv, TypeOK, CounterType, NetType, RefreshType, NetworkChanges, monitor
<1>4. FlightInv'
  BY DEF IInv, TypeOK, FlagType, CounterType, RefreshType, FlightInv, NetworkChanges,
         monitor
<1>5. QuietWhenStopped' /\ NoLeakedListener'
  BY DEF IInv, TypeOK, FlagType, CounterType, FlightInv, QuietWhenStopped,
         NoLeakedListener, NetworkChanges, monitor
<1>6. NeverIdleWithWork'
  BY DEF IInv, TypeOK, FlagType, FlightInv, NeverIdleWithWork, NetworkChanges, monitor
<1>. QED BY <1>1, <1>2, <1>3, <1>4, <1>5, <1>6 DEF IInv, TypeOK

\* The invariant is preserved by RegisterThrows.
LEMMA RegisterThrowsKeeps == IInv /\ RegisterThrows => IInv'
<1>. SUFFICES ASSUME IInv, RegisterThrows PROVE IInv'
  OBVIOUS
<1>1. FlagType'
  BY DEF IInv, TypeOK, FlagType, RegisterThrows, vars, monitor, platform
<1>2. CounterType'
  BY DEF IInv, TypeOK, CounterType, RefreshType, RegisterThrows, vars, monitor, platform
<1>3. NetType' /\ RefreshType'
  BY DEF IInv, TypeOK, CounterType, NetType, RefreshType, RegisterThrows, vars, monitor,
         platform
<1>4. FlightInv'
  BY DEF IInv, TypeOK, FlagType, CounterType, RefreshType, FlightInv, RegisterThrows,
         vars, monitor, platform
<1>5. QuietWhenStopped' /\ NoLeakedListener'
  BY DEF IInv, TypeOK, FlagType, CounterType, FlightInv, QuietWhenStopped,
         NoLeakedListener, RegisterThrows, vars, monitor, platform
<1>6. NeverIdleWithWork'
  BY DEF IInv, TypeOK, FlagType, FlightInv, NeverIdleWithWork, RegisterThrows, vars,
         monitor, platform
<1>. QED BY <1>1, <1>2, <1>3, <1>4, <1>5, <1>6 DEF IInv, TypeOK

\* An event of an older handle changes nothing.
LEMMA NotifyKeeps == ASSUME NEW h \in events, IInv, Notify(h) PROVE IInv'
<1>1. FlagType'
  BY DEF IInv, TypeOK, FlagType, Notify, Changed
<1>2. CounterType'
  BY DEF IInv, TypeOK, CounterType, Notify, Changed
<1>3. NetType' /\ RefreshType'
  BY DEF IInv, TypeOK, CounterType, NetType, RefreshType, Notify, Changed
<1>4. FlightInv'
  BY DEF IInv, FlightInv, Notify
<1>5. QuietWhenStopped' /\ NoLeakedListener'
  BY DEF IInv, QuietWhenStopped, NoLeakedListener, Notify, Changed
<1>6. NeverIdleWithWork'
  BY DEF IInv, NeverIdleWithWork, Notify, Changed
<1>. QED BY <1>1, <1>2, <1>3, <1>4, <1>5, <1>6 DEF IInv, TypeOK

\* Every step preserves the invariant.
LEMMA NextIInv == IInv /\ [Next]_vars => IInv'
<1>. SUFFICES ASSUME IInv, [Next]_vars PROVE IInv'
  OBVIOUS
<1>1. CASE UNCHANGED vars
  BY <1>1, RegisterThrowsKeeps DEF IInv, TypeOK, FlagType, CounterType, NetType,
                                   RefreshType, FlightInv,
              QuietWhenStopped, NoLeakedListener, NeverIdleWithWork, vars, monitor,
              platform
<1>2. CASE \E h \in events : Notify(h)
  BY <1>2, NotifyKeeps
<1>. QED
  BY <1>1, <1>2, StartKeeps, StopKeeps, RefreshBeginsKeeps, RefreshSkippedKeeps, SampleKeeps,
     ReadReturnsKeeps, ReadFailsKeeps, NativePublishKeeps, RebindReturnsKeeps,
     RebindFailsKeeps, RegisteredKeeps, RegisterFailsKeeps, NetworkChangesKeeps, RegisterThrowsKeeps
  DEF Next, RefreshStep

\* The invariant holds always.
THEOREM Invariance == SafeSpec => []IInv
BY InitIInv, NextIInv, PTL DEF SafeSpec

\* Every variable keeps its type, and no revision is applied before it exists.
THEOREM TypeCorrect == SafeSpec => []TypeOK
BY Invariance, PTL DEF IInv

\* Shutdown is final: no stale callback, read or rebind leaves a timer or a
\* listener behind after stop, for any number of restarts.
THEOREM ShutdownIsQuiet == SafeSpec => []QuietWhenStopped
BY Invariance, PTL DEF IInv

\* No listener is ever leaked.
THEOREM ListenersReleased == SafeSpec => []NoLeakedListener
BY Invariance, PTL DEF IInv

\* No change of the network is lost for want of a timer.
THEOREM NoLostWakeup == SafeSpec => []NeverIdleWithWork
BY Invariance, PTL DEF IInv
-----------------------------------------------------------------------------
\* A handle is held only by the generation that asked for it, and is registered.
HandleCurrent ==
    netConnection # 0 => /\ active /\ netConnection = generation
                         /\ netConnection \in registered

\* No event of the current handle is on its way.
Heard == netConnection # 0 /\ netConnection \notin events

\* What a refresh has sampled is the phone's network, unless an event tells it or a
\* newer revision has told it otherwise.
SampleCurrent ==
    /\ refresh.at \in {"sampled", "rebind", "published"}
    /\ StillCurrent /\ refresh.revision = revision /\ Heard
    => refresh.network = network

\* The fingerprint is the phone's network when the last revision has been applied.
FingerprintCurrent ==
    active /\ revision = appliedRevision /\ Heard => fingerprint = network

\* The second inductive invariant, on top of IInv.
CurrentInv == HandleCurrent /\ SampleCurrent /\ FingerprintCurrent

\* Every initial state satisfies it.
LEMMA InitCurrent == Init => CurrentInv
  BY DEF Init, CurrentInv, HandleCurrent, SampleCurrent, FingerprintCurrent, Heard

\* start and stop: a stopped monitor has no handle, a started one a new revision.
LEMMA LifeCurrent == ASSUME IInv, CurrentInv, Start \/ Stop PROVE CurrentInv'
<1>1. CASE Start
  BY <1>1 DEF Start, Changed, platform, IInv, TypeOK, CounterType, RefreshType,
     QuietWhenStopped, CurrentInv, HandleCurrent, SampleCurrent, FingerprintCurrent, Heard
<1>2. CASE Stop
  BY <1>2 DEF Stop, CurrentInv, HandleCurrent, SampleCurrent, FingerprintCurrent, Heard,
     StillCurrent
<1>. QED BY <1>1, <1>2

\* A refresh that begins, is skipped, samples or publishes.
LEMMA RefreshCurrent ==
  ASSUME IInv, CurrentInv, RefreshStep \/ RegisterThrows \/ NativePublish
  PROVE  CurrentInv'
<1>. USE DEF CurrentInv, HandleCurrent, SampleCurrent, FingerprintCurrent, Heard,
            StillCurrent, Refresh
<1>1. CASE RefreshBegins
  BY <1>1 DEF RefreshBegins
<1>2. CASE RefreshSkipped
  BY <1>2 DEF RefreshSkipped, platform
<1>3. CASE Sample
  BY <1>3 DEF Sample, platform
<1>4. CASE NativePublish
  BY <1>4 DEF NativePublish, platform
<1>5. CASE RegisterThrows
  BY <1>5 DEF RegisterThrows, vars, monitor, platform
<1>. QED BY <1>1, <1>2, <1>3, <1>4, <1>5 DEF RefreshStep

\* A refresh that returns applies what it has sampled, or nothing.
LEMMA ReturnCurrent ==
  ASSUME IInv, CurrentInv, ReadReturns \/ ReadFails \/ RebindReturns \/ RebindFails
  PROVE  CurrentInv'
<1>. USE DEF CurrentInv, HandleCurrent, SampleCurrent, FingerprintCurrent, Heard,
            StillCurrent, Refresh, NoRefresh, Finally, Applied, platform
<1>1. CASE ReadReturns
  BY <1>1 DEF ReadReturns
<1>2. CASE ReadFails
  BY <1>2 DEF ReadFails
<1>3. CASE RebindReturns
  BY <1>3 DEF RebindReturns
<1>4. CASE RebindFails
  BY <1>4 DEF RebindFails
<1>. QED BY <1>1, <1>2, <1>3, <1>4

\* The platform: a change puts an event on its way to the handle, and an event and a
\* new handle make a new revision.
LEMMA PlatformCurrent ==
  ASSUME IInv, CurrentInv,
         Registered \/ RegisterFails \/ NetworkChanges \/ \E h \in events : Notify(h)
  PROVE  CurrentInv'
<1>. USE DEF CurrentInv, HandleCurrent, SampleCurrent, FingerprintCurrent, Heard,
            StillCurrent, IInv, TypeOK, CounterType, RefreshType, FlightInv
<1>1. CASE Registered
  BY <1>1 DEF Registered, Changed
<1>2. CASE RegisterFails
  BY <1>2 DEF RegisterFails
<1>3. CASE NetworkChanges
  BY <1>3 DEF NetworkChanges, monitor
<1>4. ASSUME NEW h \in events, Notify(h) PROVE CurrentInv'
  BY <1>4 DEF Notify, Changed
<1>. QED BY <1>1, <1>2, <1>3, <1>4

\* Every step preserves the second invariant.
LEMMA NextCurrent == IInv /\ CurrentInv /\ [Next]_vars => CurrentInv'
<1>. SUFFICES ASSUME IInv, CurrentInv, [Next]_vars PROVE CurrentInv'
  OBVIOUS
<1>1. CASE UNCHANGED vars
  BY <1>1 DEF vars, monitor, platform, CurrentInv, HandleCurrent, SampleCurrent,
     FingerprintCurrent, Heard, StillCurrent
<1>. QED
  BY <1>1, LifeCurrent, RefreshCurrent, ReturnCurrent, PlatformCurrent DEF Next

\* A monitor that is at rest, with no event on its way, has the phone's network: late
\* reads, rebinds and events of older generations never make it believe another.
THEOREM AppliedCurrent == SafeSpec => []AppliedIsCurrent
<1>1. IInv /\ CurrentInv => AppliedIsCurrent
  BY DEF IInv, NeverIdleWithWork, CurrentInv, FingerprintCurrent, Heard, AppliedIsCurrent
<1>2. SafeSpec => []CurrentInv
  BY InitCurrent, NextCurrent, Invariance, PTL DEF SafeSpec
<1>. QED BY <1>1, <1>2, Invariance, PTL
=============================================================================
