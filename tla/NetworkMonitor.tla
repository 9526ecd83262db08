--------------------------- MODULE NetworkMonitor ---------------------------
(***************************************************************************)
(* VpnNetworkMonitor.ets: the VPN extension follows the phone's default    *)
(* network and has the Go backend rebind to it.  Everything runs on the    *)
(* extension's JavaScript thread; what interleaves are platform callbacks, *)
(* timers, the awaits inside refresh, and start and stop.                  *)
(*                                                                         *)
(* A network stands for its fingerprint, NoNet for the empty fingerprint.  *)
(* A NetConnection handle is named by the generation that created it.      *)
(* Delays are left to the interleaving: SETTLE_MS, RETRY_MS and            *)
(* nextRebindAtMs only say how long a timer runs.                          *)
(***************************************************************************)
EXTENDS Naturals

CONSTANTS
    Nets,        \* default networks the phone can have, being offline included
    NoNet,       \* the empty fingerprint
    MaxGen,      \* bound on generation: calls of start and stop
    MaxChanges   \* bound on changes of the default network

ASSUME NetsAssumption == NoNet \notin Nets
ASSUME BoundsAssumption == MaxGen \in Nat /\ MaxChanges \in Nat

VARIABLES
    active, generation, revision, appliedRevision, inFlight,
    timer,         \* timer >= 0
    fingerprint,
    netConnection, \* the handle, or 0 for undefined
    registering,
    refresh,       \* the refresh call in flight: where it waits, its locals
    registration,  \* handle whose register callback is due, or 0
    registered,    \* handles the platform has registered
    events,        \* handles with a change event on its way
    network,       \* the phone's default network
    changes,       \* how often it changed
    hint           \* the network last published to the Go backend

monitor == <<active, generation, revision, appliedRevision, inFlight, timer, fingerprint,
             netConnection, registering, refresh>>
platform == <<registration, registered, events, network, changes>>
vars == <<monitor, platform, hint>>

\* A call of refresh: where it waits, the generation and revision it began with,
\* and the network it sampled.
Refresh(at, g, r, n) == [at |-> at, generation |-> g, revision |-> r, network |-> n]
NoRefresh == Refresh("idle", 0, 0, NoNet)

Init ==
    /\ active = FALSE /\ generation = 0
    /\ revision = 0 /\ appliedRevision = 0
    /\ inFlight = FALSE /\ timer = FALSE
    /\ fingerprint = NoNet
    /\ netConnection = 0 /\ registering = FALSE
    /\ refresh = NoRefresh
    /\ registration = 0 /\ registered = {} /\ events = {}
    /\ network \in Nets /\ changes = 0
    /\ hint = NoNet
-----------------------------------------------------------------------------
\* changed(): a new revision, and a timer unless one is set.
Changed == revision' = revision + 1 /\ timer' = TRUE

\* start() does nothing while active.
Start ==
    /\ ~active
    /\ generation < MaxGen
    /\ active' = TRUE
    /\ generation' = generation + 1
    /\ fingerprint' = NoNet
    /\ Changed
    /\ UNCHANGED <<appliedRevision, inFlight, netConnection, registering, refresh,
                   platform, hint>>

StopForgetsListener ==
    /\ generation < MaxGen
    /\ active' = FALSE
    /\ generation' = generation + 1
    /\ timer' = FALSE
    /\ netConnection' = 0
    /\ UNCHANGED <<revision, appliedRevision, inFlight, fingerprint, registering, refresh,
                   platform, hint>>
Stop ==
    /\ generation < MaxGen
    /\ active' = FALSE
    /\ generation' = generation + 1
    /\ timer' = FALSE
    /\ netConnection' = 0
    /\ registered' = registered \ {netConnection}
    /\ UNCHANGED <<revision, appliedRevision, inFlight, fingerprint, registering, refresh,
                   registration, events, network, changes, hint>>
-----------------------------------------------------------------------------
(* refresh() *)

\* The timer fires; the call returns at once while another is in flight.
RefreshSkipped ==
    /\ timer /\ inFlight
    /\ timer' = FALSE
    /\ UNCHANGED <<active, generation, revision, appliedRevision, inFlight, fingerprint,
                   netConnection, registering, refresh, platform, hint>>

\* register(), unless there is a handle or one on its way.
Register ==
    IF netConnection = 0 /\ ~registering
    THEN registering' = TRUE /\ registration' = generation
    ELSE UNCHANGED <<registering, registration>>

RefreshBegins ==
    /\ timer /\ active /\ ~inFlight
    /\ timer' = FALSE
    /\ inFlight' = TRUE
    /\ refresh' = Refresh("read", generation, revision, NoNet)
    /\ Register
    /\ UNCHANGED <<active, generation, revision, appliedRevision, fingerprint,
                   netConnection, registered, events, network, changes, hint>>

\* createNetConnection or register throws: caught, and tried again later.
RegisterThrows ==
    /\ timer /\ active /\ ~inFlight
    /\ netConnection = 0 /\ ~registering
    /\ UNCHANGED vars

\* schedule(): a timer already set stays.
Schedule(wanted) == IF wanted THEN timer' = TRUE ELSE UNCHANGED timer

\* The finally block.
FinallyForgetful(retry, applied) ==
    /\ inFlight' = FALSE
    /\ refresh' = NoRefresh
    /\ Schedule(active /\ (retry \/ netConnection = 0))
FinallyUnchecked(retry, applied) ==
    /\ inFlight' = FALSE
    /\ refresh' = NoRefresh
    /\ Schedule(retry \/ netConnection = 0 \/ revision # applied)
Finally(retry, applied) ==
    /\ inFlight' = FALSE
    /\ refresh' = NoRefresh
    /\ Schedule(active /\ (retry \/ netConnection = 0 \/ revision # applied))

StillCurrent == active /\ refresh.generation = generation

\* appliedRevision = revision, the one the call began with.
AppliedTooFar == refresh.revision + 1
Applied == refresh.revision

\* readDefaultNetwork samples the default network over several awaits ...
Sample ==
    /\ refresh.at = "read"
    /\ refresh' = Refresh("sampled", refresh.generation, refresh.revision, network)
    /\ UNCHANGED <<active, generation, revision, appliedRevision, inFlight, timer,
                   fingerprint, netConnection, registering, platform, hint>>

\* ... and throws if it changed meanwhile, or if the platform does.
ReadFails ==
    /\ refresh.at = "sampled"
    /\ Finally(StillCurrent, appliedRevision)
    /\ UNCHANGED <<active, generation, revision, appliedRevision, fingerprint,
                   netConnection, registering, platform, hint>>

\* The read returns: dropped if it is out of date, a rebind if the network is new,
\* applied if it is not.
ReadReturns ==
    LET fresh == StillCurrent /\ refresh.revision = revision
        same == refresh.network = fingerprint
    IN
    /\ refresh.at = "sampled"
    /\ IF fresh /\ ~same
       THEN /\ refresh' = Refresh("rebind", refresh.generation, refresh.revision, refresh.network)
            /\ UNCHANGED <<appliedRevision, inFlight, timer>>
       ELSE /\ appliedRevision' = IF fresh THEN Applied ELSE appliedRevision
            /\ Finally(FALSE, appliedRevision')
    /\ UNCHANGED <<active, generation, revision, fingerprint, netConnection, registering,
                   platform, hint>>

\* The worker publishes the route hint (NotifyNetworkChange) and then rebinds; or
\* the backend is not available and nothing happens.
NativePublish ==
    /\ refresh.at = "rebind"
    /\ hint' = refresh.network
    /\ refresh' = Refresh("published", refresh.generation, refresh.revision, refresh.network)
    /\ UNCHANGED <<active, generation, revision, appliedRevision, inFlight, timer,
                   fingerprint, netConnection, registering, platform>>

\* backendNetworkChangedAsync returns OK.
RebindReturns ==
    /\ refresh.at = "published"
    /\ fingerprint' = IF StillCurrent THEN refresh.network ELSE fingerprint
    /\ appliedRevision' = IF StillCurrent THEN Applied ELSE appliedRevision
    /\ Finally(FALSE, appliedRevision')
    /\ UNCHANGED <<active, generation, revision, netConnection, registering, platform, hint>>

\* It returns FAILED, before or after the hint was published, or rejects.
RebindFails ==
    /\ refresh.at \in {"rebind", "published"}
    /\ Finally(StillCurrent, appliedRevision)
    /\ UNCHANGED <<active, generation, revision, appliedRevision, fingerprint,
                   netConnection, registering, platform, hint>>
-----------------------------------------------------------------------------
(* Platform callbacks *)

\* The register callback: a handle of another generation is released at once.
RegisteredUnchecked ==
    /\ registration # 0
    /\ registering' = FALSE
    /\ registration' = 0
    /\ IF active
       THEN /\ netConnection' = registration
            /\ registered' = registered \cup {registration}
            /\ Changed
       ELSE UNCHANGED <<netConnection, registered, revision, timer>>
    /\ UNCHANGED <<active, generation, appliedRevision, inFlight, fingerprint, refresh,
                   events, network, changes, hint>>
Registered ==
    /\ registration # 0
    /\ registering' = FALSE
    /\ registration' = 0
    /\ IF active /\ registration = generation
       THEN /\ netConnection' = registration
            /\ registered' = registered \cup {registration}
            /\ Changed
       ELSE UNCHANGED <<netConnection, registered, revision, timer>>
    /\ UNCHANGED <<active, generation, appliedRevision, inFlight, fingerprint, refresh,
                   events, network, changes, hint>>

RegisterFails ==
    /\ registration # 0
    /\ registering' = FALSE
    /\ registration' = 0
    /\ Schedule(active /\ registration = generation)
    /\ UNCHANGED <<active, generation, revision, appliedRevision, inFlight, fingerprint,
                   netConnection, refresh, registered, events, network, changes, hint>>

\* The default network changes and every registered handle is told, in time.
NetworkChanges ==
    /\ changes < MaxChanges
    /\ changes' = changes + 1
    /\ network' \in Nets \ {network}
    /\ events' = events \cup registered
    /\ UNCHANGED <<monitor, registration, registered, hint>>

\* An event may still arrive after its handle was unregistered.
Notify(h) ==
    /\ h \in events
    /\ events' = events \ {h}
    /\ IF active /\ generation = h THEN Changed ELSE UNCHANGED <<revision, timer>>
    /\ UNCHANGED <<active, generation, appliedRevision, inFlight, fingerprint,
                   netConnection, registering, refresh, registration, registered, network,
                   changes, hint>>
-----------------------------------------------------------------------------
RefreshStep ==
    \/ RefreshBegins
    \/ RefreshSkipped
    \/ Sample

Next ==
    \/ Start
    \/ Stop
    \/ RefreshStep
    \/ RegisterThrows
    \/ ReadReturns
    \/ ReadFails
    \/ NativePublish
    \/ RebindReturns
    \/ RebindFails
    \/ Registered
    \/ RegisterFails
    \/ NetworkChanges
    \/ \E h \in events : Notify(h)

\* Timers fire, awaited calls return, events arrive; reading and rebinding do not
\* fail for ever.
Fairness ==
    /\ WF_vars(RefreshStep)
    /\ SF_vars(ReadReturns)
    /\ SF_vars(NativePublish)
    /\ SF_vars(RebindReturns)
    /\ WF_vars(Registered \/ RegisterFails)
    /\ \A h \in 1 .. MaxGen : WF_vars(Notify(h))

SafeSpec == Init /\ [][Next]_vars
Spec == SafeSpec /\ Fairness
-----------------------------------------------------------------------------
(* Properties *)

FlagType ==
    /\ active \in BOOLEAN /\ inFlight \in BOOLEAN
    /\ timer \in BOOLEAN /\ registering \in BOOLEAN

CounterType ==
    /\ generation \in 0 .. MaxGen
    /\ revision \in Nat /\ appliedRevision \in 0 .. revision
    /\ netConnection \in 0 .. MaxGen /\ registration \in 0 .. MaxGen
    /\ registered \subseteq 1 .. MaxGen /\ events \subseteq 1 .. MaxGen
    /\ changes \in 0 .. MaxChanges

NetType ==
    /\ network \in Nets
    /\ fingerprint \in Nets \cup {NoNet} /\ hint \in Nets \cup {NoNet}

RefreshType ==
    refresh \in [at : {"idle", "read", "sampled", "rebind", "published"},
                 generation : 0 .. MaxGen, revision : 0 .. revision,
                 network : Nets \cup {NoNet}]

\* Every variable keeps its type; a revision is never applied before it exists.
TypeOK == FlagType /\ CounterType /\ NetType /\ RefreshType

\* "stale asynchronous results cannot schedule work after shutdown": while
\* stopped there is no timer, and no listener is registered (stop, and the
\* generation checks of the register callback and of refresh).
QuietWhenStopped == ~active => ~timer /\ netConnection = 0 /\ registered = {}

\* A listener that is registered is the one the next stop will release.
NoLeakedListener == registered \subseteq {netConnection} \ {0}

\* No change is lost: an active monitor that has not applied its last revision,
\* or has no listener, has a timer set or a refresh under way that will set one
\* (the timer that fires during a refresh is made up for in finally).
NeverIdleWithWork ==
    active => timer \/ inFlight \/ (netConnection # 0 /\ revision = appliedRevision)

\* A revision counts as applied only for the network sampled since it came: with
\* no event on its way and nothing to do, the monitor has the phone's network.
AppliedIsCurrent ==
    active /\ ~timer /\ ~inFlight /\ events = {} => fingerprint = network

\* Once the network stays as it is, an active monitor ends up with it.
Converges == <>[](active => fingerprint = network)

\* What the recovery document says, "The application must recover after network
\* changes": the backend ends up with the route hint of the network.
BackendConverges == <>[](active => hint = network)
=============================================================================
