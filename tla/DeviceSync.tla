----------------------------- MODULE DeviceSync -----------------------------
(***************************************************************************)
(* The LocalSend status of the peers (mesharc_devices.go).  Each backend    *)
(* has a loop that sweeps over the online peers; the user's refresh sweeps  *)
(* too, under a deadline.  A sweep takes a lock, asks for the status, probes*)
(* the peers, merges the sample into the known states with a hysteresis of  *)
(* two failures, and posts the list to the local receiver.                  *)
(*                                                                          *)
(* Sweeper 0 is the refresh, sweeper g the loop of generation g.  The eight *)
(* probe workers and their two protocols are one step whose result is the   *)
(* set of peers that answered.                                              *)
(***************************************************************************)
EXTENDS Naturals

CONSTANTS Peers, MaxGen, MaxRefresh   \* bounds on backends and refreshes

ASSUME BoundsAssumption == MaxGen \in Nat /\ MaxRefresh \in Nat

VARIABLES
    cur,          \* generation of the backend in the controller, 0 if none
    started,      \* generations used so far
    cancelling,   \* generations whose stop has not called its cancel functions yet
    holder,       \* sweepers inside meshArcDeviceRefreshMu
    statuses,     \* b.meshArcDeviceStatuses, "absent" for no entry
    failures,     \* b.meshArcDeviceFailures, 0 for no entry
    receiver,     \* b.meshArcReceiverStatus: idle, ok, failed
    sweep,        \* what each sweeper is doing
    refreshes,    \* refreshes begun
    online, serving,    \* external: peers online; peers whose LocalSend runs
    misses,       \* whole, separate samples in a row a peer did not answer in
    origin,       \* generation whose sweep wrote statuses or receiver last
    expired       \* receiver was set to failed by a sweep whose budget was used up

controller == <<cur, started, cancelling>>
table == <<statuses, failures, misses>>
vars == <<controller, holder, table, receiver, sweep, refreshes, online, serving,
          origin, expired>>

Generations == 1 .. MaxGen
Sweepers == 0 .. MaxGen
States == {"absent", "checking", "available", "unavailable"}

\* done: the context is cancelled or its deadline has passed.  whole: it was not when
\* the probes returned.  separate: no other sample was merged since this one began.
NoSweep == [at |-> "idle", gen |-> 0, done |-> FALSE, round |-> 1, seen |-> {},
            heard |-> {}, whole |-> FALSE, separate |-> FALSE]

Init ==
    /\ cur = 0 /\ started = 0 /\ cancelling = {}
    /\ holder = {} /\ refreshes = 0
    /\ statuses = [p \in Peers |-> "absent"] /\ failures = [p \in Peers |-> 0]
    /\ misses = [p \in Peers |-> 0]
    /\ receiver = "idle" /\ origin = 0 /\ expired = FALSE
    /\ sweep = [s \in Sweepers |-> NoSweep]
    /\ online \in SUBSET Peers /\ serving \in SUBSET Peers

IsCurrent(s) == sweep[s].gen = cur

Goto(s, at) == sweep' = [sweep EXCEPT ![s].at = at]

\* The deferred unlock; the loop waits for its ticker, a refresh decides on a second
\* sample.
AfterSweep(s) == IF s = 0 THEN "decide" ELSE "tick"
Leave(s) ==
    /\ sweep' = [sweep EXCEPT ![s] = [@ EXCEPT !.at = AfterSweep(s), !.seen = {},
                                     !.heard = {}, !.whole = FALSE, !.separate = FALSE]]
    /\ holder' = holder \ {s}
-----------------------------------------------------------------------------
(* Backend *)

\* A backend gets its client and its loop.
StartSync ==
    /\ cur = 0 /\ started < MaxGen
    /\ started' = started + 1 /\ cur' = started'
    /\ sweep' = [sweep EXCEPT ![cur'] = [NoSweep EXCEPT !.at = "wait", !.gen = cur']]
    /\ UNCHANGED <<cancelling, holder, table, receiver, refreshes, online, serving,
                   origin, expired>>

\* stop and restartWithTun clear the fields under the lock and cancel after it.
Stop ==
    /\ cur # 0
    /\ cur' = 0 /\ cancelling' = cancelling \cup {cur}
    /\ statuses' = [p \in Peers |-> "absent"] /\ failures' = [p \in Peers |-> 0]
    /\ misses' = [p \in Peers |-> 0]
    /\ receiver' = "idle" /\ origin' = 0 /\ expired' = FALSE
    /\ UNCHANGED <<started, holder, sweep, refreshes, online, serving>>

CancelSync(g) ==
    /\ g \in cancelling
    /\ cancelling' = cancelling \ {g}
    /\ sweep' = [sweep EXCEPT ![g].done = TRUE]
    /\ UNCHANGED <<cur, started, holder, table, receiver, refreshes, online, serving,
                   origin, expired>>
-----------------------------------------------------------------------------
(* One sweep: syncMeshArcDevicesOnce *)

\* TryLock every 50 ms until it is free or the context is done.
GiveUpLockDeaf(s) == FALSE /\ UNCHANGED vars
GiveUpLock(s) ==
    /\ sweep[s].at = "wait" /\ sweep[s].done
    /\ Goto(s, AfterSweep(s))
    /\ UNCHANGED <<controller, holder, table, receiver, refreshes, online, serving,
                   origin, expired>>

LockFreeUnchecked == TRUE
LockFree == holder = {}

TakeLock(s) ==
    /\ sweep[s].at = "wait" /\ LockFree
    /\ holder' = holder \cup {s}
    /\ Goto(s, "check")
    /\ UNCHANGED <<controller, table, receiver, refreshes, online, serving, origin, expired>>

CheckBackend(s) ==
    /\ sweep[s].at = "check"
    /\ IF sweep[s].done \/ ~IsCurrent(s) THEN Leave(s)
                                         ELSE Goto(s, "status") /\ UNCHANGED holder
    /\ UNCHANGED <<controller, table, receiver, refreshes, online, serving, origin, expired>>

\* updateMeshArcReceiverStatus, ignored when the backend has changed.
SetReceiver(s, state) ==
    IF IsCurrent(s)
    THEN /\ receiver' = state /\ origin' = sweep[s].gen
         /\ expired' = (state = "failed" /\ sweep[s].done)
    ELSE UNCHANGED <<receiver, origin, expired>>

\* Status fails, because the context is done or by itself.
StatusFails(s) ==
    /\ sweep[s].at = "status"
    /\ SetReceiver(s, "failed")
    /\ Leave(s)
    /\ UNCHANGED <<controller, table, refreshes, online, serving>>

StatusReturns(s) ==
    /\ sweep[s].at = "status" /\ ~sweep[s].done
    /\ IF IsCurrent(s)
       THEN /\ sweep' = [sweep EXCEPT ![s] = [@ EXCEPT !.at = "probe", !.seen = online,
                                              !.separate = TRUE]]
            /\ UNCHANGED holder
       ELSE Leave(s)
    /\ UNCHANGED <<controller, table, receiver, refreshes, online, serving, origin, expired>>

\* probeMeshArcLocalSend: https and then http; either may be lost, so that any of the
\* peers that run LocalSend can be the ones that answer.
Answers(s) == SUBSET (sweep[s].seen \cap serving)

\* Every peer seen counts as unavailable unless its probe answers.
ProbesReturn(s) ==
    /\ sweep[s].at = "probe"
    /\ \E heard \in Answers(s) :
         sweep' = [sweep EXCEPT ![s] = [@ EXCEPT !.at = "sampled", !.heard = heard,
                                        !.whole = ~sweep[s].done]]
    /\ UNCHANGED <<controller, holder, table, receiver, refreshes, online, serving,
                   origin, expired>>

\* A used-up budget is no evidence.
CheckSampleUnchecked(s) ==
    /\ sweep[s].at = "sampled"
    /\ Goto(s, "merge") /\ UNCHANGED holder
    /\ UNCHANGED <<controller, table, receiver, refreshes, online, serving, origin, expired>>
CheckSample(s) ==
    /\ sweep[s].at = "sampled"
    /\ IF sweep[s].done THEN Leave(s) ELSE Goto(s, "merge") /\ UNCHANGED holder
    /\ UNCHANGED <<controller, table, receiver, refreshes, online, serving, origin, expired>>

\* The failure count of peer p after a sample, and its state: a miss is held back
\* until the second one, unless the peer was known to be unavailable already.
FailuresForgotten(s, p) == IF p \in sweep[s].seen \ sweep[s].heard THEN 1 ELSE 0
Failures(s, p) ==
    IF p \in sweep[s].seen \ sweep[s].heard /\ statuses[p] # "unavailable"
    THEN failures[p] + 1 ELSE 0

Merged(s, p) ==
    IF p \notin sweep[s].seen THEN "absent"
    ELSE IF p \in sweep[s].heard THEN "available"
    ELSE IF Failures(s, p) # 1 THEN "unavailable"
    ELSE IF statuses[p] = "absent" THEN "checking" ELSE statuses[p]

Missed(s, p) ==
    IF p \notin sweep[s].seen \ sweep[s].heard THEN 0
    ELSE IF sweep[s].whole /\ sweep[s].separate /\ misses[p] < 2 THEN misses[p] + 1
    ELSE misses[p]

\* updateMeshArcDeviceStatuses
UpdateStatusesUnchecked(s) ==
    /\ sweep[s].at = "merge"
    /\ failures' = [p \in Peers |-> Failures(s, p)]
    /\ statuses' = [p \in Peers |-> Merged(s, p)]
    /\ misses' = [p \in Peers |-> Missed(s, p)]
    /\ origin' = sweep[s].gen
    /\ Goto(s, "post")
    /\ UNCHANGED <<controller, holder, receiver, refreshes, online, serving, expired>>
UpdateStatuses(s) ==
    /\ sweep[s].at = "merge"
    /\ IF IsCurrent(s)
       THEN /\ failures' = [p \in Peers |-> Failures(s, p)]
            /\ statuses' = [p \in Peers |-> Merged(s, p)]
            /\ misses' = [p \in Peers |-> Missed(s, p)]
            /\ origin' = sweep[s].gen
            /\ sweep' = [r \in Sweepers |-> [sweep[r] EXCEPT
                 !.at = IF r = s THEN "post" ELSE @, !.separate = FALSE]]
            /\ UNCHANGED holder
       ELSE Leave(s) /\ UNCHANGED <<table, origin>>
    /\ UNCHANGED <<controller, receiver, refreshes, online, serving, expired>>

\* The list is posted over https, then http; both under the sweep's context.
PostReturns(s) ==
    /\ sweep[s].at = "post"
    /\ \E state \in {"ok", "failed"} :
         /\ state = "ok" => ~sweep[s].done
         /\ SetReceiver(s, state)
    /\ Leave(s)
    /\ UNCHANGED <<controller, table, refreshes, online, serving>>

SweepStep(s) ==
    \/ GiveUpLock(s) \/ TakeLock(s) \/ CheckBackend(s)
    \/ StatusFails(s) \/ StatusReturns(s) \/ ProbesReturn(s)
    \/ CheckSample(s) \/ UpdateStatuses(s) \/ PostReturns(s)
-----------------------------------------------------------------------------
(* The loop and the refresh *)

\* The select takes either channel when both are ready.
Tick(g) ==
    /\ sweep[g].at = "tick"
    /\ Goto(g, "wait")
    /\ UNCHANGED <<controller, holder, table, receiver, refreshes, online, serving,
                   origin, expired>>

LoopEnds(g) ==
    /\ sweep[g].at = "tick" /\ sweep[g].done
    /\ Goto(g, "idle")
    /\ UNCHANGED <<controller, holder, table, receiver, refreshes, online, serving,
                   origin, expired>>

BeginRefresh ==
    /\ sweep[0].at = "idle" /\ cur # 0 /\ refreshes < MaxRefresh
    /\ refreshes' = refreshes + 1
    /\ sweep' = [sweep EXCEPT ![0] = [NoSweep EXCEPT !.at = "wait", !.gen = cur]]
    /\ UNCHANGED <<controller, holder, table, receiver, online, serving, origin, expired>>

\* The refresh's deadline passes.
Expire ==
    /\ sweep[0].at # "idle" /\ ~sweep[0].done
    /\ sweep' = [sweep EXCEPT ![0].done = TRUE]
    /\ UNCHANGED <<controller, holder, table, receiver, refreshes, online, serving,
                   origin, expired>>

HasPendingFailure == IsCurrent(0) /\ \E p \in Peers : failures[p] = 1

\* A second sample if a failure is pending and there is time; otherwise the answer.
Decide ==
    /\ sweep[0].at = "decide"
    /\ \/ /\ sweep[0].round = 1 /\ HasPendingFailure /\ ~sweep[0].done
          /\ sweep' = [sweep EXCEPT ![0].at = "wait", ![0].round = 2]
       \/ sweep' = [sweep EXCEPT ![0] = NoSweep]
    /\ UNCHANGED <<controller, holder, table, receiver, refreshes, online, serving,
                   origin, expired>>

World ==
    /\ \E p \in Peers :
         \/ online' \in {online \cup {p}, online \ {p}} \ {online} /\ UNCHANGED serving
         \/ serving' \in {serving \cup {p}, serving \ {p}} \ {serving} /\ UNCHANGED online
    /\ UNCHANGED <<controller, holder, table, receiver, sweep, refreshes, origin, expired>>

RefreshStep == SweepStep(0) \/ Decide

Next ==
    \/ StartSync \/ Stop \/ \E g \in Generations : CancelSync(g) \/ SweepStep(g) \/ Tick(g) \/ LoopEnds(g)
    \/ BeginRefresh \/ Expire \/ RefreshStep \/ World

\* A refresh's own steps end by its deadline; nothing is assumed of the loop.
Spec == Init /\ [][Next]_vars /\ WF_vars(RefreshStep) /\ WF_vars(Expire)

\* Every call of a sweep has a timeout, Status does not fail for ever, and a select
\* that chooses at random does not overlook a cancelled context for ever.
LoopFairness ==
    \A g \in Generations : /\ WF_vars(SweepStep(g)) /\ WF_vars(Tick(g) \/ LoopEnds(g))
                           /\ SF_vars(StatusReturns(g)) /\ WF_vars(CancelSync(g))
                           /\ SF_vars(LoopEnds(g))
-----------------------------------------------------------------------------
(* Properties *)

\* Every variable keeps its type; no more than two failures are ever counted.
TypeOK ==
    /\ cur \in Sweepers /\ started \in Sweepers /\ cancelling \subseteq Generations
    /\ holder \subseteq Sweepers /\ receiver \in {"idle", "ok", "failed"}
    /\ statuses \in [Peers -> States] /\ failures \in [Peers -> 0 .. 2]
    /\ online \subseteq Peers /\ serving \subseteq Peers
    /\ \A s \in Sweepers : sweep[s].gen \in Sweepers /\ sweep[s].heard \subseteq sweep[s].seen

\* A peer reported unavailable did not answer in two samples in a row, taken one after
\* the other and neither cut short by its caller's budget, of the backend that is
\* running.
UnavailableMeansTwoMisses ==
    \A p \in Peers : statuses[p] = "unavailable" => misses[p] = 2

\* Nothing a sweep of a stopped or replaced backend finds reaches the tables that
\* the next one uses.
TablesAreOwn ==
    /\ origin \in {0, cur}
    /\ cur = 0 => receiver = "idle" /\ \A p \in Peers : statuses[p] = "absent" /\ failures[p] = 0

\* The tables are well formed and those of the backend that is running.
TablesInv == TypeOK /\ TablesAreOwn

\* A refresh returns, even when a loop never gives the lock back.
RefreshEnds == sweep[0].at # "idle" ~> sweep[0].at = "idle"

\* A peer that stays online with its LocalSend stopped is reported unavailable in the
\* end, and stays so.
StoppedIsNoticed ==
    \A p \in Peers : <>[](p \in online \ serving /\ cur # 0) => <>[](statuses[p] = "unavailable")

\* No peer stays in "checking" while its backend runs.
CheckingEnds ==
    \A p \in Peers : statuses[p] = "checking" ~> statuses[p] # "checking"

\* A loop that runs finds out what a receiver does: holding back the first miss hides
\* neither one that stopped nor one that never answered.
LoopReports == LoopFairness => StoppedIsNoticed /\ CheckingEnds

\* A budget that is used up is no evidence that the receiver failed ("An exhausted
\* caller budget is not evidence that any receiver stopped").
ReceiverFailureIsReal == ~expired
=============================================================================
