-------------------------- MODULE DeviceSyncProofs --------------------------
(***************************************************************************)
(* Proofs about DeviceSync, for any set of peers and any bounds.  The       *)
(* argument: a sweep inside the lock is alone, so that no other sample is   *)
(* merged between its status and its merge; a sample that reaches the merge *)
(* was whole; and the failure counter never runs ahead of the whole,        *)
(* separate samples that were missed.  A loop whose context is cancelled    *)
(* works for a backend that does not come back.                             *)
(***************************************************************************)
EXTENDS DeviceSync, TLAPS

Steps == {"idle", "wait", "check", "status", "probe", "sampled", "merge", "post", "tick",
          "decide"}

\* Between TryLock and the deferred unlock.
Critical == {"check", "status", "probe", "sampled", "merge", "post"}

Sweeps == [at : Steps, gen : Sweepers, done : BOOLEAN, round : {1, 2}, seen : SUBSET Peers,
           heard : SUBSET Peers, whole : BOOLEAN, separate : BOOLEAN]

\* The types of all variables, those of the history variables too.
FullType ==
    /\ TypeOK
    /\ sweep \in [Sweepers -> Sweeps]
    /\ misses \in [Peers -> 0 .. 2]

\* A sweep belongs to a backend and, inside the lock, holds it; from the status to the
\* merge no other sample is merged, and one that is merged was not cut short;
\* before its probes it has heard nothing.
Sound(s, w, holding) ==
    /\ w.at # "idle" => w.gen # 0
    /\ w.at \in Critical => s \in holding
    /\ w.at \in {"probe", "sampled", "merge"} => w.separate
    /\ w.at = "sampled" /\ ~w.done => w.whole
    /\ w.at = "merge" => w.whole
    /\ w.at \notin {"sampled", "merge", "post"} => w.heard = {}

SweepInv ==
    /\ \A s \in Sweepers : Sound(s, sweep[s], holder)
    /\ \A s, t \in holder : s = t

\* A counted failure is a whole, separate sample that was missed.
CountInv ==
    \A p \in Peers :
        /\ failures[p] = 1 => misses[p] \in {1, 2}
        /\ failures[p] = 2 => statuses[p] = "unavailable"

\* The inductive invariant.
IInv ==
    /\ FullType /\ SweepInv
    /\ CountInv /\ UnavailableMeansTwoMisses /\ TablesAreOwn
-----------------------------------------------------------------------------
USE BoundsAssumption DEF Generations, Sweepers

\* A sweeper that does nothing.
LEMMA NoSweepType ==
  NoSweep \in Sweeps /\ \A s, holding : Sound(s, NoSweep, holding)
  BY DEF NoSweep, Sweeps, Steps, Sound, Critical

\* The initial states satisfy the inductive invariant.
LEMMA InitIInv == Init => IInv
<1> SUFFICES ASSUME Init PROVE IInv
  OBVIOUS
<1>1. sweep \in [Sweepers -> Sweeps] /\ \A s \in Sweepers : sweep[s] = NoSweep
  BY NoSweepType DEF Init
<1>2. FullType
  <2>1. \A s \in Sweepers : sweep[s].gen \in Sweepers /\ sweep[s].heard \subseteq sweep[s].seen
    BY <1>1 DEF NoSweep
  <2>2. QED
    BY <1>1, <2>1 DEF Init, FullType, TypeOK, States
<1>3. SweepInv
  BY <1>1, NoSweepType DEF Init, SweepInv
<1>4. CountInv /\ UnavailableMeansTwoMisses /\ TablesAreOwn
  BY DEF Init, CountInv, UnavailableMeansTwoMisses, TablesAreOwn
<1>5. QED
  BY <1>2, <1>3, <1>4 DEF IInv

\* One sweeper goes on: it keeps the lock, gives it back, or takes it when it is free.
LEMMA SweepKept ==
  ASSUME IInv, NEW s \in Sweepers, NEW w \in Sweeps, w.heard \subseteq w.seen,
         sweep' = [sweep EXCEPT ![s] = w], Sound(s, w, holder'),
         \/ holder' = holder
         \/ holder' = holder \ {s}
         \/ holder = {} /\ holder' = {s}
  PROVE  /\ sweep' \in [Sweepers -> Sweeps] /\ holder' \subseteq Sweepers /\ SweepInv'
         /\ \A t \in Sweepers : sweep'[t].gen \in Sweepers /\ sweep'[t].heard \subseteq sweep'[t].seen
<1>0. sweep \in [Sweepers -> Sweeps] /\ holder \subseteq Sweepers
  BY DEF IInv, FullType, TypeOK
<1>1. sweep' \in [Sweepers -> Sweeps] /\ holder' \subseteq Sweepers
  BY <1>0
<1>2. sweep'[s] = w /\ \A t \in Sweepers : t # s => sweep'[t] = sweep[t]
  BY <1>0
<1>3. \A t \in Sweepers : Sound(t, sweep'[t], holder')
  <2> SUFFICES ASSUME NEW t \in Sweepers, t # s PROVE Sound(t, sweep[t], holder')
    BY <1>2
  <2>1. Sound(t, sweep[t], holder)
    BY DEF IInv, SweepInv
  <2>2. t \in holder => t \in holder'
    OBVIOUS
  <2>3. QED
    BY <2>1, <2>2 DEF Sound
<1>4. \A t, u \in holder' : t = u
  BY DEF IInv, SweepInv
<1>5. \A t \in Sweepers : sweep'[t].gen \in Sweepers /\ sweep'[t].heard \subseteq sweep'[t].seen
  <2>1. w.gen \in Sweepers
    BY DEF Sweeps
  <2>2. QED
    BY <1>2, <2>1 DEF IInv, FullType, TypeOK
<1>6. QED
  BY <1>1, <1>3, <1>4, <1>5 DEF SweepInv

\* The same, for steps that touch neither the backend nor the tables.
LEMMA StepIInv ==
  ASSUME IInv, NEW s \in Sweepers, NEW w \in Sweeps, w.heard \subseteq w.seen,
         sweep' = [sweep EXCEPT ![s] = w], Sound(s, w, holder'),
         \/ holder' = holder
         \/ holder' = holder \ {s}
         \/ holder = {} /\ holder' = {s},
         UNCHANGED <<cur, started, statuses, failures, misses, online, serving>>,
         cancelling' \subseteq Generations,
         UNCHANGED <<receiver, origin>> \/ (/\ cur # 0 /\ origin' = cur
                                             /\ receiver' \in {"ok", "failed"})
  PROVE  IInv'
<1>1. /\ sweep' \in [Sweepers -> Sweeps] /\ holder' \subseteq Sweepers /\ SweepInv'
      /\ \A t \in Sweepers : sweep'[t].gen \in Sweepers /\ sweep'[t].heard \subseteq sweep'[t].seen
  BY SweepKept
<1>2. FullType'
  BY <1>1 DEF IInv, FullType, TypeOK
<1>3. CountInv' /\ UnavailableMeansTwoMisses' /\ TablesAreOwn'
  BY DEF IInv, CountInv, UnavailableMeansTwoMisses, TablesAreOwn
<1>4. QED
  BY <1>1, <1>2, <1>3 DEF IInv

\* What IInv says of one sweeper.
LEMMA OneSweep ==
  ASSUME IInv, NEW s \in Sweepers
  PROVE  /\ sweep[s] \in Sweeps /\ sweep[s].heard \subseteq sweep[s].seen
         /\ Sound(s, sweep[s], holder)
  BY DEF IInv, FullType, TypeOK, SweepInv

\* A record of which only the step changes.
LEMMA MovedType ==
  ASSUME NEW r \in Sweeps, NEW at \in Steps
  PROVE  /\ [r EXCEPT !.at = at] \in Sweeps
         /\ [r EXCEPT !.at = at].at = at
         /\ [r EXCEPT !.at = at].gen = r.gen /\ [r EXCEPT !.at = at].done = r.done
         /\ [r EXCEPT !.at = at].seen = r.seen /\ [r EXCEPT !.at = at].heard = r.heard
         /\ [r EXCEPT !.at = at].whole = r.whole /\ [r EXCEPT !.at = at].separate = r.separate
  BY DEF Sweeps

\* A sweeper moves on without a result.
LEMMA GotoIInv ==
  ASSUME IInv, NEW s \in Sweepers, NEW at \in Steps, Goto(s, at),
         \/ /\ sweep[s].at \in {"wait", "tick"} /\ at \in {"idle", "tick", "decide", "wait"}
            /\ UNCHANGED holder
         \/ sweep[s].at = "wait" /\ at = "check" /\ holder = {} /\ holder' = {s}
         \/ sweep[s].at = "check" /\ at = "status" /\ UNCHANGED holder
         \/ at = "merge" /\ sweep[s].at = "sampled" /\ ~sweep[s].done /\ UNCHANGED holder,
         UNCHANGED <<controller, table, receiver, online, serving, origin>>
  PROVE  IInv'
<1> DEFINE w == [sweep[s] EXCEPT !.at = at]
<1>0. /\ sweep[s] \in Sweeps /\ sweep[s].heard \subseteq sweep[s].seen
      /\ Sound(s, sweep[s], holder)
  BY OneSweep
<1>1. /\ w \in Sweeps /\ w.at = at /\ w.gen = sweep[s].gen /\ w.done = sweep[s].done
      /\ w.seen = sweep[s].seen /\ w.heard = sweep[s].heard
      /\ w.whole = sweep[s].whole /\ w.separate = sweep[s].separate
  BY <1>0, MovedType
<1>2. sweep' = [sweep EXCEPT ![s] = w]
  BY DEF Goto
<1> HIDE DEF w
<1>3. Sound(s, w, holder')
  BY <1>0, <1>1 DEF Sound, Critical
<1>4. cancelling' \subseteq Generations
  BY DEF IInv, FullType, TypeOK, controller
<1>5. QED
  BY <1>0, <1>1, <1>2, <1>3, <1>4, StepIInv DEF controller, table

\* A sweep ends and gives the lock back, with or without a verdict on the receiver.
LEMMA LeaveIInv ==
  ASSUME IInv, NEW s \in Sweepers, sweep[s].at # "idle", Leave(s),
         UNCHANGED <<receiver, origin>> \/ (/\ cur # 0 /\ origin' = cur
                                             /\ receiver' \in {"ok", "failed"}),
         UNCHANGED <<controller, table, online, serving>>
  PROVE  IInv'
<1> DEFINE w == [sweep[s] EXCEPT !.at = AfterSweep(s), !.seen = {}, !.heard = {},
                                 !.whole = FALSE, !.separate = FALSE]
<1>0. /\ sweep[s] \in Sweeps /\ sweep[s].heard \subseteq sweep[s].seen
      /\ Sound(s, sweep[s], holder)
  BY OneSweep
<1>1. AfterSweep(s) \in {"decide", "tick"}
  BY DEF AfterSweep
<1>2. /\ w \in Sweeps /\ w.at = AfterSweep(s) /\ w.gen = sweep[s].gen
      /\ w.seen = {} /\ w.heard = {}
  BY <1>0, <1>1 DEF Sweeps, Steps
<1>3. sweep' = [sweep EXCEPT ![s] = w] /\ holder' = holder \ {s}
  BY DEF Leave
<1> HIDE DEF w
<1>4. Sound(s, w, holder')
  BY <1>0, <1>1, <1>2 DEF Sound, Critical
<1>5. cancelling' \subseteq Generations
  BY DEF IInv, FullType, TypeOK, controller
<1>6. QED
  BY <1>2, <1>3, <1>4, <1>5, StepIInv DEF controller, table

\* A sweep of a running backend only sets the receiver's status of that backend.
LEMMA ReceiverOwn ==
  ASSUME IInv, NEW s \in Sweepers, sweep[s].at # "idle",
         NEW state \in {"ok", "failed"}, SetReceiver(s, state)
  PROVE  UNCHANGED <<receiver, origin>> \/ (/\ cur # 0 /\ origin' = cur
                                             /\ receiver' \in {"ok", "failed"})
<1>1. sweep[s].gen # 0
  BY OneSweep DEF Sound
<1>2. QED
  BY <1>1 DEF SetReceiver, IsCurrent

\* The merge: a second failure in a row is a second sample missed.
LEMMA MergeTables ==
  ASSUME IInv, NEW s \in Sweepers, sweep[s].at = "merge",
         failures' = [p \in Peers |-> Failures(s, p)],
         statuses' = [p \in Peers |-> Merged(s, p)],
         misses' = [p \in Peers |-> Missed(s, p)]
  PROVE  /\ failures' \in [Peers -> 0 .. 2] /\ statuses' \in [Peers -> States]
         /\ misses' \in [Peers -> 0 .. 2]
         /\ CountInv' /\ UnavailableMeansTwoMisses'
<1>0. sweep[s].whole /\ sweep[s].separate
  BY OneSweep DEF Sound
<1>1. ASSUME NEW p \in Peers
      PROVE  /\ Failures(s, p) \in 0 .. 2 /\ Merged(s, p) \in States /\ Missed(s, p) \in 0 .. 2
             /\ Failures(s, p) = 1 => Missed(s, p) \in {1, 2}
             /\ Failures(s, p) = 2 => Merged(s, p) = "unavailable"
             /\ Merged(s, p) = "unavailable" => Missed(s, p) = 2
  <2>0. /\ failures[p] \in 0 .. 2 /\ misses[p] \in 0 .. 2 /\ statuses[p] \in States
        /\ failures[p] = 1 => misses[p] \in {1, 2}
        /\ failures[p] = 2 => statuses[p] = "unavailable"
        /\ statuses[p] = "unavailable" => misses[p] = 2
    BY DEF IInv, FullType, TypeOK, CountInv, UnavailableMeansTwoMisses
  <2>1. CASE p \notin sweep[s].seen \ sweep[s].heard
    BY <2>0, <2>1 DEF Failures, Merged, Missed, States
  <2>2. CASE p \in sweep[s].seen \ sweep[s].heard
    BY <1>0, <2>0, <2>2 DEF Failures, Merged, Missed, States
  <2>3. QED
    BY <2>1, <2>2
<1>2. QED
  BY <1>1 DEF CountInv, UnavailableMeansTwoMisses

\* updateMeshArcDeviceStatuses: of all sweepers only the one that merges is inside the
\* lock, so that no other loses its separateness.
LEMMA UpdateIInv ==
  ASSUME IInv, NEW s \in Sweepers, UpdateStatuses(s)
  PROVE  IInv'
<1>0. /\ sweep[s] \in Sweeps /\ sweep[s].heard \subseteq sweep[s].seen
      /\ Sound(s, sweep[s], holder) /\ sweep[s].at = "merge"
  BY OneSweep DEF UpdateStatuses
<1>1. CASE ~IsCurrent(s)
  BY <1>0, <1>1, LeaveIInv DEF UpdateStatuses, table
<1>2. CASE IsCurrent(s)
  <2> DEFINE Own(t) == [sweep[t] EXCEPT !.at = IF t = s THEN "post" ELSE @, !.separate = FALSE]
  <2>0. /\ failures' = [p \in Peers |-> Failures(s, p)]
        /\ statuses' = [p \in Peers |-> Merged(s, p)]
        /\ misses' = [p \in Peers |-> Missed(s, p)]
        /\ origin' = sweep[s].gen
        /\ sweep' = [t \in Sweepers |-> Own(t)]
        /\ UNCHANGED <<controller, holder, receiver, online, serving>>
    BY <1>2 DEF UpdateStatuses
  <2>1. /\ failures' \in [Peers -> 0 .. 2] /\ statuses' \in [Peers -> States]
        /\ misses' \in [Peers -> 0 .. 2]
        /\ CountInv' /\ UnavailableMeansTwoMisses'
    BY <1>0, <2>0, MergeTables
  <2>2. ASSUME NEW t \in Sweepers
        PROVE  /\ Own(t) \in Sweeps /\ Own(t).heard \subseteq Own(t).seen
               /\ Own(t).gen \in Sweepers /\ Sound(t, Own(t), holder)
    <3>1. /\ sweep[t] \in Sweeps /\ sweep[t].heard \subseteq sweep[t].seen
          /\ Sound(t, sweep[t], holder)
      BY OneSweep
    <3>2. /\ Own(t) \in Sweeps /\ Own(t).gen = sweep[t].gen /\ Own(t).done = sweep[t].done
          /\ Own(t).seen = sweep[t].seen /\ Own(t).heard = sweep[t].heard
          /\ Own(t).whole = sweep[t].whole
          /\ t = s => Own(t).at = "post"
          /\ t # s => Own(t).at = sweep[t].at
      BY <3>1 DEF Sweeps, Steps
    <3>3. t # s => sweep[t].at \notin Critical
      <4>1. s \in holder
        BY <1>0 DEF Sound, Critical
      <4>2. QED
        BY <3>1, <4>1 DEF Sound, IInv, SweepInv
    <3>4. Sound(t, Own(t), holder)
      <4> HIDE DEF Own
      <4>1. CASE t = s
        BY <1>0, <3>2, <4>1 DEF Sound, Critical
      <4>2. CASE t # s
        BY <3>1, <3>2, <3>3, <4>2 DEF Sound, Critical
      <4>3. QED
        BY <4>1, <4>2
    <3>5. QED
      BY <3>1, <3>2, <3>4 DEF Sweeps
  <2> HIDE DEF Own
  <2>3. SweepInv'
    BY <2>0, <2>2 DEF IInv, SweepInv
  <2>4. FullType'
    <3>1. sweep' \in [Sweepers -> Sweeps]
      BY <2>0, <2>2
    <3>2. \A t \in Sweepers : sweep'[t].gen \in Sweepers /\ sweep'[t].heard \subseteq sweep'[t].seen
      BY <2>0, <2>2
    <3>3. QED
      BY <2>0, <2>1, <3>1, <3>2 DEF IInv, FullType, TypeOK, controller
  <2>5. TablesAreOwn'
    BY <1>0, <1>2, <2>0 DEF TablesAreOwn, IsCurrent, Sound, controller
  <2>6. QED
    BY <2>1, <2>3, <2>4, <2>5 DEF IInv
<1>3. QED
  BY <1>1, <1>2

\* The status names the peers, and the probes say which of them answered.
LEMMA SampleIInv ==
  ASSUME IInv, NEW s \in Sweepers, StatusReturns(s) \/ ProbesReturn(s)
  PROVE  IInv'
<1>0. /\ sweep[s] \in Sweeps /\ sweep[s].heard \subseteq sweep[s].seen
      /\ Sound(s, sweep[s], holder) /\ sweep[s].at \in {"status", "probe"}
  BY OneSweep DEF StatusReturns, ProbesReturn
<1>a. cancelling \subseteq Generations /\ online \subseteq Peers
  BY DEF IInv, FullType, TypeOK
<1>1. CASE StatusReturns(s) /\ ~IsCurrent(s)
  BY <1>0, <1>1, LeaveIInv DEF StatusReturns
<1>2. CASE StatusReturns(s) /\ IsCurrent(s)
  <2> DEFINE w == [sweep[s] EXCEPT !.at = "probe", !.seen = online, !.separate = TRUE]
  <2>1. sweep' = [sweep EXCEPT ![s] = w] /\ holder' = holder
    BY <1>2 DEF StatusReturns
  <2>h. sweep[s].at = "status" /\ ~sweep[s].done
    BY <1>2 DEF StatusReturns
  <2>2. /\ w \in Sweeps /\ w.at = "probe" /\ w.gen = sweep[s].gen /\ w.separate
        /\ w.seen = online /\ w.heard = sweep[s].heard
    BY <1>0, <1>a DEF Sweeps, Steps
  <2>e. w.heard = {}
    BY <1>0, <2>2, <2>h DEF Sound
  <2>3. Sound(s, w, holder')
    BY <1>0, <2>1, <2>2, <2>h DEF Sound, Critical
  <2>4. QED
    BY <1>2, <1>a, <2>1, <2>2, <2>3, <2>e, StepIInv DEF StatusReturns, controller, table
<1>3. CASE ProbesReturn(s)
  <2>1. PICK heard \in Answers(s) :
          sweep' = [sweep EXCEPT ![s] = [@ EXCEPT !.at = "sampled", !.heard = heard,
                                        !.whole = ~sweep[s].done]]
    BY <1>3 DEF ProbesReturn
  <2> DEFINE w == [sweep[s] EXCEPT !.at = "sampled", !.heard = heard, !.whole = ~sweep[s].done]
  <2>2. sweep' = [sweep EXCEPT ![s] = w] /\ holder' = holder
    BY <1>3, <2>1 DEF ProbesReturn
  <2>3. heard \subseteq sweep[s].seen /\ sweep[s].seen \subseteq Peers
    BY <1>0 DEF Answers, Sweeps
  <2>4. /\ w \in Sweeps /\ w.at = "sampled" /\ w.gen = sweep[s].gen /\ w.done = sweep[s].done
        /\ w.separate = sweep[s].separate /\ w.seen = sweep[s].seen /\ w.heard = heard
        /\ w.whole = ~sweep[s].done
    BY <1>0, <2>3 DEF Sweeps, Steps
  <2> HIDE DEF w
  <2>5. Sound(s, w, holder')
    BY <1>0, <1>3, <2>2, <2>4 DEF Sound, Critical, ProbesReturn
  <2>6. QED
    BY <1>3, <1>a, <2>2, <2>3, <2>4, <2>5, StepIInv DEF ProbesReturn, controller, table
<1>4. QED
  BY <1>1, <1>2, <1>3

\* Every step of a sweep.
LEMMA SweepStepIInv ==
  ASSUME IInv, NEW s \in Sweepers, SweepStep(s)
  PROVE  IInv'
<1>0. AfterSweep(s) \in {"tick", "decide"}
  BY DEF AfterSweep
<1>1. CASE GiveUpLock(s)
  BY <1>0, <1>1, GotoIInv DEF GiveUpLock, Steps
<1>2. CASE TakeLock(s)
  BY <1>2, GotoIInv DEF TakeLock, LockFree, Steps
<1>3. CASE CheckBackend(s)
  <2>1. CASE sweep[s].done \/ ~IsCurrent(s)
    BY <1>3, <2>1, LeaveIInv DEF CheckBackend
  <2>2. CASE ~(sweep[s].done \/ ~IsCurrent(s))
    BY <1>3, <2>2, GotoIInv DEF CheckBackend, Steps
  <2>3. QED
    BY <2>1, <2>2
<1>4. CASE StatusFails(s)
  BY <1>4, ReceiverOwn, LeaveIInv DEF StatusFails
<1>5. CASE StatusReturns(s) \/ ProbesReturn(s)
  BY <1>5, SampleIInv
<1>6. CASE CheckSample(s)
  <2>1. CASE sweep[s].done
    BY <1>6, <2>1, LeaveIInv DEF CheckSample
  <2>2. CASE ~sweep[s].done
    BY <1>6, <2>2, GotoIInv DEF CheckSample, Steps
  <2>3. QED
    BY <2>1, <2>2
<1>7. CASE UpdateStatuses(s)
  BY <1>7, UpdateIInv
<1>8. CASE PostReturns(s)
  <2>1. PICK state \in {"ok", "failed"} : SetReceiver(s, state)
    BY <1>8 DEF PostReturns
  <2>2. QED
    BY <1>8, <2>1, ReceiverOwn, LeaveIInv DEF PostReturns
<1>9. QED
  BY <1>1, <1>2, <1>3, <1>4, <1>5, <1>6, <1>7, <1>8 DEF SweepStep

\* A new loop, or a new refresh, works for the backend that is there.
LEMMA BeginSweep ==
  ASSUME NEW g \in Sweepers, g # 0, NEW s, NEW holding
  PROVE  /\ [NoSweep EXCEPT !.at = "wait", !.gen = g] \in Sweeps
         /\ [NoSweep EXCEPT !.at = "wait", !.gen = g].heard = {}
         /\ Sound(s, [NoSweep EXCEPT !.at = "wait", !.gen = g], holding)
  BY DEF NoSweep, Sweeps, Steps, Sound, Critical

\* A backend starts with empty tables.
LEMMA StartSyncIInv ==
  ASSUME IInv, StartSync
  PROVE  IInv'
<1> DEFINE w == [NoSweep EXCEPT !.at = "wait", !.gen = cur']
<1>0. cur' \in Sweepers /\ cur' # 0 /\ started' \in Sweepers
  BY DEF IInv, FullType, TypeOK, StartSync
<1>1. sweep' = [sweep EXCEPT ![cur'] = w] /\ holder' = holder
  BY DEF StartSync
<1>2. w \in Sweeps /\ w.heard = {} /\ Sound(cur', w, holder')
  BY <1>0, BeginSweep
<1> HIDE DEF w
<1>3. /\ sweep' \in [Sweepers -> Sweeps] /\ holder' \subseteq Sweepers /\ SweepInv'
      /\ \A t \in Sweepers : sweep'[t].gen \in Sweepers /\ sweep'[t].heard \subseteq sweep'[t].seen
  BY <1>0, <1>1, <1>2, SweepKept
<1>4. FullType'
  BY <1>0, <1>3 DEF IInv, FullType, TypeOK, StartSync, table
<1>5. CountInv' /\ UnavailableMeansTwoMisses'
  BY DEF IInv, CountInv, UnavailableMeansTwoMisses, StartSync, table
<1>6. TablesAreOwn'
  BY <1>0 DEF IInv, TablesAreOwn, StartSync, table
<1>7. QED
  BY <1>3, <1>4, <1>5, <1>6 DEF IInv

\* A stop empties the tables; the sweeps of its backend go on.
LEMMA StopIInv ==
  ASSUME IInv, Stop
  PROVE  IInv'
<1>1. FullType'
  BY DEF IInv, FullType, TypeOK, States, Stop
<1>2. SweepInv'
  BY DEF IInv, SweepInv, Stop
<1>3. CountInv' /\ UnavailableMeansTwoMisses' /\ TablesAreOwn'
  BY DEF CountInv, UnavailableMeansTwoMisses, TablesAreOwn, Stop
<1>4. QED
  BY <1>1, <1>2, <1>3 DEF IInv

\* A context is done: by the stop's cancel or by the deadline.
LEMMA DoneIInv ==
  ASSUME IInv, NEW s \in Sweepers, sweep' = [sweep EXCEPT ![s].done = TRUE],
         cancelling' \subseteq Generations,
         UNCHANGED <<cur, started, holder, table, receiver, online, serving, origin>>
  PROVE  IInv'
<1> DEFINE w == [sweep[s] EXCEPT !.done = TRUE]
<1>0. /\ sweep[s] \in Sweeps /\ sweep[s].heard \subseteq sweep[s].seen
      /\ Sound(s, sweep[s], holder)
  BY OneSweep
<1>1. /\ w \in Sweeps /\ w.at = sweep[s].at /\ w.gen = sweep[s].gen /\ w.done
      /\ w.seen = sweep[s].seen /\ w.heard = sweep[s].heard
      /\ w.whole = sweep[s].whole /\ w.separate = sweep[s].separate
  BY <1>0 DEF Sweeps
<1>2. sweep' = [sweep EXCEPT ![s] = w]
  OBVIOUS
<1> HIDE DEF w
<1>3. Sound(s, w, holder')
  BY <1>0, <1>1 DEF Sound
<1>4. QED
  BY <1>0, <1>1, <1>2, <1>3, StepIInv DEF table

\* The refresh begins, decides on a second sample, or answers.
LEMMA RefreshIInv ==
  ASSUME IInv, BeginRefresh \/ Decide
  PROVE  IInv'
<1>0. 0 \in Sweepers /\ cancelling \subseteq Generations /\ cur \in Sweepers
  BY DEF IInv, FullType, TypeOK
<1>a. /\ sweep[0] \in Sweeps /\ sweep[0].heard \subseteq sweep[0].seen
      /\ Sound(0, sweep[0], holder)
  BY <1>0, OneSweep
<1>b. UNCHANGED <<cur, started, cancelling, holder, statuses, failures, misses, online, serving,
                  receiver, origin>>
  BY DEF BeginRefresh, Decide, controller, table
<1>1. CASE BeginRefresh
  <2> DEFINE w == [NoSweep EXCEPT !.at = "wait", !.gen = cur]
  <2>1. sweep' = [sweep EXCEPT ![0] = w] /\ cur # 0
    BY <1>1 DEF BeginRefresh
  <2>2. w \in Sweeps /\ w.heard = {} /\ Sound(0, w, holder')
    BY <1>0, <2>1, BeginSweep
  <2> HIDE DEF w
  <2>3. QED
    BY <1>0, <1>b, <2>1, <2>2, StepIInv
<1>2. CASE Decide /\ sweep' = [sweep EXCEPT ![0] = NoSweep]
  BY <1>0, <1>b, <1>2, NoSweepType, StepIInv DEF NoSweep
<1>3. CASE Decide /\ sweep' = [sweep EXCEPT ![0].at = "wait", ![0].round = 2]
  <2> DEFINE w == [sweep[0] EXCEPT !.at = "wait", !.round = 2]
  <2>1. sweep' = [sweep EXCEPT ![0] = w]
    BY <1>0, <1>3 DEF IInv, FullType
  <2>2. /\ w \in Sweeps /\ w.at = "wait" /\ w.gen = sweep[0].gen
        /\ w.seen = sweep[0].seen /\ w.heard = sweep[0].heard
    BY <1>a DEF Sweeps, Steps
  <2> HIDE DEF w
  <2>3. Sound(0, w, holder')
    BY <1>3, <1>a, <2>2 DEF Sound, Critical, Decide
  <2>4. QED
    BY <1>0, <1>a, <1>b, <2>1, <2>2, <2>3, StepIInv
<1>4. QED
  BY <1>1, <1>2, <1>3 DEF Decide

\* Every step keeps the inductive invariant.
LEMMA NextIInv == IInv /\ [Next]_vars => IInv'
<1> SUFFICES ASSUME IInv, [Next]_vars PROVE IInv'
  OBVIOUS
<1>0. 0 \in Sweepers /\ Generations \subseteq Sweepers /\ cancelling \subseteq Generations
  BY DEF IInv, FullType, TypeOK
<1>1. ASSUME NEW g \in Generations, CancelSync(g) PROVE IInv'
  BY <1>0, <1>1, DoneIInv DEF CancelSync
<1>2. ASSUME NEW g \in Generations, Tick(g) \/ LoopEnds(g) PROVE IInv'
  BY <1>0, <1>2, GotoIInv DEF Tick, LoopEnds, Steps
<1>3. CASE Expire
  BY <1>0, <1>3, DoneIInv DEF Expire, controller
<1>4. CASE World
  <2>1. FullType'
    BY <1>4 DEF World, IInv, FullType, TypeOK, controller, table
  <2>2. SweepInv' /\ CountInv' /\ UnavailableMeansTwoMisses' /\ TablesAreOwn'
    BY <1>4 DEF World, IInv, SweepInv, CountInv, UnavailableMeansTwoMisses, TablesAreOwn,
       controller, table
  <2>3. QED
    BY <2>1, <2>2 DEF IInv
<1>5. CASE UNCHANGED vars
  <2>1. FullType'
    BY <1>5 DEF vars, IInv, FullType, TypeOK, controller, table
  <2>2. SweepInv' /\ CountInv' /\ UnavailableMeansTwoMisses' /\ TablesAreOwn'
    BY <1>5 DEF vars, IInv, SweepInv, CountInv, UnavailableMeansTwoMisses, TablesAreOwn,
       controller, table
  <2>3. QED
    BY <2>1, <2>2 DEF IInv
<1>6. QED
  BY <1>0, <1>1, <1>2, <1>3, <1>4, <1>5, SweepStepIInv, StartSyncIInv, StopIInv, RefreshIInv
     DEF Next, RefreshStep

\* The inductive invariant holds in every reachable state.
LEMMA SpecIInv == Spec => []IInv
  BY InitIInv, NextIInv, PTL DEF Spec

\* The tables are those of the backend that is running: no sweep of a stopped or
\* replaced backend writes to them, however late it comes.
THEOREM TablesKept == Spec => []TablesInv
<1>1. IInv => TablesInv
  BY DEF IInv, FullType, TablesInv
<1>2. QED
  BY <1>1, SpecIInv, PTL

\* A peer is reported unavailable only after two whole, separate samples in a row that
\* it did not answer, for any number of peers, backends and refreshes.
THEOREM TwoMisses == Spec => []UnavailableMeansTwoMisses
<1>1. IInv => UnavailableMeansTwoMisses
  BY DEF IInv
<1>2. QED
  BY <1>1, SpecIInv, PTL
-----------------------------------------------------------------------------
(* Who reports a receiver as failed because a budget was used up *)

\* The loop of generation g works for backend g, and its context is cancelled only once
\* that backend has left the controller, to which no generation comes back.
LoopInv ==
    /\ cur <= started
    /\ \A g \in Generations :
         /\ sweep[g].gen \in {0, g}
         /\ g \in cancelling \/ sweep[g].done => g # cur /\ g <= started

\* The refresh whose deadline has passed reports for the backend that is running.
ExpiredRefreshReports ==
    /\ sweep[0].done /\ sweep[0].gen = cur
    /\ sweep[0].at \in {"status", "post"} /\ sweep'[0].at = "decide"

\* Moving on changes neither whom a sweeper works for nor its context.
LEMMA GotoKeeps ==
  ASSUME IInv, NEW s \in Sweepers, NEW at \in Steps, Goto(s, at)
  PROVE  \A t \in Sweepers : sweep'[t].gen = sweep[t].gen /\ sweep'[t].done = sweep[t].done
<1>0. sweep \in [Sweepers -> Sweeps]
  BY DEF IInv, FullType
<1>1. QED
  BY <1>0 DEF Goto, Sweeps

\* No step of a sweep changes whom any sweeper works for or whether its context is done.
LEMMA SweepStepKeeps ==
  ASSUME IInv, NEW s \in Sweepers, SweepStep(s)
  PROVE  /\ UNCHANGED <<cur, started, cancelling>>
         /\ \A t \in Sweepers : sweep'[t].gen = sweep[t].gen /\ sweep'[t].done = sweep[t].done
<1>0. sweep \in [Sweepers -> Sweeps]
  BY DEF IInv, FullType
<1>1. UNCHANGED <<cur, started, cancelling>>
  BY DEF SweepStep, GiveUpLock, TakeLock, CheckBackend, StatusFails, StatusReturns,
     ProbesReturn, CheckSample, UpdateStatuses, PostReturns, controller
<1>2. ASSUME NEW at \in Steps, Goto(s, at)
      PROVE  \A t \in Sweepers : sweep'[t].gen = sweep[t].gen /\ sweep'[t].done = sweep[t].done
  BY <1>2, GotoKeeps
<1>3. ASSUME Leave(s)
      PROVE  \A t \in Sweepers : sweep'[t].gen = sweep[t].gen /\ sweep'[t].done = sweep[t].done
  BY <1>0, <1>3 DEF Leave, Sweeps
<1>4. CASE GiveUpLock(s) \/ TakeLock(s) \/ CheckBackend(s) \/ CheckSample(s)
  BY <1>1, <1>2, <1>3, <1>4 DEF GiveUpLock, TakeLock, CheckBackend, CheckSample, AfterSweep,
     Steps
<1>5. CASE StatusFails(s) \/ PostReturns(s)
  BY <1>1, <1>3, <1>5 DEF StatusFails, PostReturns
<1>6. CASE StatusReturns(s)
  <2>1. CASE Leave(s)
    BY <1>1, <1>3, <2>1
  <2>2. CASE ~Leave(s)
    <3> DEFINE w == [sweep[s] EXCEPT !.at = "probe", !.seen = online, !.separate = TRUE]
    <3>1. sweep' = [sweep EXCEPT ![s] = w]
      BY <1>6, <2>2 DEF StatusReturns
    <3>2. w.gen = sweep[s].gen /\ w.done = sweep[s].done
      BY <1>0 DEF Sweeps
    <3> HIDE DEF w
    <3>3. QED
      BY <1>0, <1>1, <3>1, <3>2
  <2>3. QED
    BY <2>1, <2>2
<1>7. CASE ProbesReturn(s)
  BY <1>0, <1>1, <1>7 DEF ProbesReturn, Sweeps
<1>8. CASE UpdateStatuses(s)
  <2>1. CASE Leave(s)
    BY <1>1, <1>3, <2>1
  <2>2. CASE ~Leave(s)
    <3> SUFFICES ASSUME NEW t \in Sweepers
                 PROVE  sweep'[t].gen = sweep[t].gen /\ sweep'[t].done = sweep[t].done
      BY <1>1
    <3>1. sweep'[t] = [sweep[t] EXCEPT !.at = IF t = s THEN "post" ELSE @, !.separate = FALSE]
      BY <1>8, <2>2 DEF UpdateStatuses
    <3>2. sweep[t] \in Sweeps
      BY <1>0
    <3>3. QED
      BY <3>1, <3>2 DEF Sweeps
  <2>3. QED
    BY <2>1, <2>2
<1>9. QED
  BY <1>4, <1>5, <1>6, <1>7, <1>8 DEF SweepStep

\* Every step keeps a loop's context open while its backend is the current one.
LEMMA NextLoopInv == IInv /\ LoopInv /\ [Next]_vars => LoopInv'
<1> SUFFICES ASSUME IInv, LoopInv, [Next]_vars PROVE LoopInv'
  OBVIOUS
<1>0. /\ sweep \in [Sweepers -> Sweeps] /\ cur \in Sweepers /\ started \in Sweepers
      /\ 0 \in Sweepers /\ Generations \subseteq Sweepers
  BY DEF IInv, FullType, TypeOK
<1>1. ASSUME UNCHANGED <<cur, started, cancelling>>,
             \A g \in Generations : sweep'[g].gen = sweep[g].gen /\ sweep'[g].done = sweep[g].done
      PROVE  LoopInv'
  BY <1>1 DEF LoopInv
<1>2. ASSUME NEW s \in Sweepers, SweepStep(s) PROVE LoopInv'
  BY <1>0, <1>1, <1>2, SweepStepKeeps
<1>3. ASSUME NEW g \in Generations, Tick(g) \/ LoopEnds(g) PROVE LoopInv'
  <2>1. \A t \in Generations : sweep'[t].gen = sweep[t].gen /\ sweep'[t].done = sweep[t].done
    BY <1>0, <1>3, GotoKeeps DEF Tick, LoopEnds, Steps
  <2>2. UNCHANGED <<cur, started, cancelling>>
    BY <1>3 DEF Tick, LoopEnds, controller
  <2>3. QED
    BY <1>1, <2>1, <2>2
<1>4. CASE BeginRefresh \/ Expire \/ Decide \/ World \/ UNCHANGED vars
  <2>1. UNCHANGED <<cur, started, cancelling>>
    BY <1>4 DEF BeginRefresh, Expire, Decide, World, vars, controller
  <2>2. \A g \in Generations : sweep'[g] = sweep[g]
    BY <1>0, <1>4 DEF BeginRefresh, Expire, Decide, World, vars
  <2>3. QED
    BY <1>1, <2>1, <2>2
<1>5. CASE StartSync
  <2>1. cur' = started + 1 /\ started' = started + 1 /\ cancelling' = cancelling
    BY <1>5 DEF StartSync
  <2>2. /\ sweep'[cur'].gen = cur' /\ ~sweep'[cur'].done
        /\ \A g \in Generations : g # cur' => sweep'[g] = sweep[g]
    BY <1>0, <1>5, <2>1 DEF StartSync, NoSweep
  <2>3. QED
    BY <1>0, <2>1, <2>2 DEF LoopInv
<1>6. CASE Stop
  BY <1>0, <1>6 DEF Stop, LoopInv
<1>7. ASSUME NEW g \in Generations, CancelSync(g) PROVE LoopInv'
  <2>1. \A t \in Generations : /\ sweep'[t].gen = sweep[t].gen
                               /\ t # g => sweep'[t].done = sweep[t].done
    <3> DEFINE w == [sweep[g] EXCEPT !.done = TRUE]
    <3>1. sweep' = [sweep EXCEPT ![g] = w]
      BY <1>7 DEF CancelSync
    <3>2. w.gen = sweep[g].gen
      BY <1>0 DEF Sweeps
    <3> HIDE DEF w
    <3>3. QED
      BY <1>0, <3>1, <3>2
  <2>2. g \in cancelling /\ cancelling' \subseteq cancelling /\ UNCHANGED <<cur, started>>
    BY <1>7 DEF CancelSync
  <2>3. QED
    BY <2>1, <2>2 DEF LoopInv
<1>8. QED
  BY <1>0, <1>2, <1>3, <1>4, <1>5, <1>6, <1>7 DEF Next, RefreshStep

\* A sweep of the running backend that reports on a used-up budget is the refresh's.
LEMMA ExpiredStep ==
  ASSUME IInv, LoopInv, [Next]_vars, ~expired, expired'
  PROVE  ExpiredRefreshReports
<1>0. /\ sweep \in [Sweepers -> Sweeps] /\ 0 \in Sweepers /\ Generations \subseteq Sweepers
  BY DEF IInv, FullType
<1>1. \E s \in Sweepers : StatusFails(s) \/ PostReturns(s)
  BY <1>0 DEF Next, RefreshStep, SweepStep, StartSync, Stop, CancelSync, Tick, LoopEnds,
     BeginRefresh, Expire, Decide, World, GiveUpLock, TakeLock, CheckBackend, StatusReturns,
     ProbesReturn, CheckSample, UpdateStatuses, vars
<1>2. PICK s \in Sweepers : StatusFails(s) \/ PostReturns(s)
  BY <1>1
<1>3. /\ sweep[s].at \in {"status", "post"} /\ sweep[s].gen = cur /\ sweep[s].done
      /\ Leave(s)
  BY <1>2 DEF StatusFails, PostReturns, SetReceiver, IsCurrent
<1>4. sweep[s].gen # 0
  BY <1>3, OneSweep DEF Sound
<1>5. s = 0
  BY <1>3, <1>4 DEF LoopInv
<1>6. sweep'[0].at = "decide"
  BY <1>0, <1>3, <1>5 DEF Leave, AfterSweep, Sweeps
<1>7. QED
  BY <1>3, <1>5, <1>6 DEF ExpiredRefreshReports

\* A receiver is reported as failed for want of time only by the user's refresh, after
\* its deadline: a loop whose context a stop has cancelled never makes that report, for
\* its backend has left the controller by then and updateMeshArcReceiverStatus ignores it.
THEOREM OnlyTheRefreshExpires ==
  Spec => [][~expired /\ expired' => ExpiredRefreshReports]_vars
<1>1. Init => LoopInv
  BY DEF Init, LoopInv, NoSweep
<1>2. IInv /\ LoopInv /\ [Next]_vars
        => [~expired /\ expired' => ExpiredRefreshReports]_vars
  BY ExpiredStep
<1>3. QED
  BY <1>1, <1>2, NextLoopInv, SpecIInv, PTL DEF Spec
=============================================================================
