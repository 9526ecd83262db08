-------------------------- MODULE TaildropTransfer --------------------------
(***************************************************************************)
(* Outgoing Taildrop transfers in the Go backend (backend.go): taildropSend *)
(* with its retries, taildropCancel, and the cancellation stop begins with. *)
(* They share the record b.taildropTask and the cancel function            *)
(* b.taildropStop under b.taildropMu; stop resets the client under b.mu.   *)
(* The calls come from the VPN extension, on worker threads: its flags     *)
(* taildropSendInFlight and taildropCancelInFlight allow one of each.      *)
(*                                                                         *)
(* Names, sizes and progress are left out.  A request has one or more      *)
(* files; how many is left to a choice.                                    *)
(***************************************************************************)
EXTENDS Naturals, FiniteSets

CONSTANTS
    MaxRequests,  \* how many sends the extension asks for
    MaxAttempts   \* taildropSendMaxAttempts

ASSUME RequestsAssumption == MaxRequests \in Nat
ASSUME AttemptsAssumption == MaxAttempts \in Nat \ {0}

VARIABLES
    task,         \* b.taildropTask
    stopFn,       \* b.taildropStop: the request whose context it cancels, or 0
    client,       \* b.client # nil (and not b.starting)
    pc,           \* where the taildropSend call of each request is
    attempt,      \* its attempt variable
    result,       \* what the call returned
    cancelled,    \* requests whose context was cancelled
    orphaned,     \* requests whose captured client's server was closed
    canceller,    \* calls of cancelTaildropTransfer and what they captured
    sendInFlight  \* the extension's taildropSendInFlight: for which request, or 0

vars == <<task, stopFn, client, pc, attempt, result, cancelled, orphaned, canceller,
          sendInFlight>>

SendPc == {"none", "called", "claim", "refuse", "lookup", "file", "open", "push",
           "wait", "done"}

\* The calls that cancel: taildropCancel, stop on a worker thread, and the
\* synchronous stop of the extension's onDestroy.
Cancellers == {"user", "stop", "destroy"}
CancelPc == {"idle", "begin", "fire", "after", "close"}

\* The record promises TaildropSlot.
SenderOf(at) == CASE at \in {"claim", "refuse"} -> "called"
                  [] at \in {"lookup", "file", "open", "push", "wait"} -> "running"
                  [] OTHER -> at
Slot == INSTANCE TaildropSlot WITH sender <- [r \in 1 .. MaxRequests |-> SenderOf(pc[r])]

Requests == 1 .. MaxRequests
Transfer(r, state, reason) == Slot!Transfer(r, state, reason)
Failed(r, reason) == Slot!Failed(r, reason)
Active(t) == Slot!Active(t)
Terminal(t) == Slot!Terminal(t)

Init ==
    /\ task = Slot!NoTransfer
    /\ stopFn = 0
    /\ client = TRUE
    /\ pc = [r \in Requests |-> "none"]
    /\ attempt = [r \in Requests |-> 0]
    /\ result = [r \in Requests |-> Slot!NoTransfer]
    /\ cancelled = {} /\ orphaned = {}
    /\ canceller = [w \in Cancellers |-> [at |-> "idle", fn |-> 0]]
    /\ sendInFlight = 0

Goto(r, at) == pc' = [pc EXCEPT ![r] = at]
-----------------------------------------------------------------------------
(* taildropSend *)

\* The extension starts one send at a time, and looks for the next request when
\* the promise of the last one has settled.
SendAllowedUnserialised == TRUE
SendAllowed == sendInFlight = 0

CallSend(r) ==
    /\ SendAllowed
    /\ pc[r] = "none"
    /\ \A q \in Requests : q < r => pc[q] # "none"
    /\ sendInFlight' = r
    /\ Goto(r, "called")
    /\ UNCHANGED <<task, stopFn, client, attempt, result, cancelled, orphaned, canceller>>

SendDone(r) ==
    /\ sendInFlight = r
    /\ pc[r] = "done"
    /\ sendInFlight' = 0
    /\ UNCHANGED <<task, stopFn, client, pc, attempt, result, cancelled, orphaned,
                   canceller>>

\* updateTaildropTransfer moves the running request's own record only.
Updated(r, state) ==
    IF task.id = r /\ Active(task) THEN Transfer(r, state, "none") ELSE task

\* finishTaildropTransfer: the record it leaves, and returns.
FinishedUnchecked(r, state, reason) ==
    IF task.id = r THEN Transfer(r, state, reason) ELSE task
Finished(r, state, reason) ==
    IF task.id = r /\ Active(task) THEN Transfer(r, state, reason) ELSE task

FinishForgotten(r, state, reason) ==
    /\ result' = [result EXCEPT ![r] = Transfer(r, state, reason)]
    /\ Goto(r, "done")
    /\ UNCHANGED <<task, stopFn, client, attempt, cancelled, orphaned>>
Finish(r, state, reason) ==
    /\ task' = Finished(r, state, reason)
    /\ stopFn' = IF task.id = r /\ Active(task) THEN 0 ELSE stopFn
    /\ result' = [result EXCEPT ![r] = Finished(r, state, reason)]
    /\ Goto(r, "done")
    /\ UNCHANGED <<client, attempt, cancelled, orphaned>>

\* replaceTaildropTransfer, then return: for a request that does not validate, or
\* without a client, whatever record there is.
Replace(r) ==
    /\ task' = Failed(r, "error")
    /\ result' = [result EXCEPT ![r] = Failed(r, "error")]
    /\ Goto(r, "done")
    /\ UNCHANGED <<stopFn, client, attempt, cancelled, orphaned>>

RejectRequest(r) == pc[r] = "called" /\ Replace(r)
RefuseUnavailable(r) == pc[r] = "refuse" /\ Replace(r)

ReadClient(r) ==
    /\ pc[r] = "called"
    /\ Goto(r, IF client THEN "claim" ELSE "refuse")
    /\ UNCHANGED <<task, stopFn, client, attempt, result, cancelled, orphaned>>

\* The critical section that refuses as busy, or installs record and cancel.
Claim(r) ==
    /\ pc[r] = "claim"
    /\ IF Active(task)
       THEN /\ result' = [result EXCEPT ![r] = Failed(r, "error")]
            /\ Goto(r, "done")
            /\ UNCHANGED <<task, stopFn>>
       ELSE /\ task' = Transfer(r, "queued", "none")
            /\ stopFn' = r
            /\ Goto(r, "lookup")
            /\ UNCHANGED result
    /\ UNCHANGED <<client, attempt, cancelled, orphaned>>

\* classifyTaildropSendError of what a call bound to the context returned.
FailureReasons(r) == {"error"} \cup (IF r \in cancelled THEN {"cancelled"} ELSE {})

\* resolveTaildropTarget, within five seconds.
Lookup(r) ==
    /\ pc[r] = "lookup"
    /\ \/ /\ r \notin orphaned
          /\ Goto(r, "file")
          /\ UNCHANGED <<task, stopFn, client, attempt, result, cancelled, orphaned>>
       \/ \E reason \in FailureReasons(r) : Finish(r, "failed", reason)

\* The head of the loop over the files.
NextFileUnchecked(r) ==
    /\ pc[r] = "file"
    /\ Goto(r, "open")
    /\ attempt' = [attempt EXCEPT ![r] = 1]
    /\ UNCHANGED <<task, stopFn, client, result, cancelled, orphaned>>
NextFile(r) ==
    /\ pc[r] = "file"
    /\ IF r \in cancelled
       THEN Finish(r, "failed", "cancelled")
       ELSE /\ Goto(r, "open")
            /\ attempt' = [attempt EXCEPT ![r] = 1]
            /\ UNCHANGED <<task, stopFn, client, result, cancelled, orphaned>>

\* os.Open and Stat: the staged file is missing or changed, or the record is
\* marked sending.
OpenFile(r) ==
    /\ pc[r] = "open"
    /\ \/ Finish(r, "failed", "error")
       \/ /\ task' = Updated(r, "sending")
          /\ Goto(r, "push")
          /\ UNCHANGED <<stopFn, client, attempt, result, cancelled, orphaned>>

\* client.PushFile returns: on to the next file or the end; a transient error
\* while attempts are left; or the error that ends the transfer.
PushReturnsUnbounded(r) ==
    /\ pc[r] = "push"
    /\ Goto(r, "wait")
    /\ UNCHANGED <<task, stopFn, client, attempt, result, cancelled, orphaned>>
PushReturns(r) ==
    /\ pc[r] = "push"
    /\ \/ /\ r \notin orphaned
          /\ Goto(r, "file")
          /\ UNCHANGED <<task, stopFn, client, attempt, result, cancelled, orphaned>>
       \/ r \notin orphaned /\ Finish(r, "completed", "none")
       \/ /\ attempt[r] < MaxAttempts
          /\ Goto(r, "wait")
          /\ UNCHANGED <<task, stopFn, client, attempt, result, cancelled, orphaned>>
       \/ \E reason \in FailureReasons(r) : Finish(r, "failed", reason)

\* waitForTaildropRetry: the delay passes, or the context ends the wait.
RetryWait(r) ==
    /\ pc[r] = "wait"
    /\ \/ /\ Goto(r, "open")
          /\ attempt' = [attempt EXCEPT ![r] = @ + 1]
          /\ UNCHANGED <<task, stopFn, client, result, cancelled, orphaned>>
       \/ r \in cancelled /\ Finish(r, "failed", "cancelled")

\* Every step but PushFile, which has no deadline of its own.
SendStep(r) ==
    /\ \/ RejectRequest(r)
       \/ RefuseUnavailable(r)
       \/ ReadClient(r)
       \/ Claim(r)
       \/ Lookup(r)
       \/ NextFile(r)
       \/ OpenFile(r)
       \/ RetryWait(r)
    /\ UNCHANGED <<canceller, sendInFlight>>

PushStep(r) == PushReturns(r) /\ UNCHANGED <<canceller, sendInFlight>>
-----------------------------------------------------------------------------
(* taildropCancel and stop *)

CancelReason(w) == IF w = "user" THEN "cancelled" ELSE "disconnected"

\* The extension calls taildropCancel, backendStopAsync or backendStop.
CallCancel(w) ==
    /\ canceller[w].at = "idle"
    /\ canceller' = [canceller EXCEPT ![w] = [at |-> "begin", fn |-> 0]]
    /\ UNCHANGED <<task, stopFn, client, pc, attempt, result, cancelled, orphaned,
                   sendInFlight>>

\* cancelTaildropTransfer: its critical section takes the cancel function and
\* fails the active record.
CancelTaskKeepingStop(w) ==
    /\ canceller[w].at = "begin"
    /\ task' = IF Active(task) THEN Failed(task.id, CancelReason(w)) ELSE task
    /\ canceller' = [canceller EXCEPT ![w] = [at |-> "fire", fn |-> stopFn]]
    /\ UNCHANGED <<stopFn, client, pc, attempt, result, cancelled, orphaned, sendInFlight>>
CancelTaskOnceSending(w) ==
    /\ canceller[w].at = "begin"
    /\ task' = IF task.state = "sending" THEN Failed(task.id, CancelReason(w)) ELSE task
    /\ stopFn' = 0
    /\ canceller' = [canceller EXCEPT ![w] = [at |-> "fire", fn |-> stopFn]]
    /\ UNCHANGED <<client, pc, attempt, result, cancelled, orphaned, sendInFlight>>
CancelTask(w) ==
    /\ canceller[w].at = "begin"
    /\ task' = IF Active(task) THEN Failed(task.id, CancelReason(w)) ELSE task
    /\ stopFn' = 0
    /\ canceller' = [canceller EXCEPT ![w] = [at |-> "fire", fn |-> stopFn]]
    /\ UNCHANGED <<client, pc, attempt, result, cancelled, orphaned, sendInFlight>>

\* The context is cancelled after the lock is released.  taildropCancel then
\* answers with the record of the moment, which changes nothing.
CancelContext(w) ==
    /\ canceller[w].at = "fire"
    /\ cancelled' = cancelled \cup ({canceller[w].fn} \ {0})
    /\ canceller' = [canceller EXCEPT ![w] =
                       [at |-> IF w = "user" THEN "idle" ELSE "after", fn |-> 0]]
    /\ UNCHANGED <<task, stopFn, client, pc, attempt, result, orphaned, sendInFlight>>

\* stop drops the client under b.mu ...
StopReset(w) ==
    /\ canceller[w].at = "after"
    /\ client' = FALSE
    /\ canceller' = [canceller EXCEPT ![w] = [at |-> "close", fn |-> 0]]
    /\ UNCHANGED <<task, stopFn, pc, attempt, result, cancelled, orphaned, sendInFlight>>

\* ... and closes the server afterwards.  Whoever still holds the client holds a
\* dead one.
StopCloseForgotten(w) ==
    /\ canceller[w].at = "close"
    /\ canceller' = [canceller EXCEPT ![w] = [at |-> "idle", fn |-> 0]]
    /\ UNCHANGED <<task, stopFn, client, pc, attempt, result, cancelled, orphaned,
                   sendInFlight>>
StopClose(w) ==
    /\ canceller[w].at = "close"
    /\ orphaned' = orphaned \cup {r \in Requests : pc[r] # "none"}
    /\ canceller' = [canceller EXCEPT ![w] = [at |-> "idle", fn |-> 0]]
    /\ UNCHANGED <<task, stopFn, client, pc, attempt, result, cancelled, sendInFlight>>

CancelStep(w) == CancelTask(w) \/ CancelContext(w) \/ StopReset(w) \/ StopClose(w)
-----------------------------------------------------------------------------
Next ==
    \/ \E r \in Requests : CallSend(r) \/ SendDone(r) \/ SendStep(r) \/ PushStep(r)
    \/ \E w \in Cancellers : CallCancel(w) \/ CancelStep(w)

\* A call that has begun goes on and its promise settles.  PushFile is only known
\* to return once its context is cancelled or its server is closed.
Fairness ==
    /\ \A r \in Requests :
         /\ WF_vars(SendStep(r))
         /\ WF_vars(r \in cancelled \cup orphaned /\ PushStep(r))
         /\ WF_vars(SendDone(r))
    /\ \A w \in Cancellers : WF_vars(CancelStep(w))

SafeSpec == Init /\ [][Next]_vars
Spec == SafeSpec /\ Fairness
-----------------------------------------------------------------------------
(* Properties *)

Running(r) == pc[r] \notin {"none", "done"}

\* Every variable keeps its type; no attempt is counted past the limit.
TypeOK ==
    /\ task \in Slot!Transfers
    /\ stopFn \in 0 .. MaxRequests
    /\ client \in BOOLEAN
    /\ pc \in [Requests -> SendPc]
    /\ attempt \in [Requests -> 0 .. MaxAttempts]
    /\ result \in [Requests -> Slot!Transfers]
    /\ cancelled \subseteq Requests /\ orphaned \subseteq Requests
    /\ canceller \in [Cancellers -> [at : CancelPc, fn : 0 .. MaxRequests]]
    /\ sendInFlight \in 0 .. MaxRequests

\* The slot is never wedged: a record that says queued or sending has a
\* taildropSend call still running for it, so no later send finds it busy for
\* good (finishTaildropTransfer on every way out).
ActiveTaskHasSender == Active(task) => Running(task.id)

\* The stored cancel function is the one of the active record: a cancel never
\* fires at a transfer other than the one it marks failed, although
\* replaceTaildropTransfer leaves taildropStop alone.
CancelFunctionOwned == stopFn # 0 => task.id = stopFn /\ Active(task)

\* Two sends never run together: a cancelled send that has not returned yet keeps
\* the next request waiting.
OneSendAtATime == Cardinality({r \in Requests : Running(r)}) <= 1

\* A context is cancelled only for a record that a cancel has settled or that has
\* ended by itself: no transfer goes on reporting progress under a dead context.
CancelledIsSettled ==
    \A r \in Requests :
        r \in cancelled \cup {canceller[w].fn : w \in Cancellers} =>
            ~(task.id = r /\ Active(task))

\* What keeps the slot usable, whoever cancels, stops, retries or returns late.
SlotInv ==
    /\ TypeOK
    /\ ActiveTaskHasSender /\ CancelFunctionOwned
    /\ OneSendAtATime /\ CancelledIsSettled

\* The record behaves as TaildropSlot says.
ImplementsSlot == Slot!SlotSpec

\* A cancelled context ends its send, whatever PushFile was doing, and the
\* extension becomes free for the next request.
CancelledSendEnds == \A r \in Requests : r \in cancelled ~> sendInFlight # r

\* After stop no send lingers: not even one that read the client before stop
\* reset it and installed its record after stop had cancelled the slot.
StopEndsSends == ~client ~> \A r \in Requests : ~Running(r)

\* A send that was cancelled, or whose backend was stopped, ends.
DoomedSendsEnd == CancelledSendEnds /\ StopEndsSends
=============================================================================
