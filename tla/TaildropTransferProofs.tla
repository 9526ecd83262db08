----------------------- MODULE TaildropTransferProofs -----------------------
(***************************************************************************)
(* Proofs about TaildropTransfer, for any number of requests and attempts. *)
(* The argument: the extension's taildropSendInFlight names the only send  *)
(* that runs, an active record is that send's and names a call past its    *)
(* claim, and a cancel function, stored, taken or fired, is one of a call  *)
(* past its claim.  At the end, TaildropDelivery: what reaches the user.   *)
(***************************************************************************)
EXTENDS TaildropTransfer, FiniteSetTheorems, TLAPS

\* The steps of taildropSend after its claim of the record.
Claimed == {"lookup", "file", "open", "push", "wait"}

\* taildropSendInFlight is set for the whole of a call.
Serial == \A r \in Requests : Running(r) => sendInFlight = r

\* An active record belongs to a call that has claimed it and not returned.
ActiveIsClaimed == Active(task) => task.id \in Requests /\ pc[task.id] \in Claimed

\* A call waits for a retry only while attempts are left.
WaitHasAttempt == \A r \in Requests : pc[r] = "wait" => attempt[r] < MaxAttempts

\* Contexts are made by the claim: what was cancelled, or is about to be, is the
\* context of a call that has claimed, and a resting canceller holds none.
CancelAfterClaim ==
    /\ \A r \in cancelled : pc[r] \in Claimed \cup {"done"}
    /\ \A w \in Cancellers :
         canceller[w].fn # 0 => pc[canceller[w].fn] \in Claimed \cup {"done"}

\* The record a fired or taken cancel function was stored with is settled.
TakenIsSettled ==
    /\ \A r \in cancelled : ~(task.id = r /\ Active(task))
    /\ \A w \in Cancellers : ~(task.id = canceller[w].fn /\ Active(task))

\* The inductive invariant of the record.
IInv == /\ TypeOK /\ Serial /\ ActiveIsClaimed /\ WaitHasAttempt
        /\ CancelFunctionOwned /\ CancelAfterClaim /\ TakenIsSettled
-----------------------------------------------------------------------------
USE RequestsAssumption, AttemptsAssumption
USE DEF Requests, Cancellers, Transfer, Failed, Active, Slot!Failed, Slot!Active

\* A record built from a request, a state and a reason has the record type.
LEMMA TransferType ==
  ASSUME NEW r \in 0 .. MaxRequests,
         NEW state \in {"idle", "queued", "sending", "completed", "failed"},
         NEW reason \in {"none", "cancelled", "disconnected", "error"}
  PROVE  Slot!Transfer(r, state, reason) \in Slot!Transfers
  BY DEF Slot!Transfer, Slot!Transfers, Slot!RequestOrNone, Slot!Reasons

\* The initial state satisfies the inductive invariant.
LEMMA InitIInv == Init => IInv
<1> SUFFICES ASSUME Init PROVE IInv
  OBVIOUS
<1>1. Slot!NoTransfer \in Slot!Transfers
  BY DEF Slot!NoTransfer, Slot!Transfer, Slot!Transfers, Slot!RequestOrNone, Slot!Reasons
<1>2. TypeOK
  BY <1>1 DEF Init, TypeOK, SendPc, CancelPc
<1>3. QED
  BY <1>2 DEF Init, IInv, Serial, Running, ActiveIsClaimed, WaitHasAttempt,
         CancelFunctionOwned, CancelAfterClaim, TakenIsSettled, Slot!NoTransfer,
         Slot!Transfer

\* A call that ends leaves the record settled, or another's record alone.
LEMMA FinishIInv ==
  ASSUME IInv, NEW r \in Requests, pc[r] \in Claimed,
         NEW state \in {"completed", "failed"},
         NEW reason \in {"none", "cancelled", "error"},
         Finish(r, state, reason), UNCHANGED <<canceller, sendInFlight>>
  PROVE  IInv'
<1> USE DEF IInv, Finish, Finished, Goto
<1>1. TypeOK'
  BY TransferType DEF TypeOK, SendPc
<1>2. Serial' /\ WaitHasAttempt' /\ CancelAfterClaim'
  BY <1>1 DEF TypeOK, Serial, Running, WaitHasAttempt, CancelAfterClaim, Claimed
<1>3. ActiveIsClaimed' /\ CancelFunctionOwned' /\ TakenIsSettled'
  BY <1>1 DEF TypeOK, ActiveIsClaimed, CancelFunctionOwned, TakenIsSettled, Claimed,
     Slot!Transfer
<1>4. QED
  BY <1>1, <1>2, <1>3

\* A call that is refused finds no active record, as it is the only one under way.
LEMMA ReplaceIInv ==
  ASSUME IInv, NEW r \in Requests, pc[r] \in {"called", "refuse"},
         Replace(r), UNCHANGED <<canceller, sendInFlight>>
  PROVE  IInv'
<1> USE DEF IInv, Replace, Goto
<1>1. TypeOK'
  BY TransferType DEF TypeOK, SendPc
<1>2. ~Active(task) /\ stopFn = 0
  BY DEF TypeOK, Serial, Running, ActiveIsClaimed, Claimed, CancelFunctionOwned
<1>3. Serial' /\ WaitHasAttempt' /\ CancelAfterClaim'
  BY <1>1 DEF TypeOK, Serial, Running, WaitHasAttempt, CancelAfterClaim, Claimed
<1>4. ActiveIsClaimed' /\ CancelFunctionOwned' /\ TakenIsSettled'
  BY <1>1, <1>2 DEF TypeOK, ActiveIsClaimed, CancelFunctionOwned, TakenIsSettled, Claimed,
     Slot!Transfer
<1>5. QED
  BY <1>1, <1>3, <1>4

\* A call that moves on within its claim, or to it, and touches nothing else.
LEMMA AdvanceIInv ==
  ASSUME IInv, NEW r \in Requests, NEW at,
         \/ pc[r] = "called" /\ at \in {"claim", "refuse"}
         \/ pc[r] \in Claimed /\ at \in Claimed,
         at = "wait" => attempt'[r] < MaxAttempts,
         \/ attempt' = attempt
         \/ \E n \in 0 .. MaxAttempts : attempt' = [attempt EXCEPT ![r] = n],
         Goto(r, at),
         UNCHANGED <<task, stopFn, client, result, cancelled, orphaned, canceller,
                     sendInFlight>>
  PROVE  IInv'
<1> USE DEF IInv, Goto
<1>1. TypeOK'
  <2>1. at \in SendPc
    BY DEF Claimed, SendPc
  <2>2. attempt' \in [Requests -> 0 .. MaxAttempts]
    BY DEF TypeOK
  <2>3. pc' \in [Requests -> SendPc]
    BY <2>1 DEF TypeOK
  <2>4. QED
    BY <2>2, <2>3 DEF TypeOK
<1>2. Serial' /\ CancelAfterClaim'
  BY <1>1 DEF TypeOK, Serial, Running, CancelAfterClaim, Claimed
<1>3. WaitHasAttempt'
  BY <1>1 DEF TypeOK, WaitHasAttempt
<1>4. ActiveIsClaimed' /\ CancelFunctionOwned' /\ TakenIsSettled'
  BY <1>1 DEF TypeOK, ActiveIsClaimed, CancelFunctionOwned, TakenIsSettled, Claimed,
     Slot!Transfer
<1>5. QED
  BY <1>1, <1>2, <1>3, <1>4

\* A call claims the record, which it finds free.
LEMMA ClaimIInv ==
  ASSUME IInv, NEW r \in Requests, Claim(r), UNCHANGED <<canceller, sendInFlight>>
  PROVE  IInv' /\ ~Active(task)
<1> USE DEF IInv, Claim, Goto
<1>1. ~Active(task)
  BY DEF TypeOK, Serial, Running, ActiveIsClaimed, Claimed
<1>2. TypeOK'
  BY <1>1, TransferType DEF TypeOK, SendPc
<1>3. r \notin cancelled /\ \A w \in Cancellers : canceller[w].fn # r
  <2>1. pc[r] = "claim" /\ r # 0
    OBVIOUS
  <2>2. pc[r] \notin Claimed \cup {"done"}
    BY <2>1 DEF Claimed
  <2>3. QED
    BY <2>1, <2>2 DEF CancelAfterClaim
<1>4. Serial' /\ WaitHasAttempt' /\ CancelAfterClaim'
  BY <1>1, <1>2 DEF TypeOK, Serial, Running, WaitHasAttempt, CancelAfterClaim, Claimed
<1>5. ActiveIsClaimed' /\ CancelFunctionOwned' /\ TakenIsSettled'
  BY <1>1, <1>2, <1>3 DEF TypeOK, ActiveIsClaimed, CancelFunctionOwned, TakenIsSettled,
     Claimed, Slot!Transfer
<1>6. QED
  BY <1>1, <1>2, <1>4, <1>5

\* Every step of taildropSend.
LEMMA SendIInv ==
  ASSUME IInv, NEW r \in Requests, SendStep(r) \/ PushStep(r)
  PROVE  IInv'
<1> USE DEF SendStep, PushStep
<1>0. UNCHANGED <<canceller, sendInFlight>>
  OBVIOUS
<1>1. CASE RejectRequest(r) \/ RefuseUnavailable(r)
  BY <1>0, <1>1, ReplaceIInv DEF RejectRequest, RefuseUnavailable
<1>2. CASE ReadClient(r)
  BY <1>0, <1>2, AdvanceIInv DEF ReadClient
<1>3. CASE Claim(r)
  BY <1>0, <1>3, ClaimIInv
<1>4. FailureReasons(r) \subseteq {"none", "cancelled", "error"}
  BY DEF FailureReasons
<1>5. CASE Lookup(r)
  BY <1>0, <1>4, <1>5, FinishIInv, AdvanceIInv DEF Lookup, Claimed
<1>6. CASE NextFile(r)
  <2>1. CASE r \in cancelled
    BY <1>0, <1>6, <2>1, FinishIInv DEF NextFile, Claimed
  <2>2. CASE r \notin cancelled
    <3>1. 1 \in 0 .. MaxAttempts
      OBVIOUS
    <3>2. QED
      BY <1>0, <1>6, <2>2, <3>1, AdvanceIInv DEF NextFile, Claimed
  <2>3. QED
    BY <2>1, <2>2
<1>7. CASE OpenFile(r)
  <2>1. CASE Finish(r, "failed", "error")
    BY <1>0, <1>7, <2>1, FinishIInv DEF OpenFile, Claimed
  <2>2. CASE ~Finish(r, "failed", "error")
    <3> USE <1>0, <1>7, <2>2 DEF OpenFile, Updated, IInv, Goto
    <3>0. task' \in Slot!Transfers
      BY TransferType DEF TypeOK
    <3>1. TypeOK'
      BY <3>0 DEF TypeOK, SendPc
    <3>2. Serial' /\ WaitHasAttempt' /\ CancelAfterClaim'
      <4>1. Serial' /\ WaitHasAttempt'
        BY <3>1 DEF TypeOK, Serial, Running, WaitHasAttempt
      <4>2. CancelAfterClaim'
        BY <3>1 DEF TypeOK, CancelAfterClaim, Claimed
      <4>3. QED
        BY <4>1, <4>2
    <3>3. ActiveIsClaimed' /\ CancelFunctionOwned' /\ TakenIsSettled'
      BY <3>1 DEF TypeOK, ActiveIsClaimed, CancelFunctionOwned, TakenIsSettled, Claimed,
     Slot!Transfer
    <3>4. QED
      BY <3>1, <3>2, <3>3
  <2>3. QED
    BY <2>1, <2>2
<1>8. CASE PushReturns(r)
  <2>1. CASE \E reason \in FailureReasons(r) : Finish(r, "failed", reason)
    BY <1>0, <1>4, <1>8, <2>1, FinishIInv DEF PushReturns, Claimed
  <2>2. CASE Finish(r, "completed", "none")
    BY <1>0, <1>8, <2>2, FinishIInv DEF PushReturns, Claimed
  <2>3. QED
    BY <1>0, <1>8, <2>1, <2>2, AdvanceIInv DEF PushReturns, Claimed
<1>9. CASE RetryWait(r)
  <2>1. CASE Finish(r, "failed", "cancelled")
    BY <1>0, <1>9, <2>1, FinishIInv DEF RetryWait, Claimed
  <2>2. CASE ~Finish(r, "failed", "cancelled")
    <3>1. attempt[r] + 1 \in 0 .. MaxAttempts
      BY <1>9 DEF IInv, TypeOK, WaitHasAttempt, RetryWait
    <3>2. attempt' = [attempt EXCEPT ![r] = attempt[r] + 1]
      BY <1>9, <2>2 DEF RetryWait
    <3>3. QED
      BY <1>0, <1>9, <2>2, <3>1, <3>2, AdvanceIInv DEF RetryWait, Claimed
  <2>3. QED
    BY <2>1, <2>2
<1>10. QED
  BY <1>1, <1>2, <1>3, <1>5, <1>6, <1>7, <1>8, <1>9

\* The extension's side of a send.
LEMMA CallIInv ==
  ASSUME IInv, NEW r \in Requests, CallSend(r) \/ SendDone(r)
  PROVE  IInv'
<1> USE DEF IInv
<1>1. CASE CallSend(r)
  <2> USE <1>1 DEF CallSend, SendAllowed, Goto
  <2>1. TypeOK'
    BY DEF TypeOK, SendPc
  <2>2. Serial' /\ WaitHasAttempt' /\ CancelAfterClaim'
    BY <2>1 DEF TypeOK, Serial, Running, WaitHasAttempt, CancelAfterClaim, Claimed
  <2>3. ActiveIsClaimed' /\ CancelFunctionOwned' /\ TakenIsSettled'
    BY <2>1 DEF TypeOK, ActiveIsClaimed, CancelFunctionOwned, TakenIsSettled, Claimed,
     Slot!Transfer
  <2>4. QED
    BY <2>1, <2>2, <2>3
<1>2. CASE SendDone(r)
  BY <1>2 DEF SendDone, TypeOK, Serial, Running, ActiveIsClaimed, WaitHasAttempt,
     CancelFunctionOwned, CancelAfterClaim, TakenIsSettled
<1>3. QED
  BY <1>1, <1>2

\* Every step of taildropCancel and stop.
LEMMA CancelIInv ==
  ASSUME IInv, NEW w \in Cancellers, CallCancel(w) \/ CancelStep(w)
  PROVE  IInv'
<1> USE DEF IInv
<1>1. CASE CallCancel(w)
  BY <1>1 DEF CallCancel, TypeOK, CancelPc, Serial, Running, ActiveIsClaimed,
     WaitHasAttempt, CancelFunctionOwned, CancelAfterClaim, TakenIsSettled
<1>2. CASE CancelTask(w)
  <2> USE <1>2 DEF CancelTask, CancelReason
  <2>1. task' \in Slot!Transfers
    BY TransferType DEF TypeOK, Slot!Transfers, Slot!RequestOrNone
  <2>2. TypeOK'
    BY <2>1 DEF TypeOK, CancelPc
  <2>3. Serial' /\ WaitHasAttempt'
    BY DEF Serial, Running, WaitHasAttempt
  <2>4. CancelAfterClaim'
    BY <2>2 DEF TypeOK, CancelAfterClaim, CancelFunctionOwned, ActiveIsClaimed
  <2>5. ActiveIsClaimed' /\ CancelFunctionOwned' /\ TakenIsSettled'
    BY <2>2 DEF TypeOK, ActiveIsClaimed, CancelFunctionOwned, TakenIsSettled, Slot!Transfer
  <2>6. QED
    BY <2>2, <2>3, <2>4, <2>5
<1>3. CASE CancelContext(w)
  <2> USE <1>3 DEF CancelContext
  <2>1. {canceller[w].fn} \ {0} \subseteq Requests
    BY DEF TypeOK
  <2>2. TypeOK'
    <3>1. canceller' \in [Cancellers -> [at : CancelPc, fn : 0 .. MaxRequests]]
      BY DEF TypeOK, CancelPc
    <3>2. QED
      BY <2>1, <3>1 DEF TypeOK
  <2>3. Serial' /\ WaitHasAttempt' /\ ActiveIsClaimed' /\ CancelFunctionOwned'
    BY DEF Serial, Running, WaitHasAttempt, ActiveIsClaimed, CancelFunctionOwned
  <2>4. CancelAfterClaim' /\ TakenIsSettled'
    BY <2>2 DEF TypeOK, CancelAfterClaim, TakenIsSettled, ActiveIsClaimed
  <2>5. QED
    BY <2>2, <2>3, <2>4
<1>4. CASE StopReset(w)
  <2> USE <1>4 DEF StopReset
  <2>1. TypeOK'
    <3>1. canceller' \in [Cancellers -> [at : CancelPc, fn : 0 .. MaxRequests]]
      BY DEF TypeOK, CancelPc
    <3>2. QED
      BY <3>1 DEF TypeOK
  <2>2. Serial' /\ WaitHasAttempt' /\ ActiveIsClaimed' /\ CancelFunctionOwned'
    BY DEF Serial, Running, WaitHasAttempt, ActiveIsClaimed, CancelFunctionOwned
  <2>3. CancelAfterClaim' /\ TakenIsSettled'
    BY <2>1 DEF TypeOK, CancelAfterClaim, TakenIsSettled, ActiveIsClaimed
  <2>4. QED
    BY <2>1, <2>2, <2>3
<1>5. CASE StopClose(w)
  <2> USE <1>5 DEF StopClose
  <2>1. orphaned' \subseteq Requests
    BY DEF TypeOK
  <2>2. TypeOK'
    BY <2>1 DEF TypeOK, CancelPc
  <2>3. Serial' /\ WaitHasAttempt' /\ ActiveIsClaimed' /\ CancelFunctionOwned'
    BY DEF Serial, Running, WaitHasAttempt, ActiveIsClaimed, CancelFunctionOwned
  <2>4. CancelAfterClaim' /\ TakenIsSettled'
    BY <2>2 DEF TypeOK, CancelAfterClaim, TakenIsSettled, ActiveIsClaimed
  <2>5. QED
    BY <2>2, <2>3, <2>4
<1>6. QED
  BY <1>1, <1>2, <1>3, <1>4, <1>5 DEF CancelStep

\* Every step preserves the inductive invariant.
LEMMA NextIInv == IInv /\ [Next]_vars => IInv'
<1> SUFFICES ASSUME IInv, [Next]_vars PROVE IInv'
  OBVIOUS
<1>1. CASE UNCHANGED vars
  BY <1>1 DEF vars, IInv, TypeOK, Serial, Running, ActiveIsClaimed, WaitHasAttempt,
     CancelFunctionOwned, CancelAfterClaim, TakenIsSettled
<1>2. QED
  BY <1>1, SendIInv, CallIInv, CancelIInv DEF Next

\* The inductive invariant holds throughout.
LEMMA IInvHolds == SafeSpec => []IInv
<1>1. QED
  BY InitIInv, NextIInv, PTL DEF SafeSpec

\* One send at a time: all that run are the one the extension has in flight.
LEMMA SerialOne == TypeOK /\ Serial => OneSendAtATime
<1> SUFFICES ASSUME TypeOK, Serial PROVE OneSendAtATime
  OBVIOUS
<1> DEFINE S == {r \in Requests : Running(r)}
<1>1. S \subseteq {sendInFlight}
  BY DEF Serial
<1>2. IsFiniteSet({sendInFlight}) /\ Cardinality({sendInFlight}) = 1
  BY FS_Singleton
<1>3. Cardinality(S) <= 1 /\ Cardinality(S) \in Nat
  BY <1>1, <1>2, FS_Subset, FS_CardinalityType
<1>4. QED
  BY <1>3 DEF OneSendAtATime

\* The slot stays usable whoever cancels, stops, retries or returns late: an active
\* record has its call, the stored cancel function is that call's, sends are serial,
\* and no transfer goes on under a cancelled context.
THEOREM SlotKept == SafeSpec => []SlotInv
<1>1. IInv => SlotInv
  <2> SUFFICES ASSUME IInv PROVE SlotInv
    OBVIOUS
  <2>1. ActiveTaskHasSender
    BY DEF IInv, ActiveIsClaimed, ActiveTaskHasSender, Running, Claimed
  <2>2. CancelledIsSettled
    BY DEF IInv, TakenIsSettled, CancelledIsSettled
  <2>3. QED
    BY <2>1, <2>2, SerialOne DEF IInv, SlotInv
<1>2. QED
  BY <1>1, IInvHolds, PTL
-----------------------------------------------------------------------------
\* The initial record is that of TaildropSlot.
LEMMA InitSlot == Init => Slot!SlotInit
  BY DEF Init, Slot!SlotInit, Slot!Requests, SenderOf

\* A step of one call changes the abstract progress of that call only.
LEMMA SenderChange ==
  ASSUME TypeOK, NEW r \in Requests, NEW at, Goto(r, at)
  PROVE  [q \in 1 .. MaxRequests |-> SenderOf(pc[q])]'
           = [[q \in 1 .. MaxRequests |-> SenderOf(pc[q])] EXCEPT ![r] = SenderOf(at)]
  BY DEF TypeOK, Goto

\* Moving on within the claim, or to it, is no step of TaildropSlot.
LEMMA AdvanceSlot ==
  ASSUME TypeOK, NEW r \in Requests, NEW at, Goto(r, at), SenderOf(at) = SenderOf(pc[r]),
         UNCHANGED <<task, result>>
  PROVE  UNCHANGED Slot!slot
<1>1. [q \in 1 .. MaxRequests |-> SenderOf(pc[q])]'
        = [q \in 1 .. MaxRequests |-> SenderOf(pc[q])]
  BY DEF TypeOK, Goto
<1>2. QED
  BY <1>1 DEF Slot!slot

\* The way out of taildropSend settles the record.
LEMMA FinishSlot ==
  ASSUME IInv, NEW r \in Requests, pc[r] \in Claimed,
         NEW state, NEW reason,
         \/ state = "completed" /\ reason = "none"
         \/ state = "failed" /\ reason \in {"error", "cancelled"},
         Finish(r, state, reason)
  PROVE  Slot!Settle(r)
<1>1. SenderOf(pc[r]) = "running" /\ SenderOf("done") = "done"
  BY DEF SenderOf, Claimed
<1>2. [q \in 1 .. MaxRequests |-> SenderOf(pc[q])]'
        = [[q \in 1 .. MaxRequests |-> SenderOf(pc[q])] EXCEPT ![r] = "done"]
  BY <1>1, SenderChange DEF Finish, IInv
<1>3. Active(task) => task.id = r
  BY DEF IInv, TypeOK, Serial, Running, ActiveIsClaimed, Claimed
<1>4. QED
  BY <1>1, <1>2, <1>3 DEF Slot!Settle, Finish, Finished

\* A call that cannot begin replaces a settled record.
LEMMA ReplaceSlot ==
  ASSUME IInv, NEW r \in Requests, pc[r] \in {"called", "refuse"}, Replace(r)
  PROVE  Slot!Refuse(r)
<1>1. SenderOf(pc[r]) = "called" /\ SenderOf("done") = "done"
  BY DEF SenderOf
<1>2. [q \in 1 .. MaxRequests |-> SenderOf(pc[q])]'
        = [[q \in 1 .. MaxRequests |-> SenderOf(pc[q])] EXCEPT ![r] = "done"]
  BY <1>1, SenderChange DEF Replace, IInv
<1>3. ~Active(task)
  BY DEF IInv, TypeOK, Serial, Running, ActiveIsClaimed, Claimed
<1>4. QED
  BY <1>1, <1>2, <1>3 DEF Slot!Refuse, Replace

\* Every step of taildropSend is a step of the abstract send, or none.
LEMMA SendSlot ==
  ASSUME IInv, NEW r \in Requests, SendStep(r) \/ PushStep(r)
  PROVE  \/ Slot!Refuse(r) \/ Slot!Begin(r) \/ Slot!Progress(r) \/ Slot!Settle(r)
         \/ UNCHANGED Slot!slot
<1> USE DEF SendStep, PushStep
<1>0. TypeOK /\ FailureReasons(r) \subseteq {"cancelled", "error"}
  BY DEF IInv, FailureReasons
<1>1. CASE RejectRequest(r) \/ RefuseUnavailable(r)
  BY <1>1, ReplaceSlot DEF RejectRequest, RefuseUnavailable
<1>2. CASE ReadClient(r)
  BY <1>0, <1>2, AdvanceSlot DEF ReadClient, SenderOf
<1>3. CASE Claim(r)
  <2>1. ~Active(task)
    BY <1>3, ClaimIInv
  <2>2. SenderOf(pc[r]) = "called" /\ SenderOf("lookup") = "running"
    BY <1>3 DEF SenderOf, Claim
  <2>3. [q \in 1 .. MaxRequests |-> SenderOf(pc[q])]'
          = [[q \in 1 .. MaxRequests |-> SenderOf(pc[q])] EXCEPT ![r] = "running"]
    BY <1>0, <1>3, <2>1, <2>2, SenderChange DEF Claim
  <2>4. Slot!Begin(r)
    BY <1>3, <2>1, <2>2, <2>3 DEF Claim, Slot!Begin
  <2>5. QED
    BY <2>4
<1>4. CASE Lookup(r)
  BY <1>0, <1>4, FinishSlot, AdvanceSlot DEF Lookup, Claimed, SenderOf
<1>5. CASE NextFile(r)
  BY <1>0, <1>5, FinishSlot, AdvanceSlot DEF NextFile, Claimed, SenderOf
<1>6. CASE OpenFile(r)
  <2>1. CASE Finish(r, "failed", "error")
    BY <1>6, <2>1, FinishSlot DEF OpenFile, Claimed
  <2>2. CASE ~Finish(r, "failed", "error")
    <3>1. /\ pc[r] = "open" /\ Goto(r, "push") /\ task' = Updated(r, "sending")
          /\ UNCHANGED result
      BY <1>6, <2>2 DEF OpenFile
    <3>2. SenderOf("push") = SenderOf(pc[r]) /\ SenderOf(pc[r]) = "running"
      BY <3>1 DEF SenderOf
    <3>3. [q \in 1 .. MaxRequests |-> SenderOf(pc[q])]'
            = [q \in 1 .. MaxRequests |-> SenderOf(pc[q])]
      BY <1>0, <3>1, <3>2 DEF TypeOK, Goto
    <3>4. CASE task.id = r /\ Active(task)
      BY <3>1, <3>2, <3>3, <3>4 DEF Updated, Slot!Progress
    <3>5. CASE ~(task.id = r /\ Active(task))
      BY <3>1, <3>3, <3>5 DEF Updated, Slot!slot
    <3>6. QED
      BY <3>4, <3>5
  <2>3. QED
    BY <2>1, <2>2
<1>7. CASE PushReturns(r)
  BY <1>0, <1>7, FinishSlot, AdvanceSlot DEF PushReturns, Claimed, SenderOf
<1>8. CASE RetryWait(r)
  BY <1>0, <1>8, FinishSlot, AdvanceSlot DEF RetryWait, Claimed, SenderOf
<1>9. QED
  BY <1>1, <1>2, <1>3, <1>4, <1>5, <1>6, <1>7, <1>8

\* Every step is a step of TaildropSlot or leaves its variables alone.
LEMMA NextSlot == IInv /\ [Next]_vars => [Slot!SlotNext]_(Slot!slot)
<1> SUFFICES ASSUME IInv, [Next]_vars PROVE [Slot!SlotNext]_(Slot!slot)
  OBVIOUS
<1>1. CASE UNCHANGED vars
  BY <1>1 DEF vars, Slot!slot
<1>2. ASSUME NEW r \in Requests, CallSend(r) PROVE Slot!Call(r)
  <2>1. SenderOf(pc[r]) = "none" /\ SenderOf("called") = "called"
    BY <1>2 DEF CallSend, SenderOf
  <2>2. [q \in 1 .. MaxRequests |-> SenderOf(pc[q])]'
          = [[q \in 1 .. MaxRequests |-> SenderOf(pc[q])] EXCEPT ![r] = "called"]
    BY <1>2, <2>1, SenderChange DEF CallSend, IInv
  <2>3. QED
    BY <1>2, <2>1, <2>2 DEF CallSend, Slot!Call
<1>3. ASSUME NEW r \in Requests, SendDone(r) PROVE UNCHANGED Slot!slot
  BY <1>3 DEF SendDone, Slot!slot
<1>4. ASSUME NEW w \in Cancellers, CallCancel(w) \/ CancelStep(w)
      PROVE  [Slot!SlotNext]_(Slot!slot)
  <2>1. CASE CancelTask(w) /\ Active(task)
    <3>1. Slot!Cancel(CancelReason(w))
      BY <2>1 DEF CancelTask, Slot!Cancel
    <3>2. CancelReason(w) \in {"cancelled", "disconnected"}
      BY DEF CancelReason
    <3>3. QED
      BY <3>1, <3>2 DEF Slot!SlotNext
  <2>2. CASE CancelTask(w) /\ ~Active(task)
    BY <2>2 DEF CancelTask, Slot!slot
  <2>3. CASE CallCancel(w) \/ CancelContext(w) \/ StopReset(w) \/ StopClose(w)
    BY <2>3 DEF CallCancel, CancelContext, StopReset, StopClose, Slot!slot
  <2>4. QED
    BY <1>4, <2>1, <2>2, <2>3 DEF CancelStep
<1>5. QED
  BY <1>1, <1>2, <1>3, <1>4, SendSlot DEF Next, Slot!SlotNext, Slot!Requests

\* The record is one that TaildropSlot allows: taken over only when settled, moved by
\* its own send alone, and settled once, although sends are retried and cancels and
\* stops come at any time.
THEOREM RefinesSlot == SafeSpec => ImplementsSlot
<1>1. QED
  BY InitSlot, NextSlot, IInvHolds, PTL DEF SafeSpec, ImplementsSlot, Slot!SlotSpec
-----------------------------------------------------------------------------
(* The delivery of the outcome, on top of the record, for any number of requests.     *)
(* TaildropDelivery's task and result are the same record and results, its            *)
(* sendInFlight the same flag.                                                        *)

CONSTANTS StopBefore, MaxRecords
VARIABLES sender, sendFile, cancelFile, cancelCall, latest, snapshot, phase, ui, preparing,
          cancelPending, lastHandled, nextId, records

Delivery == INSTANCE TaildropDelivery

Ids == 0 .. MaxRequests
CancelCalls == [id : Ids, at : {"idle", "called", "cancelled", "answered"},
                answer : Delivery!Transfers]
Snapshots == [at : {"idle", "called", "read"}, transfer : Delivery!Transfers]

\* A transfer built from a request, a state and a reason; one that does not say
\* completed tells nobody of a delivery.
LEMMA TransferTold ==
  ASSUME NEW r \in Ids, NEW state \in {"idle", "queued", "sending", "completed", "failed"},
         NEW reason \in {"none", "cancelled", "disconnected", "error"}
  PROVE  /\ Delivery!Transfer(r, state, reason) \in Delivery!Transfers
         /\ Delivery!Transfer(r, state, reason).id = r
         /\ Delivery!Transfer(r, state, reason).state = state
         /\ state # "completed" => Delivery!Told(Delivery!Transfer(r, state, reason))
  BY DEF Delivery!Transfer, Delivery!Transfers, Delivery!RequestOrNone, Delivery!Reasons, Ids,
     Delivery!Told

\* A failure tells nobody of a delivery.
LEMMA FailedTold ==
  ASSUME NEW r \in Ids, NEW reason \in {"none", "cancelled", "disconnected", "error"}
  PROVE  /\ Delivery!Failed(r, reason) \in Delivery!Transfers
         /\ Delivery!Failed(r, reason).id = r /\ Delivery!Failed(r, reason).state = "failed"
         /\ Delivery!Told(Delivery!Failed(r, reason))
  BY TransferTold DEF Delivery!Failed

\* Neither does the empty record.
LEMMA NoTransferTold ==
  Delivery!NoTransfer \in Delivery!Transfers /\ Delivery!NoTransfer.state = "idle"
  /\ Delivery!Told(Delivery!NoTransfer)
  BY TransferTold DEF Delivery!NoTransfer, Ids

\* The types, one by one.
LEMMA DeliveryTypes ==
  ASSUME Delivery!DeliveryInv
  PROVE  /\ task \in Delivery!Transfers /\ latest \in Delivery!Transfers
         /\ ui \in Delivery!Transfers /\ sendFile \in Ids /\ sendInFlight \in Ids
         /\ preparing \in Ids /\ nextId \in 1 .. MaxRequests + 1
         /\ sender \in [1 .. MaxRequests -> {"none", "called", "running", "done"}]
         /\ result \in [1 .. MaxRequests -> Delivery!Transfers]
         /\ cancelCall \in CancelCalls /\ snapshot \in Snapshots
  BY DEF Delivery!DeliveryInv, Delivery!DeliveryType, Delivery!Requests,
     Delivery!RequestOrNone, Ids, CancelCalls, Snapshots

\* The parts of a transfer.
LEMMA TransferParts ==
  ASSUME NEW t \in Delivery!Transfers
  PROVE  /\ t.id \in Ids
         /\ t.state \in {"idle", "queued", "sending", "completed", "failed"}
         /\ t.reason \in {"none", "cancelled", "disconnected", "error"}
  BY DEF Delivery!Transfers, Delivery!RequestOrNone, Delivery!Reasons, Ids
-----------------------------------------------------------------------------
(* Steps that leave the native code alone *)

\* A handler or the UI stores transfers that are true, and requests are where they were.
LEMMA StoreInv ==
  ASSUME Delivery!DeliveryInv, UNCHANGED <<task, sender, result>>,
         UNCHANGED <<sendFile, sendInFlight, preparing, nextId>>,
         latest' \in Delivery!Transfers, Delivery!Told(latest'),
         ui' \in Delivery!Transfers, Delivery!Told(ui'),
         cancelCall' \in CancelCalls, Delivery!Told(cancelCall'.answer),
         snapshot' \in Snapshots, Delivery!Told(snapshot'.transfer)
  PROVE  Delivery!DeliveryInv'
<1>1. Delivery!DeliveryType'
  BY DEF Delivery!DeliveryInv, Delivery!DeliveryType, Delivery!RequestOrNone, Ids, CancelCalls,
     Snapshots
<1>2. Delivery!HandedOnce' /\ Delivery!OneSend'
  BY DEF Delivery!DeliveryInv, Delivery!HandedOnce, Delivery!OneSend
<1>3. Delivery!CompletionIsTrue'
  BY DEF Delivery!DeliveryInv, Delivery!CompletionIsTrue, Delivery!Told
<1>4. QED
  BY <1>1, <1>2, <1>3 DEF Delivery!DeliveryInv

\* The answers of a cancel and of a snapshot are copies of the record; nothing else is
\* new in what the extension stores from them, and a record it writes off has failed.
LEMMA CopyInv ==
  ASSUME Delivery!DeliveryInv,
         \/ Delivery!NativeCancelAnswers \/ Delivery!NativeSnapshot \/ Delivery!SnapshotBegin
         \/ Delivery!SnapshotFails \/ Delivery!CancelDone \/ Delivery!BeginStop
         \/ Delivery!Destroy
  PROVE  Delivery!DeliveryInv'
<1>0. /\ UNCHANGED <<task, sender, result, sendFile, sendInFlight, preparing, nextId, ui>>
  BY DEF Delivery!NativeCancelAnswers, Delivery!NativeSnapshot, Delivery!SnapshotBegin,
     Delivery!SnapshotFails, Delivery!CancelDone, Delivery!BeginStop, Delivery!Destroy,
     Delivery!slot, Delivery!uiVars, Delivery!calls
<1>1. /\ Delivery!Told(task) /\ Delivery!Told(latest) /\ Delivery!Told(ui)
      /\ Delivery!Told(snapshot.transfer) /\ Delivery!Told(cancelCall.answer)
  BY DEF Delivery!DeliveryInv, Delivery!CompletionIsTrue
<1>2. latest' \in {latest, cancelCall.answer, Delivery!Failed(latest.id, "disconnected")}
  BY DEF Delivery!NativeCancelAnswers, Delivery!NativeSnapshot, Delivery!SnapshotBegin,
     Delivery!SnapshotFails, Delivery!CancelDone, Delivery!BeginStop, Delivery!Destroy
<1>3. latest' \in Delivery!Transfers /\ Delivery!Told(latest')
  <2>1. latest.id \in Ids /\ cancelCall.answer \in Delivery!Transfers
    BY DeliveryTypes, TransferParts DEF CancelCalls
  <2>2. QED
    BY <1>1, <1>2, <2>1, DeliveryTypes, FailedTold
<1>4. cancelCall' \in CancelCalls /\ Delivery!Told(cancelCall'.answer)
  <2>1. CASE Delivery!NativeCancelAnswers
    BY <1>1, <2>1, DeliveryTypes DEF Delivery!NativeCancelAnswers, CancelCalls
  <2>2. CASE Delivery!CancelDone
    <3>1. Delivery!NoCancel \in CancelCalls /\ Delivery!NoCancel.answer = Delivery!NoTransfer
      BY NoTransferTold DEF Delivery!NoCancel, CancelCalls, Ids
    <3>2. QED
      BY <2>2, <3>1, NoTransferTold DEF Delivery!CancelDone
  <2>3. CASE UNCHANGED cancelCall
    BY <1>1, <2>3, DeliveryTypes
  <2>4. QED
    BY <2>1, <2>2, <2>3 DEF Delivery!NativeSnapshot, Delivery!SnapshotBegin,
       Delivery!SnapshotFails, Delivery!BeginStop, Delivery!Destroy, Delivery!calls
<1>5. snapshot' \in Snapshots /\ Delivery!Told(snapshot'.transfer)
  <2>1. \/ UNCHANGED snapshot
        \/ snapshot' = [at |-> "read", transfer |-> task]
        \/ snapshot' = Delivery!NoSnapshot
        \/ snapshot' = [Delivery!NoSnapshot EXCEPT !.at = "called"]
    BY DEF Delivery!NativeCancelAnswers, Delivery!NativeSnapshot, Delivery!SnapshotBegin,
       Delivery!SnapshotFails, Delivery!CancelDone, Delivery!BeginStop, Delivery!Destroy,
       Delivery!calls
  <2>2. QED
    BY <1>1, <2>1, DeliveryTypes, NoTransferTold DEF Delivery!NoSnapshot, Snapshots
<1>6. QED
  BY <1>0, <1>1, <1>3, <1>4, <1>5, DeliveryTypes, StoreInv

\* The UI shows what it polls, or a failure of its own.
LEMMA UiShowsInv ==
  ASSUME Delivery!DeliveryInv,
         Delivery!UiPoll \/ Delivery!UiDisconnected \/ Delivery!UiCancel
  PROVE  Delivery!DeliveryInv'
<1>0. UNCHANGED <<task, sender, result, sendFile, sendInFlight, preparing, nextId, latest,
                  cancelCall, snapshot>>
  BY DEF Delivery!UiPoll, Delivery!UiDisconnected, Delivery!UiCancel, Delivery!slot,
     Delivery!calls
<1>1. /\ Delivery!Told(latest) /\ Delivery!Told(ui)
      /\ Delivery!Told(snapshot.transfer) /\ Delivery!Told(cancelCall.answer)
  BY DEF Delivery!DeliveryInv, Delivery!CompletionIsTrue
<1>2. \/ ui' \in {ui, latest}
      \/ \E reason \in {"error", "disconnected"} : ui' = Delivery!Failed(ui.id, reason)
  BY DEF Delivery!UiPoll, Delivery!UiDisconnected, Delivery!UiCancel, Delivery!Apply
<1>3. ui.id \in Ids
  BY DeliveryTypes, TransferParts
<1>4. ui' \in Delivery!Transfers /\ Delivery!Told(ui')
  BY <1>1, <1>2, <1>3, DeliveryTypes, FailedTold
<1>5. QED
  BY <1>0, <1>1, <1>4, DeliveryTypes, StoreInv
-----------------------------------------------------------------------------
(* The request on its way *)

\* A request is numbered, prepared, and put into the file or given up.
LEMMA UiRequestInv ==
  ASSUME Delivery!DeliveryInv,
         \/ Delivery!UiPrepare \/ Delivery!UiPrepareFails
         \/ Delivery!UiSubmit \/ Delivery!UiSubmitFails
  PROVE  Delivery!DeliveryInv'
<1>0. UNCHANGED <<task, sender, result, sendInFlight, latest, cancelCall, snapshot>>
  BY DEF Delivery!UiPrepare, Delivery!UiPrepareFails, Delivery!UiSubmit, Delivery!UiSubmitFails,
     Delivery!slot, Delivery!calls
<1>1. \/ preparing' = nextId /\ nextId' = nextId + 1 /\ nextId \in 1 .. MaxRequests
         /\ UNCHANGED <<sendFile, ui>>
      \/ preparing' = 0 /\ UNCHANGED <<sendFile, nextId, ui>>
      \/ /\ preparing # 0 /\ preparing' = 0 /\ sendFile' = preparing /\ UNCHANGED nextId
         /\ ui' = Delivery!Transfer(preparing, "queued", "none")
      \/ /\ preparing' = 0 /\ UNCHANGED <<sendFile, nextId>>
         /\ ui' = Delivery!Failed(preparing, "error")
  BY DEF Delivery!UiPrepare, Delivery!UiPrepareFails, Delivery!UiSubmit, Delivery!UiSubmitFails,
     Delivery!Apply, Delivery!Requests
<1>2. ui' \in Delivery!Transfers /\ Delivery!Told(ui')
  <2>1. Delivery!Told(ui)
    BY DEF Delivery!DeliveryInv, Delivery!CompletionIsTrue
  <2>2. QED
    BY <1>1, <2>1, DeliveryTypes, TransferTold, FailedTold
<1>3. sendFile' \in Ids /\ preparing' \in Ids /\ nextId' \in 1 .. MaxRequests + 1
  BY <1>1, DeliveryTypes DEF Ids
<1>4. Delivery!DeliveryType'
  BY <1>0, <1>2, <1>3 DEF Delivery!DeliveryInv, Delivery!DeliveryType, Delivery!RequestOrNone, Ids
<1>5. Delivery!HandedOnce'
  <2>1. /\ sendFile' < nextId' /\ preparing' < nextId'
        /\ preparing' # 0 => preparing' # sendFile'
    BY <1>1, DeliveryTypes DEF Delivery!DeliveryInv, Delivery!HandedOnce, Ids
  <2>2. ASSUME NEW r \in Delivery!Requests, r \in {sendFile', preparing'} \/ r >= nextId'
        PROVE  r \in {sendFile, preparing} \/ r >= nextId
    BY <1>1, <2>2, DeliveryTypes DEF Delivery!Requests, Ids
  <2>3. QED
    BY <1>0, <2>1, <2>2 DEF Delivery!DeliveryInv, Delivery!HandedOnce, Delivery!Requests
<1>6. Delivery!OneSend'
  BY <1>0 DEF Delivery!DeliveryInv, Delivery!OneSend
<1>7. Delivery!CompletionIsTrue'
  BY <1>0, <1>2 DEF Delivery!DeliveryInv, Delivery!CompletionIsTrue, Delivery!Told
<1>8. QED
  BY <1>4, <1>5, <1>6, <1>7 DEF Delivery!DeliveryInv

\* The extension takes a request out of the file: it has no call yet, and no other call
\* is under way when it gets one.
LEMMA ProcessInv ==
  ASSUME Delivery!DeliveryInv, NEW t \in Delivery!Transfers, Delivery!Told(t),
         Delivery!ProcessRequests(t), UNCHANGED <<ui, preparing, nextId>>,
         snapshot' \in Snapshots, Delivery!Told(snapshot'.transfer)
  PROVE  Delivery!DeliveryInv'
<1>0. PICK valid \in BOOLEAN :
        /\ latest' \in {t, Delivery!Transfer(sendFile, "queued", "none"),
                        Delivery!Failed(sendFile, "error")}
        /\ \/ /\ sendFile # 0 /\ sendInFlight = 0 /\ sendFile' = 0
              /\ Delivery!Call(sendFile) /\ sendInFlight' = sendFile
           \/ sendFile' \in {0, sendFile} /\ UNCHANGED <<task, sender, result, sendInFlight>>
        /\ \/ cancelCall' = [Delivery!NoCancel EXCEPT !.id = cancelFile, !.at = "called"]
              /\ latest'.id = cancelFile
           \/ UNCHANGED cancelCall
  BY DEF Delivery!ProcessRequests, Delivery!SendTaken, Delivery!CancelTaken, Delivery!slot
<1>a. sendFile \in Ids /\ sendInFlight \in Ids /\ preparing \in Ids /\ 0 \in Ids
  BY DeliveryTypes DEF Ids
<1>1. latest' \in Delivery!Transfers /\ Delivery!Told(latest')
  BY <1>0, <1>a, TransferTold, FailedTold
<1>2. cancelCall' \in CancelCalls /\ Delivery!Told(cancelCall'.answer)
  <2>1. CASE UNCHANGED cancelCall
    BY <2>1, DeliveryTypes DEF Delivery!DeliveryInv, Delivery!CompletionIsTrue
  <2>2. CASE /\ cancelCall' = [Delivery!NoCancel EXCEPT !.id = cancelFile, !.at = "called"]
             /\ latest'.id = cancelFile
    <3>1. cancelFile \in Ids
      BY <1>1, <2>2, TransferParts
    <3>2. cancelCall' \in CancelCalls /\ cancelCall'.answer = Delivery!NoTransfer
      BY <2>2, <3>1, NoTransferTold DEF Delivery!NoCancel, CancelCalls
    <3>3. QED
      BY <3>2, NoTransferTold
  <2>3. QED
    BY <1>0, <2>1, <2>2
<1>3. CASE sendFile' \in {0, sendFile} /\ UNCHANGED <<task, sender, result, sendInFlight>>
  <2>1. Delivery!DeliveryType'
    BY <1>1, <1>2, <1>3, <1>a DEF Delivery!DeliveryInv, Delivery!DeliveryType,
       Delivery!RequestOrNone, Ids, CancelCalls, Snapshots
  <2>2. Delivery!HandedOnce'
    <3>1. sendFile' < nextId' /\ preparing' < nextId'
      BY <1>3, <1>a, DeliveryTypes DEF Delivery!DeliveryInv, Delivery!HandedOnce, Ids
    <3>2. QED
      BY <1>3, <3>1 DEF Delivery!DeliveryInv, Delivery!HandedOnce, Delivery!Requests
  <2>3. Delivery!OneSend'
    BY <1>3 DEF Delivery!DeliveryInv, Delivery!OneSend
  <2>4. Delivery!CompletionIsTrue'
    BY <1>1, <1>2, <1>3 DEF Delivery!DeliveryInv, Delivery!CompletionIsTrue, Delivery!Told
  <2>5. QED
    BY <2>1, <2>2, <2>3, <2>4 DEF Delivery!DeliveryInv
<1>4. CASE /\ sendFile # 0 /\ sendInFlight = 0 /\ sendFile' = 0
           /\ Delivery!Call(sendFile) /\ sendInFlight' = sendFile
  <2>0. /\ UNCHANGED <<task, result>> /\ sender' = [sender EXCEPT ![sendFile] = "called"]
        /\ sender[sendFile] = "none" /\ sendFile \in 1 .. MaxRequests
    BY <1>4, <1>a DEF Delivery!Call, Ids
  <2>1. /\ sender' \in [1 .. MaxRequests -> {"none", "called", "running", "done"}]
        /\ sender'[sendFile] = "called"
        /\ \A r \in 1 .. MaxRequests : r # sendFile => sender'[r] = sender[r]
    BY <2>0, DeliveryTypes
  <2>2. Delivery!DeliveryType'
    BY <1>1, <1>2, <1>4, <1>a, <2>0, <2>1 DEF Delivery!DeliveryInv, Delivery!DeliveryType,
       Delivery!RequestOrNone, Delivery!Requests, Ids, CancelCalls, Snapshots
  <2>3. Delivery!HandedOnce'
    <3>1. sendFile < nextId /\ preparing < nextId /\ (preparing # 0 => preparing # sendFile)
      BY DEF Delivery!DeliveryInv, Delivery!HandedOnce
    <3>2. sendFile' < nextId' /\ preparing' < nextId' /\ (preparing' # 0 => preparing' # sendFile')
      BY <1>4, <3>1, DeliveryTypes
    <3>3. ASSUME NEW r \in 1 .. MaxRequests, r \in {sendFile', preparing'} \/ r >= nextId'
          PROVE  sender'[r] = "none"
      <4>1. r # sendFile /\ (r = preparing \/ r >= nextId)
        BY <1>4, <1>a, <3>1, <3>3, DeliveryTypes DEF Ids
      <4>2. sender[r] = "none"
        BY <4>1 DEF Delivery!DeliveryInv, Delivery!HandedOnce, Delivery!Requests
      <4>3. QED
        BY <2>1, <4>1, <4>2
    <3>4. QED
      BY <3>2, <3>3 DEF Delivery!HandedOnce, Delivery!Requests
  <2>4. Delivery!OneSend'
    <3>1. \A r \in 1 .. MaxRequests : sender[r] \notin {"called", "running"}
      BY <1>4 DEF Delivery!DeliveryInv, Delivery!OneSend, Delivery!Requests
    <3>2. ~Delivery!Active(task)
      BY <3>1 DEF Delivery!DeliveryInv, Delivery!OneSend, Delivery!Requests
    <3>3. ~Delivery!Active(task)'
      BY <2>0, <3>2 DEF Delivery!Active
    <3>4. \A r \in 1 .. MaxRequests : sender'[r] \in {"called", "running"} => r = sendFile
      BY <2>1, <3>1
    <3>5. QED
      BY <1>4, <2>1, <3>3, <3>4 DEF Delivery!OneSend, Delivery!Requests
  <2>5. Delivery!CompletionIsTrue'
    <3>1. \A r \in 1 .. MaxRequests : sender[r] = "done" => sender'[r] = "done" /\ result'[r] = result[r]
      BY <2>0, <2>1
    <3>2. QED
      BY <1>1, <1>2, <2>0, <3>1 DEF Delivery!DeliveryInv, Delivery!CompletionIsTrue, Delivery!Told,
         Delivery!Requests
  <2>6. QED
    BY <2>2, <2>3, <2>4, <2>5 DEF Delivery!DeliveryInv
<1>5. QED
  BY <1>0, <1>3, <1>4

\* Both timers process requests, the second with the copy the snapshot brought.
LEMMA TimerInv ==
  ASSUME Delivery!DeliveryInv, Delivery!RequestTick \/ Delivery!SnapshotDone
  PROVE  Delivery!DeliveryInv'
<1>0. UNCHANGED <<ui, preparing, nextId>>
  BY DEF Delivery!RequestTick, Delivery!SnapshotDone, Delivery!uiVars
<1>1. /\ Delivery!Told(latest) /\ Delivery!Told(snapshot.transfer)
      /\ latest \in Delivery!Transfers /\ snapshot.transfer \in Delivery!Transfers
  BY DeliveryTypes DEF Delivery!DeliveryInv, Delivery!CompletionIsTrue, Snapshots
<1>2. CASE Delivery!RequestTick
  BY <1>0, <1>1, <1>2, ProcessInv, DeliveryTypes DEF Delivery!RequestTick
<1>3. CASE Delivery!SnapshotDone
  <2>1. snapshot' \in Snapshots /\ Delivery!Told(snapshot'.transfer)
    BY <1>3, NoTransferTold DEF Delivery!SnapshotDone, Delivery!NoSnapshot, Snapshots
  <2>2. QED
    BY <1>0, <1>1, <1>3, <2>1, ProcessInv DEF Delivery!SnapshotDone
<1>4. QED
  BY <1>2, <1>3

\* The promise of a send settles: its answer counts if it is of this very request, and
\* then it is what the call returned.
LEMMA SendDoneInv ==
  ASSUME Delivery!DeliveryInv, Delivery!SendDone
  PROVE  Delivery!DeliveryInv'
<1>0. /\ UNCHANGED <<task, sender, result, sendFile, preparing, nextId, ui, cancelCall, snapshot>>
      /\ sendInFlight # 0 /\ sender[sendInFlight] = "done" /\ sendInFlight' = 0
  BY DEF Delivery!SendDone, Delivery!slot, Delivery!uiVars
<1>1. sendInFlight \in 1 .. MaxRequests /\ sendInFlight \in Ids
  BY <1>0, DeliveryTypes DEF Ids
<1>2. \/ latest' = Delivery!Failed(sendInFlight, "error")
      \/ latest' = result[sendInFlight] /\ latest'.id = sendInFlight
  BY DEF Delivery!SendDone
<1>3. latest' \in Delivery!Transfers /\ Delivery!Told(latest')
  <2>1. CASE latest' = Delivery!Failed(sendInFlight, "error")
    BY <1>1, <2>1, FailedTold
  <2>2. CASE latest' = result[sendInFlight] /\ latest'.id = sendInFlight
    BY <1>0, <1>1, <2>2, DeliveryTypes DEF Delivery!Told, Delivery!Requests
  <2>3. QED
    BY <1>2, <2>1, <2>2
<1>4. Delivery!DeliveryType'
  BY <1>0, <1>3 DEF Delivery!DeliveryInv, Delivery!DeliveryType, Delivery!RequestOrNone
<1>5. Delivery!HandedOnce'
  BY <1>0 DEF Delivery!DeliveryInv, Delivery!HandedOnce
<1>6. Delivery!OneSend'
  <2>1. \A r \in 1 .. MaxRequests : sender[r] \notin {"called", "running"}
    BY <1>0, <1>1 DEF Delivery!DeliveryInv, Delivery!OneSend, Delivery!Requests
  <2>2. QED
    BY <1>0, <2>1 DEF Delivery!DeliveryInv, Delivery!OneSend, Delivery!Requests
<1>7. Delivery!CompletionIsTrue'
  BY <1>0, <1>3 DEF Delivery!DeliveryInv, Delivery!CompletionIsTrue, Delivery!Told
<1>8. QED
  BY <1>4, <1>5, <1>6, <1>7 DEF Delivery!DeliveryInv
-----------------------------------------------------------------------------
(* The native code *)

\* A step of the native code moves one call that is under way, or the record: results of
\* calls that have returned stay, and the record stays its call's.
LEMMA NativeStepInv ==
  ASSUME Delivery!DeliveryInv, NEW r \in 1 .. MaxRequests,
         UNCHANGED <<sendFile, sendInFlight, preparing, nextId, latest, ui, snapshot>>,
         cancelCall' \in CancelCalls, cancelCall'.answer = cancelCall.answer,
         task' \in Delivery!Transfers, NEW s \in {"running", "done"},
         sender[r] \in {"called", "running"}, sender' = [sender EXCEPT ![r] = s],
         result' \in [1 .. MaxRequests -> Delivery!Transfers],
         \A q \in 1 .. MaxRequests : q # r => result'[q] = result[q],
         Delivery!Active(task') => s = "running" /\ task'.id = r,
         task'.state = "completed" =>
           task' = task \/ (s = "done" /\ task'.id = r /\ result'[r] = task')
  PROVE  Delivery!DeliveryInv'
<1>1. /\ sender' \in [1 .. MaxRequests -> {"none", "called", "running", "done"}]
      /\ sender'[r] = s /\ \A q \in 1 .. MaxRequests : q # r => sender'[q] = sender[q]
  BY DeliveryTypes
<1>2. Delivery!DeliveryType'
  BY <1>1 DEF Delivery!DeliveryInv, Delivery!DeliveryType, Delivery!RequestOrNone,
     Delivery!Requests, Ids, CancelCalls
<1>3. Delivery!HandedOnce'
  <2>1. \A q \in 1 .. MaxRequests : sender[q] = "none" => sender'[q] = "none"
    BY <1>1
  <2>2. QED
    BY <2>1 DEF Delivery!DeliveryInv, Delivery!HandedOnce, Delivery!Requests
<1>4. Delivery!OneSend'
  <2>1. sendInFlight = r
    BY DEF Delivery!DeliveryInv, Delivery!OneSend, Delivery!Requests
  <2>2. \A q \in 1 .. MaxRequests : sender'[q] \in {"called", "running"} => sendInFlight = q
    BY <1>1, <2>1 DEF Delivery!DeliveryInv, Delivery!OneSend, Delivery!Requests
  <2>3. Delivery!Active(task)' => task'.id \in 1 .. MaxRequests /\ sender'[task'.id] = "running"
    BY <1>1 DEF Delivery!Active
  <2>4. QED
    BY <1>1, <2>1, <2>2, <2>3 DEF Delivery!OneSend, Delivery!Requests
<1>5. Delivery!CompletionIsTrue'
  <2>1. \A q \in 1 .. MaxRequests : sender[q] = "done" => sender'[q] = "done" /\ result'[q] = result[q]
    BY <1>1
  <2>2. ASSUME NEW t, Delivery!Told(t)
        PROVE  t.state = "completed" => /\ t.id \in 1 .. MaxRequests /\ sender'[t.id] = "done"
                                        /\ result'[t.id] = t
    BY <2>1, <2>2 DEF Delivery!Told, Delivery!Requests
  <2>3. /\ Delivery!Told(task) /\ Delivery!Told(latest) /\ Delivery!Told(ui)
        /\ Delivery!Told(snapshot.transfer) /\ Delivery!Told(cancelCall.answer)
    BY DEF Delivery!DeliveryInv, Delivery!CompletionIsTrue
  <2>4. Delivery!Told(task)'
    BY <1>1, <2>2, <2>3 DEF Delivery!Told, Delivery!Requests
  <2>5. Delivery!Told(latest)' /\ Delivery!Told(ui)' /\ Delivery!Told(snapshot.transfer)'
    BY <2>2, <2>3 DEF Delivery!Told, Delivery!Requests
  <2>6. Delivery!Told(cancelCall.answer)'
    BY <2>2, <2>3 DEF Delivery!Told, Delivery!Requests
  <2>7. QED
    BY <2>4, <2>5, <2>6 DEF Delivery!CompletionIsTrue
<1>6. QED
  BY <1>2, <1>3, <1>4, <1>5 DEF Delivery!DeliveryInv

\* taildropSend: refused, begun, under way, or settled with its own outcome or with the
\* one that a cancel had set.
LEMMA NativeSendInv ==
  ASSUME Delivery!DeliveryInv, NEW r \in 1 .. MaxRequests, Delivery!NativeSend(r)
  PROVE  Delivery!DeliveryInv'
<1>0. /\ UNCHANGED <<sendFile, sendInFlight, preparing, nextId, latest, ui, snapshot, cancelCall>>
      /\ \/ Delivery!Refuse(r) \/ Delivery!Begin(r) \/ Delivery!Progress(r)
         \/ Delivery!Settle(r)
  BY DEF Delivery!NativeSend, Delivery!calls, Delivery!uiVars
<1>a. cancelCall' \in CancelCalls /\ cancelCall'.answer = cancelCall.answer /\ r \in Ids
  BY <1>0, DeliveryTypes DEF Ids
<1>b. /\ sender \in [1 .. MaxRequests -> {"none", "called", "running", "done"}]
      /\ result \in [1 .. MaxRequests -> Delivery!Transfers]
  BY DeliveryTypes
<1>1. CASE Delivery!Refuse(r)
  <2> DEFINE t == Delivery!Failed(r, "error")
  <2>0. /\ sender[r] = "called" /\ sender' = [sender EXCEPT ![r] = "done"]
        /\ task' = t /\ result' = [result EXCEPT ![r] = t]
    BY <1>1 DEF Delivery!Refuse
  <2>1. t \in Delivery!Transfers /\ t.state = "failed"
    BY <1>a, FailedTold
  <2> HIDE DEF t
  <2>2. ~Delivery!Active(task') /\ task'.state # "completed"
    BY <2>0, <2>1 DEF Delivery!Active
  <2>3. /\ result' \in [1 .. MaxRequests -> Delivery!Transfers]
        /\ \A q \in 1 .. MaxRequests : q # r => result'[q] = result[q]
    BY <1>b, <2>0, <2>1
  <2>4. QED
    BY <1>0, <1>a, <2>0, <2>1, <2>2, <2>3, NativeStepInv
<1>2. CASE Delivery!Begin(r)
  <2> DEFINE t == Delivery!Transfer(r, "queued", "none")
  <2>0. /\ sender[r] = "called" /\ sender' = [sender EXCEPT ![r] = "running"]
        /\ task' = t /\ result' = result
    BY <1>2 DEF Delivery!Begin
  <2>1. t \in Delivery!Transfers /\ t.state = "queued" /\ t.id = r
    BY <1>a, TransferTold
  <2> HIDE DEF t
  <2>2. QED
    BY <1>0, <1>a, <1>b, <2>0, <2>1, NativeStepInv
<1>3. CASE Delivery!Progress(r)
  <2> DEFINE t == Delivery!Transfer(r, "sending", "none")
  <2>0. /\ sender[r] = "running" /\ sender' = sender /\ task' = t /\ result' = result
    BY <1>3 DEF Delivery!Progress
  <2>1. t \in Delivery!Transfers /\ t.state = "sending" /\ t.id = r
    BY <1>a, TransferTold
  <2> HIDE DEF t
  <2>2. sender' = [sender EXCEPT ![r] = "running"]
    BY <1>b, <2>0
  <2>3. QED
    BY <1>0, <1>a, <1>b, <2>0, <2>1, <2>2, NativeStepInv
<1>4. CASE Delivery!Settle(r)
  <2>0. /\ sender[r] = "running" /\ sender' = [sender EXCEPT ![r] = "done"]
        /\ result' = [result EXCEPT ![r] = task']
        /\ \/ ~Delivery!Active(task) /\ task' = task
           \/ task' = Delivery!Transfer(r, "completed", "none")
           \/ \E reason \in {"error", "cancelled"} : task' = Delivery!Failed(r, reason)
    BY <1>4 DEF Delivery!Settle
  <2>1. task' \in Delivery!Transfers /\ ~Delivery!Active(task')
        /\ (task'.state = "completed" => task' = task \/ task'.id = r)
    <3>1. CASE ~Delivery!Active(task) /\ task' = task
      BY <3>1, DeliveryTypes DEF Delivery!Active
    <3>2. CASE task' = Delivery!Transfer(r, "completed", "none")
      BY <1>a, <3>2, TransferTold DEF Delivery!Active
    <3>3. CASE \E reason \in {"error", "cancelled"} : task' = Delivery!Failed(r, reason)
      BY <1>a, <3>3, FailedTold DEF Delivery!Active
    <3>4. QED
      BY <2>0, <3>1, <3>2, <3>3
  <2>2. /\ result' \in [1 .. MaxRequests -> Delivery!Transfers] /\ result'[r] = task'
        /\ \A q \in 1 .. MaxRequests : q # r => result'[q] = result[q]
    BY <1>b, <2>0, <2>1
  <2>3. QED
    BY <1>0, <1>a, <2>0, <2>1, <2>2, NativeStepInv
<1>5. QED
  BY <1>0, <1>1, <1>2, <1>3, <1>4

\* A cancel of the user, or of a stop, fails the active record and leaves the call to find
\* out.
LEMMA NativeCancelInv ==
  ASSUME Delivery!DeliveryInv, Delivery!NativeCancel \/ Delivery!NativeStop
  PROVE  Delivery!DeliveryInv'
<1>0. /\ UNCHANGED <<sendFile, sendInFlight, preparing, nextId, latest, ui, snapshot>>
      /\ \/ \E reason \in {"cancelled", "disconnected"} : Delivery!Cancel(reason)
         \/ UNCHANGED <<task, sender, result>>
      /\ cancelCall' = cancelCall \/ cancelCall' = [cancelCall EXCEPT !.at = "cancelled"]
  BY DEF Delivery!NativeCancel, Delivery!NativeStop, Delivery!calls, Delivery!uiVars, Delivery!slot
<1>1. cancelCall' \in CancelCalls /\ cancelCall'.answer = cancelCall.answer
  BY <1>0, DeliveryTypes DEF CancelCalls
<1>2. CASE UNCHANGED <<task, sender, result>>
  BY <1>0, <1>1, <1>2, DeliveryTypes, StoreInv DEF Delivery!DeliveryInv, Delivery!CompletionIsTrue
<1>3. ASSUME NEW reason \in {"cancelled", "disconnected"}, Delivery!Cancel(reason)
      PROVE  Delivery!DeliveryInv'
  <2> DEFINE t == Delivery!Failed(task.id, reason)
  <2>0. /\ Delivery!Active(task) /\ task' = t /\ UNCHANGED <<sender, result>>
    BY <1>3 DEF Delivery!Cancel
  <2>1. task.id \in 1 .. MaxRequests /\ sender[task.id] = "running" /\ task.id \in Ids
    BY <2>0 DEF Delivery!DeliveryInv, Delivery!OneSend, Delivery!Requests, Ids
  <2>2. t \in Delivery!Transfers /\ t.state = "failed"
    BY <2>1, FailedTold
  <2> HIDE DEF t
  <2>3. ~Delivery!Active(task') /\ task'.state # "completed"
    BY <2>0, <2>2 DEF Delivery!Active
  <2>4. /\ sender' = [sender EXCEPT ![task.id] = "running"]
        /\ result' \in [1 .. MaxRequests -> Delivery!Transfers]
    BY <2>0, <2>1, DeliveryTypes
  <2>5. QED
    BY <1>0, <1>1, <2>0, <2>1, <2>2, <2>3, <2>4, NativeStepInv
<1>4. QED
  BY <1>0, <1>2, <1>3
-----------------------------------------------------------------------------
\* Every step keeps the invariant of the delivery.
LEMMA DeliveryNextInv ==
  Delivery!DeliveryInv /\ [Delivery!Next]_(Delivery!vars) => Delivery!DeliveryInv'
<1> SUFFICES ASSUME Delivery!DeliveryInv, [Delivery!Next]_(Delivery!vars)
             PROVE  Delivery!DeliveryInv'
  OBVIOUS
<1>1. CASE Delivery!NativeStep
  BY <1>1, NativeSendInv, NativeCancelInv, CopyInv DEF Delivery!NativeStep, Delivery!Requests
<1>2. CASE Delivery!HandlerStep
  BY <1>2, TimerInv, CopyInv, SendDoneInv DEF Delivery!HandlerStep
<1>3. CASE Delivery!UiStep
  BY <1>3, UiRequestInv, UiShowsInv DEF Delivery!UiStep
<1>4. CASE UNCHANGED Delivery!vars
  <2>1. UNCHANGED <<task, sender, result, sendFile, sendInFlight, preparing, nextId, latest, ui,
                    cancelCall, snapshot>>
    BY <1>4 DEF Delivery!vars, Delivery!slot, Delivery!calls, Delivery!uiVars
  <2>2. QED
    BY <2>1, DeliveryTypes, StoreInv DEF Delivery!DeliveryInv, Delivery!CompletionIsTrue
<1>5. QED
  BY <1>1, <1>2, <1>3, <1>4, CopyInv, UiShowsInv DEF Delivery!Next

\* A send request is handed to the native code once and while no other send is under way,
\* and a completion that the extension's file, a snapshot, a cancel's answer or the UI
\* tells of is the one that send returned: for any number of requests, with snapshots
\* and promises that arrive late and out of order, lost requests, cancels and stops.
THEOREM DeliveryTrue == Delivery!Spec => []Delivery!DeliveryInv
<1>1. Delivery!Init => Delivery!DeliveryInv
  <2> SUFFICES ASSUME Delivery!Init PROVE Delivery!DeliveryInv
    OBVIOUS
  <2>1. /\ task = Delivery!NoTransfer /\ latest = Delivery!NoTransfer /\ ui = Delivery!NoTransfer
        /\ cancelCall = Delivery!NoCancel /\ snapshot = Delivery!NoSnapshot
        /\ sendFile = 0 /\ sendInFlight = 0 /\ preparing = 0 /\ nextId = 1
        /\ sender = [r \in 1 .. MaxRequests |-> "none"]
        /\ result = [r \in 1 .. MaxRequests |-> Delivery!NoTransfer]
    BY DEF Delivery!Init, Delivery!SlotInit, Delivery!Requests
  <2>2. Delivery!NoCancel \in CancelCalls /\ Delivery!NoCancel.answer = Delivery!NoTransfer
    BY NoTransferTold DEF Delivery!NoCancel, CancelCalls, Ids
  <2>3. Delivery!NoSnapshot \in Snapshots /\ Delivery!NoSnapshot.transfer = Delivery!NoTransfer
    BY NoTransferTold DEF Delivery!NoSnapshot, Snapshots
  <2>4. Delivery!DeliveryType
    BY <2>1, <2>2, <2>3, NoTransferTold DEF Delivery!DeliveryType, Delivery!Requests,
       Delivery!RequestOrNone, CancelCalls, Snapshots, Ids
  <2>5. Delivery!HandedOnce
    BY <2>1 DEF Delivery!HandedOnce, Delivery!Requests
  <2>6. Delivery!OneSend
    BY <2>1, NoTransferTold DEF Delivery!OneSend, Delivery!Requests, Delivery!Active
  <2>7. Delivery!CompletionIsTrue
    BY <2>1, <2>2, <2>3, NoTransferTold DEF Delivery!CompletionIsTrue
  <2>8. QED
    BY <2>4, <2>5, <2>6, <2>7 DEF Delivery!DeliveryInv
<1>2. QED
  BY <1>1, DeliveryNextInv, PTL DEF Delivery!Spec

\* A send that the extension makes never finds the record of another one active, as
\* TaildropSlot takes for granted: it begins, or is refused for a reason of its own, and
\* is never turned away as busy.
THEOREM NeverBusy ==
  Delivery!Spec => [](\A r \in 1 .. MaxRequests : sender[r] = "called" => ~Delivery!Active(task))
<1>1. Delivery!DeliveryInv
        => \A r \in 1 .. MaxRequests : sender[r] = "called" => ~Delivery!Active(task)
  <2> SUFFICES ASSUME Delivery!DeliveryInv, NEW r \in 1 .. MaxRequests, sender[r] = "called",
                      Delivery!Active(task)
               PROVE  FALSE
    OBVIOUS
  <2>1. sendInFlight = r /\ task.id \in 1 .. MaxRequests /\ sender[task.id] = "running"
    BY DEF Delivery!DeliveryInv, Delivery!OneSend, Delivery!Requests
  <2>2. sendInFlight = task.id
    BY <2>1 DEF Delivery!DeliveryInv, Delivery!OneSend, Delivery!Requests
  <2>3. QED
    BY <2>1, <2>2
<1>2. QED
  BY <1>1, DeliveryTrue, PTL
=============================================================================
