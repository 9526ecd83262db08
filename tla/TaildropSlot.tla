---------------------------- MODULE TaildropSlot ----------------------------
(***************************************************************************)
(* What the Go backend promises about outgoing Taildrop transfers: one     *)
(* record, taken over by a send only while it is not active, moved on by   *)
(* that send alone, and settled once.  TaildropTransfer implements it and  *)
(* TaildropDelivery is built on it.                                        *)
(*                                                                         *)
(* A transfer is its request id, its state and the reason of its failure.  *)
(* Every failure other than a cancellation or a disconnection has the      *)
(* reason "error".                                                         *)
(***************************************************************************)
EXTENDS Naturals

CONSTANT MaxRequests  \* how many sends there are
ASSUME RequestsAssumption == MaxRequests \in Nat

Requests == 1 .. MaxRequests
RequestOrNone == 0 .. MaxRequests

VARIABLES
    task,     \* b.taildropTask
    sender,   \* the progress of each request's taildropSend call
    result    \* what that call returned

slot == <<task, sender, result>>

Transfer(r, state, reason) == [id |-> r, state |-> state, reason |-> reason]
NoTransfer == Transfer(0, "idle", "none")
Failed(r, reason) == Transfer(r, "failed", reason)

Reasons == {"none", "cancelled", "disconnected", "error"}
Transfers == [id : RequestOrNone,
              state : {"idle", "queued", "sending", "completed", "failed"},
              reason : Reasons]

Active(t) == t.state \in {"queued", "sending"}
Terminal(t) == t.state \in {"completed", "failed"}

SlotInit ==
    /\ task = NoTransfer
    /\ sender = [r \in Requests |-> "none"]
    /\ result = [r \in Requests |-> NoTransfer]

Call(r) ==
    /\ sender[r] = "none"
    /\ sender' = [sender EXCEPT ![r] = "called"]
    /\ UNCHANGED <<task, result>>

\* No send finds another one's record active, so none is refused as busy.  One that
\* cannot begin replaces the record ...
Refuse(r) ==
    /\ sender[r] = "called" /\ ~Active(task)
    /\ sender' = [sender EXCEPT ![r] = "done"]
    /\ task' = Failed(r, "error")
    /\ result' = [result EXCEPT ![r] = Failed(r, "error")]

\* ... and one that can takes it over.
Begin(r) ==
    /\ sender[r] = "called" /\ ~Active(task)
    /\ sender' = [sender EXCEPT ![r] = "running"]
    /\ task' = Transfer(r, "queued", "none")
    /\ UNCHANGED result

Progress(r) ==
    /\ sender[r] = "running"
    /\ task.id = r /\ Active(task)
    /\ task' = Transfer(r, "sending", "none")
    /\ UNCHANGED <<sender, result>>

\* A send ends with the outcome it reached, or with the one a cancel had set.
Settle(r) ==
    /\ sender[r] = "running"
    /\ sender' = [sender EXCEPT ![r] = "done"]
    /\ IF Active(task)
       THEN \E t \in {Transfer(r, "completed", "none"), Failed(r, "error"),
                      Failed(r, "cancelled")} : task' = t
       ELSE UNCHANGED task
    /\ result' = [result EXCEPT ![r] = task']

\* The user's cancel, or stop.
Cancel(reason) ==
    /\ Active(task)
    /\ task' = Failed(task.id, reason)
    /\ UNCHANGED <<sender, result>>

SlotNext ==
    \/ \E r \in Requests : Call(r) \/ Refuse(r) \/ Begin(r) \/ Progress(r) \/ Settle(r)
    \/ \E reason \in {"cancelled", "disconnected"} : Cancel(reason)

SlotSpec == SlotInit /\ [][SlotNext]_slot
=============================================================================
