-------------------------- MODULE TaildropDelivery --------------------------
(***************************************************************************)
(* How the outcome of a Taildrop send reaches the user.  Three parties     *)
(* share two request files and a snapshot file:                            *)
(*                                                                         *)
(*  - the UI (BridgeStatus.ets) writes a send or a cancel request and      *)
(*    polls the snapshot file;                                             *)
(*  - the VPN extension (TailscaleVpnExtensionAbility.ets) turns request   *)
(*    files into native calls and stores in the snapshot file what those   *)
(*    return, and also what a periodic backend snapshot returns;           *)
(*  - the Go backend is TaildropSlot, which TaildropTransfer implements.   *)
(*                                                                         *)
(* A request file is its request id, 0 when it is empty.                   *)
(***************************************************************************)
EXTENDS TaildropSlot

CONSTANTS
    StopBefore,   \* the VPN is disconnected before the request of this id is made
    MaxRecords    \* up to which number the history counts a request's records

VARIABLES
    sendFile,     \* the send request file
    cancelFile,   \* the cancel request file
    sendInFlight, \* taildropSendInFlight: the request it is for, or 0
    cancelCall,   \* taildropCancelInFlight: the request, and where the call is
    latest,       \* latestTaildropSnapshot.transfer, as in the file the UI reads
    snapshot,     \* the backendSnapshot call in flight
    phase,        \* the extension: up, stopping or having stopped the backend, gone
    ui,           \* the UI's taildropTransfer
    preparing,    \* taildropPreparing: the request being prepared, or 0
    cancelPending, \* taildropCancelPending
    lastHandled,  \* lastHandledTaildropRequestId
    nextId,       \* the next request id (the code takes the clock)
    records       \* how often each request entered the history, up to MaxRecords

calls == <<sendInFlight, cancelCall, snapshot>>
uiVars == <<ui, preparing, cancelPending, lastHandled, nextId, records>>
vars == <<slot, sendFile, cancelFile, calls, latest, phase, uiVars>>

connected == phase = "up"
ticking == phase \in {"up", "stopped"}  \* ~destroying /\ ~backendStopInFlight
destroyed == phase = "destroyed"

NoCancel == [id |-> 0, at |-> "idle", answer |-> NoTransfer]
NoSnapshot == [at |-> "idle", transfer |-> NoTransfer]

Init ==
    /\ SlotInit
    /\ sendFile = 0 /\ cancelFile = 0
    /\ sendInFlight = 0 /\ cancelCall = NoCancel
    /\ latest = NoTransfer
    /\ snapshot = NoSnapshot
    /\ phase = "up"
    /\ ui = NoTransfer /\ preparing = 0 /\ cancelPending = FALSE
    /\ lastHandled = 0 /\ nextId = 1
    /\ records = [r \in Requests |-> 0]
-----------------------------------------------------------------------------
(* Worker threads *)

\* taildropSend.  One that read the client before stop may begin after it.
NativeSend(r) ==
    /\ Refuse(r) \/ Begin(r) \/ Progress(r) \/ Settle(r)
    /\ UNCHANGED <<sendFile, cancelFile, calls, latest, phase, uiVars>>

\* taildropCancel: it takes no request id.  It fails whatever transfer is active
\* and afterwards reads the record for its answer.
NativeCancel ==
    /\ cancelCall.at = "called"
    /\ Cancel("cancelled") \/ (~Active(task) /\ UNCHANGED slot)
    /\ cancelCall' = [cancelCall EXCEPT !.at = "cancelled"]
    /\ UNCHANGED <<sendFile, cancelFile, sendInFlight, snapshot, latest, phase, uiVars>>

NativeCancelAnswers ==
    /\ cancelCall.at = "cancelled"
    /\ cancelCall' = [cancelCall EXCEPT !.at = "answered", !.answer = task]
    /\ UNCHANGED <<slot, sendFile, cancelFile, sendInFlight, snapshot, latest, phase,
                   uiVars>>

\* snapshot() copies the record and then queries targets and inbox, for seconds.
NativeSnapshot ==
    /\ snapshot.at = "called"
    /\ snapshot' = [at |-> "read", transfer |-> task]
    /\ UNCHANGED <<slot, sendFile, cancelFile, sendInFlight, cancelCall, latest, phase,
                   uiVars>>

\* stop() begins by cancelling the active transfer.
NativeStop ==
    /\ phase = "stopping"
    /\ Cancel("disconnected") \/ (~Active(task) /\ UNCHANGED slot)
    /\ phase' = "stopped"
    /\ UNCHANGED <<sendFile, cancelFile, calls, latest, uiVars>>
-----------------------------------------------------------------------------
(* Handlers of the extension's JavaScript thread *)

\* processTaildropSendRequest followed by processTaildropCancelRequest, in a
\* handler that has stored transfer t.  A request that fails the extension's
\* validation is stored as failed and goes no further; a cancel is dropped unless
\* the stored transfer is the active one it names.
SendTaken == sendFile # 0 /\ sendInFlight = 0
CancelTaken == cancelFile # 0 /\ cancelCall.at = "idle"

ProcessRequests(t) ==
    \E valid \in BOOLEAN :
        LET stored == IF ~SendTaken THEN t
                      ELSE IF valid THEN Transfer(sendFile, "queued", "none")
                      ELSE Failed(sendFile, "error")
        IN
        /\ latest' = stored
        /\ IF SendTaken
           THEN /\ sendFile' = 0
                /\ IF valid
                   THEN Call(sendFile) /\ sendInFlight' = sendFile
                   ELSE UNCHANGED <<slot, sendInFlight>>
           ELSE UNCHANGED <<slot, sendFile, sendInFlight>>
        /\ IF CancelTaken
           THEN /\ cancelFile' = 0
                /\ cancelCall' = IF stored.id = cancelFile /\ Active(stored)
                                 THEN [NoCancel EXCEPT !.id = cancelFile, !.at = "called"]
                                 ELSE cancelCall
           ELSE UNCHANGED <<cancelFile, cancelCall>>

\* The request timer, every 100 ms.
RequestTick ==
    /\ ticking
    /\ SendTaken \/ CancelTaken
    /\ ProcessRequests(latest)
    /\ UNCHANGED <<snapshot, phase, uiVars>>

\* The status timer, every second.
SnapshotBegin ==
    /\ ticking
    /\ snapshot.at = "idle"
    /\ snapshot' = [NoSnapshot EXCEPT !.at = "called"]
    /\ UNCHANGED <<slot, sendFile, cancelFile, sendInFlight, cancelCall, latest, phase,
                   uiVars>>

\* The snapshot arrives and its copy is stored, whatever was stored meanwhile; a
\* destroyed extension ignores it.
SnapshotDone ==
    /\ snapshot.at = "read" /\ ~destroyed
    /\ ProcessRequests(snapshot.transfer)
    /\ snapshot' = NoSnapshot
    /\ UNCHANGED <<phase, uiVars>>

\* A rejected snapshot keeps the stored transfer.
SnapshotFails ==
    /\ snapshot.at = "read"
    /\ snapshot' = NoSnapshot
    /\ UNCHANGED <<slot, sendFile, cancelFile, sendInFlight, cancelCall, latest, phase,
                   uiVars>>

\* backendTaildropSendAsync settles: the answer counts if the promise was not
\* rejected and it is a terminal record of this very request.
SendDoneResolved ==
    /\ sendInFlight # 0
    /\ sender[sendInFlight] = "done"
    /\ \E state \in {"completed", "failed"} :
         latest' = Transfer(sendInFlight, state, IF state = "failed" THEN "error" ELSE "none")
    /\ sendInFlight' = 0
    /\ UNCHANGED <<slot, sendFile, cancelFile, cancelCall, snapshot, phase, uiVars>>
SendDone ==
    /\ sendInFlight # 0
    /\ sender[sendInFlight] = "done"
    /\ \E answer \in {result[sendInFlight], Failed(sendInFlight, "error")} :
         latest' = IF answer.id = sendInFlight /\ Terminal(answer) THEN answer
                   ELSE Failed(sendInFlight, "error")
    /\ sendInFlight' = 0
    /\ UNCHANGED <<slot, sendFile, cancelFile, cancelCall, snapshot, phase, uiVars>>

\* backendTaildropCancelAsync settles: an answer about another request puts the
\* cancel request back, a rejection leaves everything to the next snapshot.
CancelDone ==
    /\ cancelCall.at = "answered"
    /\ \/ /\ cancelCall.answer.id = cancelCall.id
          /\ latest' = cancelCall.answer
          /\ UNCHANGED cancelFile
       \/ /\ cancelCall.answer.id # cancelCall.id
          /\ cancelFile' = cancelCall.id
          /\ UNCHANGED latest
       \/ UNCHANGED <<latest, cancelFile>>
    /\ cancelCall' = NoCancel
    /\ UNCHANGED <<slot, sendFile, sendInFlight, snapshot, phase, uiVars>>

\* stopVpnAndBackend or onDestroy calls stop; the extension that has stopped its
\* backend goes on ticking ...
BeginStop ==
    /\ ticking
    /\ nextId <= StopBefore
    /\ phase' = "stopping"
    /\ UNCHANGED <<slot, sendFile, cancelFile, calls, latest, uiVars>>

\* ... until onDestroy, once stop has returned, writes an unfinished transfer off.
Destroy ==
    /\ phase = "stopped"
    /\ phase' = "destroyed"
    /\ latest' = IF Active(latest) THEN Failed(latest.id, "disconnected") ELSE latest
    /\ UNCHANGED <<slot, sendFile, cancelFile, calls, uiVars>>

HandlerStep ==
    \/ RequestTick
    \/ SnapshotBegin
    \/ SnapshotDone
    \/ SendDone
    \/ CancelDone
-----------------------------------------------------------------------------
(* The UI *)

\* applyTaildropTransfer, past its rules for an idle record.
Apply(t) ==
    /\ ui' = t
    /\ cancelPending' = (cancelPending /\ Active(t))
    /\ IF Terminal(t) /\ t.id # lastHandled
       THEN /\ lastHandled' = t.id
            /\ records' = [records EXCEPT ![t.id] = IF @ < MaxRecords THEN @ + 1 ELSE @]
       ELSE UNCHANGED <<lastHandled, records>>

\* A poll of the snapshot file.  An idle record is ignored for five seconds after
\* a submission (recent) and afterwards fails a request that is still queued.
\* Once the extension is gone its file says so, and its transfer is not read.
UiPoll ==
    /\ ~destroyed
    /\ \E recent \in BOOLEAN :
         /\ ~(recent /\ latest.state = "idle" /\ Active(ui))
         /\ IF latest.state = "idle" /\ ui.state = "queued"
            THEN Apply(Failed(ui.id, "error"))
            ELSE Apply(latest)
    /\ UNCHANGED <<slot, sendFile, cancelFile, calls, latest, phase, preparing, nextId>>

\* resetTaildropSnapshot, when the UI finds the VPN disconnected.
UiDisconnectedWhileSending ==
    /\ ~connected /\ ui.state = "sending"
    /\ Apply(Failed(ui.id, "disconnected"))
    /\ UNCHANGED <<slot, sendFile, cancelFile, calls, latest, phase, preparing, nextId>>
UiDisconnected ==
    /\ ~connected /\ Active(ui)
    /\ Apply(Failed(ui.id, "disconnected"))
    /\ UNCHANGED <<slot, sendFile, cancelFile, calls, latest, phase, preparing, nextId>>

\* queueTaildropFiles: the guard, the awaited copy of the files, and the
\* submission, which does not look at the guard again.
UiPrepare ==
    /\ connected
    /\ preparing = 0 /\ ~Active(ui)
    /\ nextId \in Requests
    /\ preparing' = nextId
    /\ nextId' = nextId + 1
    /\ UNCHANGED <<slot, sendFile, cancelFile, calls, latest, phase, ui, cancelPending,
                   lastHandled, records>>

UiPrepareFails ==
    /\ preparing # 0
    /\ preparing' = 0
    /\ UNCHANGED <<slot, sendFile, cancelFile, calls, latest, phase, ui, cancelPending,
                   lastHandled, nextId, records>>

UiSubmit ==
    /\ preparing # 0
    /\ ui' = Transfer(preparing, "queued", "none")
    /\ sendFile' = preparing
    /\ preparing' = 0
    /\ UNCHANGED <<slot, cancelFile, calls, latest, phase, cancelPending, lastHandled,
                   nextId, records>>

\* The request file cannot be written.
UiSubmitFails ==
    /\ preparing # 0
    /\ Apply(Failed(preparing, "error"))
    /\ preparing' = 0
    /\ UNCHANGED <<slot, sendFile, cancelFile, calls, latest, phase, nextId>>

\* cancelTaildropSend.
UiCancel ==
    /\ ~cancelPending /\ Active(ui)
    /\ cancelFile' = ui.id
    /\ cancelPending' = TRUE
    /\ UNCHANGED <<slot, sendFile, calls, latest, phase, ui, preparing, lastHandled,
                   nextId, records>>

UiStep == UiPrepare \/ UiPrepareFails \/ UiSubmit \/ UiSubmitFails \/ UiCancel
-----------------------------------------------------------------------------
NativeStep ==
    \/ \E r \in Requests : NativeSend(r)
    \/ NativeCancel
    \/ NativeCancelAnswers
    \/ NativeSnapshot
    \/ NativeStop

Next ==
    \/ NativeStep
    \/ HandlerStep
    \/ SnapshotFails
    \/ BeginStop
    \/ Destroy
    \/ UiPoll
    \/ UiDisconnected
    \/ UiStep

\* Each worker thread makes progress and a send returns (TaildropTransfer says when);
\* timers keep firing and promises settle; snapshots do not fail for ever; the UI
\* keeps polling.
Fairness ==
    /\ WF_vars(NativeCancel \/ NativeCancelAnswers)
    /\ WF_vars(NativeSnapshot) /\ WF_vars(NativeStop)
    /\ \A r \in Requests : WF_vars(NativeSend(r) /\ sender'[r] # sender[r])
    /\ WF_vars(RequestTick) /\ WF_vars(SnapshotBegin) /\ SF_vars(SnapshotDone)
    /\ WF_vars(SendDone) /\ WF_vars(CancelDone)
    /\ WF_vars(UiPoll) /\ WF_vars(UiDisconnected)

Spec == Init /\ [][Next]_vars /\ Fairness
-----------------------------------------------------------------------------
(* Properties *)

DeliveryType ==
    /\ task \in Transfers /\ latest \in Transfers /\ ui \in Transfers
    /\ sender \in [Requests -> {"none", "called", "running", "done"}]
    /\ result \in [Requests -> Transfers]
    /\ sendFile \in RequestOrNone /\ sendInFlight \in RequestOrNone
    /\ preparing \in RequestOrNone /\ nextId \in 1 .. MaxRequests + 1
    /\ cancelCall \in [id : RequestOrNone, at : {"idle", "called", "cancelled", "answered"},
                       answer : Transfers]
    /\ snapshot \in [at : {"idle", "called", "read"}, transfer : Transfers]

\* A request is handed to the native code once: one that is being prepared, waits in
\* the file or is yet to be made has no call.
HandedOnce ==
    /\ \A r \in Requests : r \in {sendFile, preparing} \/ r >= nextId => sender[r] = "none"
    /\ sendFile < nextId /\ preparing < nextId
    /\ preparing # 0 => preparing # sendFile

\* taildropSendInFlight names the one call there is, and the active record is that
\* call's, so that no send waits for another one's record.
OneSend ==
    /\ \A r \in Requests : sender[r] \in {"called", "running"} => sendInFlight = r
    /\ sendInFlight # 0 => sender[sendInFlight] # "none"
    /\ Active(task) => task.id \in Requests /\ sender[task.id] = "running"

\* A transfer that says completed is what its own call returned.
Told(t) ==
    t.state = "completed" =>
      t.id \in Requests /\ sender[t.id] = "done" /\ result[t.id] = t

\* Nobody is told of a delivery that the native code did not complete, by whichever of
\* the stale copies of the record that are under way.
CompletionIsTrue ==
    /\ Told(task) /\ Told(latest) /\ Told(ui)
    /\ Told(snapshot.transfer) /\ Told(cancelCall.answer)

\* Requests are handed over once and one at a time, and a completion that reaches the
\* extension's file or the UI is the one the send itself returned (taildropSendInFlight
\* and the request id in the handlers of TailscaleVpnExtensionAbility.ets).
DeliveryInv == DeliveryType /\ HandedOnce /\ OneSend /\ CompletionIsTrue

\* What the technical plan calls a "persistent terminal history": a request the UI
\* shows as queued or sending enters it, whatever stale snapshots are stored on the
\* way, unless the VPN is disconnected first (applyTaildropTransfer).
OutcomeRecorded ==
    \A r \in Requests : (ui.id = r /\ Active(ui)) ~> (records[r] # 0 \/ ~connected)

\* The UI never shows a transfer as running for ever, nor keeps the cancel button
\* pending, also when the extension is stopped in the middle.
UiSettles == (Active(ui) \/ cancelPending) ~> (~Active(ui) /\ ~cancelPending)

\* What the technical plan says of the last handled request id, "to avoid
\* duplicate terminal records": no request enters the history twice
\* (lastHandledTaildropRequestId in applyTaildropTransfer).
HistoryRecordsOnce == \A r \in Requests : records[r] <= 1

\* What the behaviour baseline says of taildropSendInFlight and the request id,
\* that they keep a completion from being overwritten: a transfer stored as
\* settled is not stored as running again (writeTaildropSnapshot).
CompletionNotOverwritten ==
    [][Terminal(latest) /\ latest'.id = latest.id => Terminal(latest')]_vars

\* What the technical plan says of cancellation, that the user can cancel an active
\* transfer: the extension drops the cancel request of a running send only by
\* passing it on (processTaildropCancelRequest).
CancelNotDropped ==
    [][\A r \in Requests :
         cancelFile = r /\ cancelFile' = 0 /\ sender[r] = "running" => cancelCall'.id = r]_vars
=============================================================================
