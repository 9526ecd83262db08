----------------------- MODULE TaildriveTransferProofs -----------------------
(***************************************************************************)
(* Proofs about TaildriveTransfer, for any sets of requests.  The argument: *)
(* a request is called once, from the queue; an active record belongs to a  *)
(* tracked call between its claim and its finish; a .part file belongs to   *)
(* the one call between its creation and its rename or removal; and of the  *)
(* calls of one channel all but the one in flight were left behind by an    *)
(* earlier extension.  The last part is about TaildriveBrowse: the time a   *)
(* query may have spent when it comes to each of its steps.                 *)
(***************************************************************************)
EXTENDS TaildriveTransfer, Integers, TLAPS

\* From the claim of the record, or of a context, to the call's finish.
Working == {"request", "check", "create", "copy", "rename", "finish"}

\* A call that has begun and whose answer is not out.
Called == Working \cup {"begin", "cleanup", "done"}

\* The queues hold requests of their channel that wait, each once.
QueueInv ==
    \A c \in Channels : \A i \in 1 .. Len(queue[c]) :
        /\ Channel(queue[c][i]) = c
        /\ pc[queue[c][i]] = "waiting"
        /\ \A j \in 1 .. Len(queue[c]) : queue[c][i] = queue[c][j] => i = j

\* Only downloads work on files.
StepInv ==
    \A r \in Requests :
        pc[r] \in {"check", "create", "copy", "rename", "finish", "cleanup"} => r \in Downloads

\* An active record is that of a tracked call that has not finished, and has its
\* cancel function; a completed one is that of a call that has returned.
RecordInv ==
    /\ Active(task) => task.id \in Tracked /\ pc[task.id] \in Working /\ stopFn = task.id
    /\ stopFn # None => Active(task)
    /\ task.state = "completed" => task.id \in Requests /\ pc[task.id] \in {"done", "end"}

\* The file of a download is in place, or the UI has removed it for another preview.
HasFile(r) ==
    \/ local[Path(r)] = r
    \/ r \in Previews /\ \E q \in Previews \ {r} : pc[q] \notin {"unused", "none"}

\* What is renamed is whole, what was renamed is in place, and a call that removes its
\* .part file does not report success.
RenameInv ==
    /\ \A r \in Requests : pc[r] \in {"rename", "finish"} => r \in whole
    /\ \A r \in Requests : pc[r] = "finish" => HasFile(r)
    /\ \A r \in Requests : pc[r] = "cleanup" => result[r] # Snapshot(r, "completed", "none")

\* Of the calls of a channel one is in flight, and an earlier extension made the others.
FlightInv ==
    \A r \in Requests : pc[r] \in Called => inFlight[Channel(r)] = r \/ r \in abandoned

\* The record a call in flight would return, and the one it has to return, is its own
\* or that of a call left behind.
AnswerInv ==
    \A r \in Requests :
        inFlight[Channel(r)] = r =>
            /\ r \in Tracked /\ pc[r] \in Working => task.id \in {r} \cup abandoned
            /\ pc[r] \in {"cleanup", "done"} => result[r].id \in {r} \cup abandoned

\* The inductive invariant, in three groups: queues and steps, record, files.
IInv ==
    /\ TypeOK /\ QueueInv /\ StepInv
    /\ RecordInv /\ ExportUntouched /\ FlightInv /\ AnswerInv
    /\ RenameInv /\ FilesInv
-----------------------------------------------------------------------------
USE RequestsAssumption DEF Requests, Tracked, Downloads

\* Every request has a channel and every download a path; only previews share one.
LEMMA Places ==
  /\ \A r \in Requests : Channel(r) \in Channels
  /\ \A r \in Downloads : Path(r) \in Paths
  /\ \A q, r \in Downloads : Path(q) = Path(r) => q = r \/ (q \in Previews /\ r \in Previews)
  /\ \A q, r \in Tracked : Channel(q) = Channel(r)
  BY DEF Channel, Channels, Path, Paths

\* Exports are not tracked.
LEMMA Exports == \A r \in Manuals : r \notin Tracked /\ r # None
  OBVIOUS

\* A record built from a request, a state and a reason has the record type.
LEMMA SnapshotType ==
  ASSUME NEW r \in Requests \cup {None}, NEW state \in States, NEW reason \in Reasons
  PROVE  Snapshot(r, state, reason) \in Snapshots
  BY DEF Snapshot, Snapshots

\* The empty record has it too.
LEMMA IdleType == Idle \in Snapshots
  BY SnapshotType DEF Idle, States, Reasons

\* The initial states satisfy the inductive invariant.
LEMMA InitIInv == Init => IInv
<1> SUFFICES ASSUME Init PROVE IInv
  OBVIOUS
<1>0. \A r \in Requests : pc[r] \in {"none", "unused"}
  BY DEF Init
<1>1. TypeOK
  <2>1. pc \in [Requests -> Steps]
    BY DEF Init, Steps
  <2>2. canceller \in [Cancellers -> [at : {"idle", "fire", "close"}, fn : Tracked \cup {None}]]
    BY DEF Init, Resting
  <2>3. queue \in [Channels -> Seq(Requests)]
    BY DEF Init
  <2>4. QED
    BY <2>1, <2>2, <2>3, IdleType DEF Init, TypeOK
<1>2. QueueInv
  BY DEF Init, QueueInv
<1>3. StepInv /\ FlightInv /\ AnswerInv
  BY <1>0 DEF StepInv, FlightInv, AnswerInv, Called, Working
<1>4. RecordInv /\ ExportUntouched
  BY DEF Init, RecordInv, ExportUntouched, Idle, Snapshot, Active
<1>5. RenameInv /\ FilesInv
  <2>1. RenameInv /\ CompletedHasFile
    BY <1>0 DEF RenameInv, CompletedHasFile
  <2>2. PartHasOwner /\ DownloadedIsWhole
    BY <1>0, Places DEF Init, PartHasOwner, DownloadedIsWhole
  <2>3. QED
    BY <2>1, <2>2 DEF FilesInv
<1>6. QED
  BY <1>1, <1>2, <1>3, <1>4, <1>5 DEF IInv
-----------------------------------------------------------------------------
\* A call that is under way is in no queue.
LEMMA QueueKept ==
  ASSUME IInv, NEW r \in Requests, pc[r] # "waiting", NEW at, Goto(r, at), UNCHANGED queue
  PROVE  QueueInv'
  BY DEF IInv, TypeOK, QueueInv, Goto

\* finishTaildriveTransfer, on every way out of a call: the record is settled if it is
\* the call's own, and the answer is its own or that of a call left behind.
LEMMA FinishIInv ==
  ASSUME IInv, NEW r \in Requests, pc[r] \in Working,
         NEW state \in {"completed", "failed"}, NEW reason \in {"none", "error", "cancelled"},
         NEW at \in {"done", "cleanup"}, at = "cleanup" <=> pc[r] \in {"copy", "rename"},
         state = "completed" => reason = "none" /\ at = "done" /\ (r \in Uploads \/ pc[r] = "finish"),
         reason = "cancelled" => r \in cancelled,
         Finish(r, state, reason), Goto(r, at),
         UNCHANGED <<client, cancelled, orphaned, whole, local, part, canceller, inFlight, ui>>
  PROVE  IInv'
<1> USE DEF Finish, Finished, Goto, ui
<1>1. TypeOK'
  <2>1. Snapshot(r, state, reason) \in Snapshots
    BY SnapshotType DEF States, Reasons
  <2>2. task' \in Snapshots /\ result' \in [Requests -> Snapshots]
    BY <2>1 DEF IInv, TypeOK
  <2>3. stopFn' \in Tracked \cup {None} /\ pc' \in [Requests -> Steps]
    BY DEF IInv, TypeOK, Steps
  <2>4. QED
    BY <2>2, <2>3 DEF IInv, TypeOK
<1>2. QueueInv'
  BY QueueKept DEF Working
<1>3. StepInv' /\ FlightInv'
  BY DEF IInv, TypeOK, StepInv, FlightInv, Working, Called
<1>4. RecordInv'
  BY DEF IInv, TypeOK, RecordInv, Working, Snapshot, Active
<1>5. ExportUntouched'
  <2>1. \A q \in Manuals : q # r => result'[q] = result[q]
    BY DEF IInv, TypeOK
  <2>2. r \in Manuals => r \notin Tracked /\ r \notin cancelled
    BY Exports DEF IInv, ExportUntouched
  <2>3. r \in Manuals => result'[r].reason = reason
    BY <2>2 DEF IInv, TypeOK, Snapshot
  <2>4. QED
    BY <2>1, <2>2, <2>3 DEF IInv, ExportUntouched
<1>6. AnswerInv'
  BY Places DEF IInv, TypeOK, AnswerInv, Working, Snapshot
<1>7. RenameInv'
  <2>1. \A q \in Requests : pc'[q] = "finish" => HasFile(q)'
    BY DEF IInv, TypeOK, RenameInv, HasFile, Working
  <2>2. \A q \in Requests : pc'[q] \in {"rename", "finish"} => q \in whole
    BY DEF IInv, TypeOK, RenameInv
  <2>3. pc'[r] = "cleanup" => result'[r] # Snapshot(r, "completed", "none")
    BY DEF IInv, TypeOK, RecordInv, Working, Snapshot
  <2>4. QED
    BY <2>1, <2>2, <2>3 DEF IInv, TypeOK, RenameInv
<1>8. PartHasOwner' /\ DownloadedIsWhole'
  BY DEF IInv, TypeOK, FilesInv, PartHasOwner, DownloadedIsWhole, Working
<1>9. CompletedHasFile'
  BY DEF IInv, TypeOK, FilesInv, CompletedHasFile, RecordInv, RenameInv, HasFile, Working,
     Snapshot
<1>10. QED
  BY <1>1, <1>2, <1>3, <1>4, <1>5, <1>6, <1>7, <1>8, <1>9 DEF IInv, FilesInv

\* A call that is refused without a record answers for itself.
LEMMA RefuseIInv ==
  ASSUME IInv, NEW r \in Requests, pc[r] = "begin", r \in Tracked, Refuse(r, "busy"),
         UNCHANGED <<canceller, inFlight, ui>>
  PROVE  IInv'
<1> USE DEF Refuse, Goto, ui, native
<1>1. TypeOK'
  <2>1. Snapshot(r, "failed", "busy") \in Snapshots
    BY SnapshotType DEF States, Reasons
  <2>2. QED
    BY <2>1 DEF IInv, TypeOK, Steps
<1>2. QueueInv'
  BY QueueKept
<1>3. StepInv' /\ FlightInv'
  BY DEF IInv, TypeOK, StepInv, FlightInv, Working, Called
<1>4. RecordInv'
  BY DEF IInv, TypeOK, RecordInv, Working
<1>5. ExportUntouched'
  BY Exports DEF IInv, TypeOK, ExportUntouched
<1>6. AnswerInv'
  BY DEF IInv, TypeOK, AnswerInv, Working, Snapshot
<1>7. RenameInv'
  BY DEF IInv, TypeOK, RenameInv, HasFile
<1>8. PartHasOwner' /\ DownloadedIsWhole' /\ CompletedHasFile'
  BY DEF IInv, TypeOK, FilesInv, PartHasOwner, DownloadedIsWhole, CompletedHasFile, Snapshot
<1>9. QED
  BY <1>1, <1>2, <1>3, <1>4, <1>5, <1>6, <1>7, <1>8 DEF IInv, FilesInv

\* The claim of the record takes over a settled one; of the calls left behind, only an
\* abandoned one can take it from the call in flight.
LEMMA BeginIInv ==
  ASSUME IInv, NEW r \in Requests, Begin(r), ~(r \in Tracked /\ Active(task)),
         UNCHANGED <<canceller, inFlight, ui>>
  PROVE  IInv'
<1>0. /\ pc[r] = "begin" /\ Goto(r, "request")
      /\ IF r \in Tracked THEN task' = Snapshot(r, "queued", "none") /\ stopFn' = r
                          ELSE UNCHANGED <<task, stopFn>>
      /\ UNCHANGED <<client, cancelled, orphaned, whole, local, part, result>>
  BY DEF Begin
<1> USE <1>0 DEF Goto, ui
<1>1. TypeOK'
  <2>1. Snapshot(r, "queued", "none") \in Snapshots
    BY SnapshotType DEF States, Reasons
  <2>2. QED
    BY <2>1 DEF IInv, TypeOK, Steps
<1>2. QueueInv'
  BY QueueKept
<1>3. StepInv' /\ FlightInv'
  BY DEF IInv, TypeOK, StepInv, FlightInv, Working, Called
<1>4. RecordInv'
  BY Exports DEF IInv, TypeOK, RecordInv, Working, Snapshot, Active
<1>5. ExportUntouched'
  BY DEF IInv, TypeOK, ExportUntouched
<1>6. AnswerInv'
  <2> SUFFICES ASSUME NEW q \in Requests, inFlight[Channel(q)] = q
               PROVE  /\ q \in Tracked /\ pc'[q] \in Working => task'.id \in {q} \cup abandoned
                      /\ pc'[q] \in {"cleanup", "done"} => result'[q].id \in {q} \cup abandoned
    BY DEF AnswerInv
  <2>1. CASE q = r
    BY <2>1 DEF IInv, TypeOK, Snapshot
  <2>2. CASE q # r
    <3>1. pc'[q] = pc[q]
      BY <2>2 DEF IInv, TypeOK
    <3>2. q \in Tracked /\ r \in Tracked => r \in abandoned
      BY <2>2, Places DEF IInv, FlightInv, Called
    <3>3. QED
      BY <3>1, <3>2 DEF IInv, AnswerInv, Snapshot
  <2>3. QED
    BY <2>1, <2>2
<1>7. RenameInv'
  BY DEF IInv, TypeOK, RenameInv, HasFile
<1>8. PartHasOwner' /\ DownloadedIsWhole' /\ CompletedHasFile'
  BY DEF IInv, TypeOK, FilesInv, PartHasOwner, DownloadedIsWhole, CompletedHasFile
<1>9. QED
  BY <1>1, <1>2, <1>3, <1>4, <1>5, <1>6, <1>7, <1>8 DEF IInv, FilesInv

\* The record is marked as transferring, by its own call.
LEMMA ProgressIInv ==
  ASSUME IInv, NEW r \in Requests, pc[r] = "request", NEW at \in {"request", "check"},
         at = "check" => r \in Downloads, Goto(r, at),
         \/ task' = task
         \/ task.id = r /\ Active(task) /\ task' = Snapshot(r, "transferring", "none"),
         UNCHANGED <<stopFn, client, cancelled, orphaned, whole, local, part, result,
                     canceller, inFlight, ui>>
  PROVE  IInv'
<1> USE DEF Goto, ui
<1>1. TypeOK'
  <2>1. Snapshot(r, "transferring", "none") \in Snapshots
    BY SnapshotType DEF States, Reasons
  <2>2. QED
    BY <2>1 DEF IInv, TypeOK, Steps
<1>2. QueueInv'
  BY QueueKept
<1>3. StepInv' /\ FlightInv'
  BY DEF IInv, TypeOK, StepInv, FlightInv, Working, Called
<1>4. RecordInv'
  BY DEF IInv, TypeOK, RecordInv, Working, Snapshot, Active
<1>5. ExportUntouched'
  BY DEF IInv, TypeOK, ExportUntouched
<1>6. AnswerInv'
  BY DEF IInv, TypeOK, AnswerInv, Working, Snapshot
<1>7. RenameInv'
  BY DEF IInv, TypeOK, RenameInv, HasFile
<1>8. PartHasOwner' /\ DownloadedIsWhole' /\ CompletedHasFile'
  BY DEF IInv, TypeOK, FilesInv, PartHasOwner, DownloadedIsWhole, CompletedHasFile
<1>9. QED
  BY <1>1, <1>2, <1>3, <1>4, <1>5, <1>6, <1>7, <1>8 DEF IInv, FilesInv

\* A download moves on to its next file operation: the record is not touched.
LEMMA MoveKept ==
  ASSUME IInv, NEW r \in Downloads, NEW at, Goto(r, at),
         \/ pc[r] \in Working /\ at \in Working
         \/ pc[r] = "cleanup" /\ at = "done",
         UNCHANGED <<task, stopFn, cancelled, result, canceller, inFlight, ui>>
  PROVE  /\ pc' \in [Requests -> Steps]
         /\ QueueInv' /\ StepInv' /\ RecordInv' /\ ExportUntouched' /\ FlightInv' /\ AnswerInv'
<1> USE DEF Goto, ui
<1>1. pc' \in [Requests -> Steps]
  BY DEF IInv, TypeOK, Steps, Working
<1>2. QueueInv'
  BY QueueKept DEF Working
<1>3. StepInv' /\ FlightInv'
  BY DEF IInv, TypeOK, StepInv, FlightInv, Working, Called
<1>4. RecordInv' /\ ExportUntouched'
  BY DEF IInv, TypeOK, RecordInv, ExportUntouched, Working
<1>5. AnswerInv'
  BY DEF IInv, TypeOK, AnswerInv, Working
<1>6. QED
  BY <1>1, <1>2, <1>3, <1>4, <1>5

\* os.Lstat finds no file.
LEMMA CheckIInv ==
  ASSUME IInv, NEW r \in Requests, pc[r] = "check", Goto(r, "create"),
         UNCHANGED <<native, result, canceller, inFlight, ui>>
  PROVE  IInv'
<1> USE DEF Goto, native, ui
<1>0. r \in Downloads
  BY DEF IInv, StepInv
<1>1. /\ pc' \in [Requests -> Steps]
      /\ QueueInv' /\ StepInv' /\ RecordInv' /\ ExportUntouched' /\ FlightInv' /\ AnswerInv'
  BY <1>0, MoveKept DEF Working
<1>2. TypeOK'
  BY <1>1 DEF IInv, TypeOK
<1>3. RenameInv'
  BY DEF IInv, TypeOK, RenameInv, HasFile
<1>4. PartHasOwner' /\ DownloadedIsWhole' /\ CompletedHasFile'
  BY DEF IInv, TypeOK, FilesInv, PartHasOwner, DownloadedIsWhole, CompletedHasFile
<1>5. QED
  BY <1>1, <1>2, <1>3, <1>4 DEF IInv, FilesInv

\* The .part file is created where there is none.
LEMMA CreateIInv ==
  ASSUME IInv, NEW r \in Requests, pc[r] = "create", Goto(r, "copy"),
         part[Path(r)] = None, part' = [part EXCEPT ![Path(r)] = r],
         UNCHANGED <<task, stopFn, client, cancelled, orphaned, whole, local, result,
                     canceller, inFlight, ui>>
  PROVE  IInv'
<1> USE DEF Goto, ui
<1>0. r \in Downloads /\ Path(r) \in Paths
  BY Places DEF IInv, StepInv
<1>1. /\ pc' \in [Requests -> Steps]
      /\ QueueInv' /\ StepInv' /\ RecordInv' /\ ExportUntouched' /\ FlightInv' /\ AnswerInv'
  BY <1>0, MoveKept DEF Working
<1>2. TypeOK'
  BY <1>0, <1>1 DEF IInv, TypeOK
<1>3. RenameInv'
  BY DEF IInv, TypeOK, RenameInv, HasFile
<1>4. PartHasOwner'
  BY <1>0, Places DEF IInv, TypeOK, FilesInv, PartHasOwner
<1>5. DownloadedIsWhole' /\ CompletedHasFile'
  BY DEF IInv, TypeOK, FilesInv, DownloadedIsWhole, CompletedHasFile
<1>6. QED
  BY <1>1, <1>2, <1>3, <1>4, <1>5 DEF IInv, FilesInv

\* The whole payload has been written.
LEMMA CopyIInv ==
  ASSUME IInv, NEW r \in Requests, pc[r] = "copy", Goto(r, "rename"),
         whole' = whole \cup {r},
         UNCHANGED <<task, stopFn, client, cancelled, orphaned, local, part, result,
                     canceller, inFlight, ui>>
  PROVE  IInv'
<1> USE DEF Goto, ui
<1>0. r \in Downloads
  BY DEF IInv, StepInv
<1>1. /\ pc' \in [Requests -> Steps]
      /\ QueueInv' /\ StepInv' /\ RecordInv' /\ ExportUntouched' /\ FlightInv' /\ AnswerInv'
  BY <1>0, MoveKept DEF Working
<1>2. TypeOK'
  BY <1>0, <1>1 DEF IInv, TypeOK
<1>3. RenameInv'
  BY DEF IInv, TypeOK, RenameInv, HasFile
<1>4. PartHasOwner' /\ DownloadedIsWhole' /\ CompletedHasFile'
  BY DEF IInv, TypeOK, FilesInv, PartHasOwner, DownloadedIsWhole, CompletedHasFile
<1>5. QED
  BY <1>1, <1>2, <1>3, <1>4 DEF IInv, FilesInv

\* os.Rename moves the call's own .part file: a download whose file it replaces is one
\* of a preview, for which the UI has opened another since.
LEMMA RenameIInv ==
  ASSUME IInv, NEW r \in Requests, pc[r] = "rename", Goto(r, "finish"),
         local' = [local EXCEPT ![Path(r)] = part[Path(r)]],
         part' = [part EXCEPT ![Path(r)] = None],
         UNCHANGED <<task, stopFn, client, cancelled, orphaned, whole, result,
                     canceller, inFlight, ui>>
  PROVE  IInv'
<1> USE DEF Goto, ui
<1>0. r \in Downloads /\ Path(r) \in Paths
  BY Places DEF IInv, StepInv
<1>a. part[Path(r)] = r /\ r \in whole
  BY <1>0 DEF IInv, FilesInv, PartHasOwner, RenameInv
<1>1. /\ pc' \in [Requests -> Steps]
      /\ QueueInv' /\ StepInv' /\ RecordInv' /\ ExportUntouched' /\ FlightInv' /\ AnswerInv'
  BY <1>0, MoveKept DEF Working
<1>2. TypeOK'
  BY <1>0, <1>1, <1>a DEF IInv, TypeOK
<1>3. local'[Path(r)] = r /\ \A p \in Paths : p # Path(r) => local'[p] = local[p]
  BY <1>0, <1>a DEF IInv, TypeOK
<1>4. \A q \in Downloads : HasFile(q) => HasFile(q)'
  <2> SUFFICES ASSUME NEW q \in Downloads, HasFile(q) PROVE HasFile(q)'
    OBVIOUS
  <2>1. CASE q = r \/ Path(q) # Path(r)
    BY <2>1, <1>0, <1>3, Places DEF HasFile, IInv, TypeOK
  <2>2. CASE q # r /\ Path(q) = Path(r)
    BY <2>2, <1>0, Places DEF HasFile, IInv, TypeOK
  <2>3. QED
    BY <2>1, <2>2
<1>5. RenameInv'
  <2>1. HasFile(r)'
    BY <1>3 DEF HasFile
  <2>2. QED
    BY <1>a, <1>4, <2>1 DEF IInv, TypeOK, RenameInv, StepInv
<1>6. PartHasOwner'
  BY <1>0, <1>a, Places DEF IInv, TypeOK, FilesInv, PartHasOwner
<1>7. DownloadedIsWhole'
  BY <1>3, <1>a DEF IInv, FilesInv, DownloadedIsWhole
<1>8. CompletedHasFile'
  <2>1. \A q \in Downloads :
          result[q] = Snapshot(q, "completed", "none") /\ pc'[q] = "done" =>
              pc[q] = "done" /\ HasFile(q)
    BY <1>0 DEF IInv, TypeOK, FilesInv, CompletedHasFile, HasFile
  <2>2. QED
    BY <2>1, <1>4 DEF CompletedHasFile, HasFile
<1>9. QED
  BY <1>1, <1>2, <1>5, <1>6, <1>7, <1>8 DEF IInv, FilesInv

\* The deferred os.Remove finds the call's own .part file.
LEMMA CleanupIInv ==
  ASSUME IInv, NEW r \in Requests, Cleanup(r), UNCHANGED <<canceller, inFlight, ui>>
  PROVE  IInv'
<1> USE DEF Cleanup, Goto, ui
<1>0. r \in Downloads /\ Path(r) \in Paths
  BY Places DEF IInv, StepInv
<1>1. /\ pc' \in [Requests -> Steps]
      /\ QueueInv' /\ StepInv' /\ RecordInv' /\ ExportUntouched' /\ FlightInv' /\ AnswerInv'
  BY <1>0, MoveKept
<1>2. TypeOK'
  BY <1>0, <1>1 DEF IInv, TypeOK
<1>3. RenameInv'
  BY DEF IInv, TypeOK, RenameInv, HasFile
<1>4. PartHasOwner'
  BY <1>0, Places DEF IInv, TypeOK, FilesInv, PartHasOwner
<1>5. DownloadedIsWhole' /\ CompletedHasFile'
  BY DEF IInv, TypeOK, FilesInv, DownloadedIsWhole, CompletedHasFile, RenameInv
<1>6. QED
  BY <1>1, <1>2, <1>3, <1>4, <1>5 DEF IInv, FilesInv

\* A step of a call, whichever way it goes.
LEMMA CallStepIInv ==
  ASSUME IInv, NEW r \in Requests, CallStep(r)
  PROVE  IInv'
<1>0. UNCHANGED <<canceller, inFlight, ui>>
  BY DEF CallStep
<1>a. Failures(r) \subseteq {"error", "cancelled"} /\ ("cancelled" \in Failures(r) => r \in cancelled)
  BY DEF Failures
<1>b. ASSUME NEW reason \in {"error", "cancelled"}, reason = "cancelled" => r \in cancelled,
             NEW at \in {"done", "cleanup"}, at = "cleanup" <=> pc[r] \in {"copy", "rename"},
             pc[r] \in Working, Fail(r, reason, at)
      PROVE  IInv'
  BY <1>0, <1>b, FinishIInv DEF Fail
<1>1. CASE Begin(r)
  <2>1. CASE r \in Tracked /\ Active(task)
    BY <1>0, <1>1, <2>1, RefuseIInv DEF Begin
  <2>2. CASE ~(r \in Tracked /\ Active(task))
    BY <1>0, <1>1, <2>2, BeginIInv
  <2>3. QED
    BY <2>1, <2>2
<1>2. CASE GetReturns(r)
  <2>1. CASE \E reason \in Failures(r) : Fail(r, reason, "done")
    BY <1>2, <1>a, <1>b, <2>1 DEF GetReturns, Working
  <2>2. CASE ~\E reason \in Failures(r) : Fail(r, reason, "done")
    <3>1. /\ pc[r] = "request" /\ r \in Downloads /\ Goto(r, "check")
          /\ task' = IF r \in Tracked /\ task.id = r /\ Active(task)
                     THEN Snapshot(r, "transferring", "none") ELSE task
          /\ UNCHANGED <<stopFn, client, cancelled, orphaned, whole, local, part, result>>
      BY <1>2, <2>2 DEF GetReturns
    <3>2. QED
      BY <1>0, <3>1, ProgressIInv
  <2>3. QED
    BY <2>1, <2>2
<1>3. CASE PutProgress(r)
  <2>1. Goto(r, "request") /\ Active(task)
    BY <1>3 DEF PutProgress, Goto, Active, IInv, TypeOK
  <2>2. QED
    BY <1>0, <1>3, <2>1, ProgressIInv DEF PutProgress
<1>4. CASE PutReturns(r)
  <2>1. CASE \E reason \in Failures(r) : Fail(r, reason, "done")
    BY <1>4, <1>a, <1>b, <2>1 DEF PutReturns, Working
  <2>2. CASE ~\E reason \in Failures(r) : Fail(r, reason, "done")
    BY <1>0, <1>4, <2>2, FinishIInv DEF PutReturns, Working
  <2>3. QED
    BY <2>1, <2>2
<1>5. CASE CheckLocal(r)
  <2>1. CASE Fail(r, "error", "done")
    BY <1>5, <1>b, <2>1 DEF CheckLocal, Working
  <2>2. CASE ~Fail(r, "error", "done")
    BY <1>0, <1>5, <2>2, CheckIInv DEF CheckLocal
  <2>3. QED
    BY <2>1, <2>2
<1>6. CASE CreatePart(r)
  <2>1. CASE Fail(r, "error", "done")
    BY <1>6, <1>b, <2>1 DEF CreatePart, Working
  <2>2. CASE ~Fail(r, "error", "done")
    BY <1>0, <1>6, <2>2, CreateIInv DEF CreatePart
  <2>3. QED
    BY <2>1, <2>2
<1>7. CASE CopyReturns(r)
  <2>1. CASE \E reason \in Failures(r) : Fail(r, reason, "cleanup")
    BY <1>7, <1>a, <1>b, <2>1 DEF CopyReturns, Working
  <2>2. CASE ~\E reason \in Failures(r) : Fail(r, reason, "cleanup")
    BY <1>0, <1>7, <2>2, CopyIInv DEF CopyReturns
  <2>3. QED
    BY <2>1, <2>2
<1>8. CASE RenamePart(r)
  <2>1. CASE Fail(r, "error", "cleanup")
    BY <1>8, <1>b, <2>1 DEF RenamePart, Working
  <2>2. CASE ~Fail(r, "error", "cleanup")
    BY <1>0, <1>8, <2>2, RenameIInv DEF RenamePart
  <2>3. QED
    BY <2>1, <2>2
<1>9. CASE FinishDownload(r)
  BY <1>0, <1>9, FinishIInv DEF FinishDownload, Working
<1>10. CASE Cleanup(r)
  BY <1>0, <1>10, CleanupIInv
<1>11. QED
  BY <1>1, <1>2, <1>3, <1>4, <1>5, <1>6, <1>7, <1>8, <1>9, <1>10 DEF CallStep
-----------------------------------------------------------------------------
\* A new request joins the end of its channel's queue.
LEMMA EnqueueKept ==
  ASSUME IInv, NEW r \in Requests, pc[r] = "none", Goto(r, "waiting"), Enqueue(r)
  PROVE  queue' \in [Channels -> Seq(Requests)] /\ QueueInv'
<1> USE DEF Goto, Enqueue
<1> DEFINE d == Channel(r)
           s == queue[d]
<1>0. d \in Channels /\ s \in Seq(Requests) /\ queue \in [Channels -> Seq(Requests)]
  BY Places DEF IInv, TypeOK
<1>1. Append(s, r) \in Seq(Requests)
  BY <1>0
<1>2. queue' \in [Channels -> Seq(Requests)]
  BY <1>0, <1>1
<1>3. ASSUME NEW c \in Channels, c # d
      PROVE  queue'[c] = queue[c]
  BY <1>0, <1>3
<1>4. /\ queue'[d] = Append(s, r) /\ Len(queue'[d]) = Len(s) + 1 /\ Len(s) \in Nat
      /\ queue'[d][Len(s) + 1] = r
      /\ \A i \in 1 .. Len(s) : queue'[d][i] = s[i] /\ s[i] \in Requests
  BY <1>0
<1>5. \A c \in Channels : \A i \in 1 .. Len(queue[c]) :
        /\ queue[c][i] \in Requests /\ queue[c][i] # r /\ Channel(queue[c][i]) = c
        /\ pc'[queue[c][i]] = "waiting"
        /\ \A j \in 1 .. Len(queue[c]) : queue[c][i] = queue[c][j] => i = j
  BY DEF IInv, TypeOK, QueueInv
<1>6. pc'[r] = "waiting"
  BY DEF IInv, TypeOK
<1> SUFFICES ASSUME NEW c \in Channels, NEW i \in 1 .. Len(queue'[c])
             PROVE  /\ Channel(queue'[c][i]) = c
                    /\ pc'[queue'[c][i]] = "waiting"
                    /\ \A j \in 1 .. Len(queue'[c]) : queue'[c][i] = queue'[c][j] => i = j
  BY <1>2 DEF QueueInv
<1>7. CASE c # d
  BY <1>3, <1>5, <1>7
<1>8. CASE c = d
  <2> HIDE DEF d, s
  <2>1. \A j \in 1 .. Len(queue'[d]) : j \in 1 .. Len(s) \/ j = Len(s) + 1
    BY <1>4
  <2>2. CASE i = Len(s) + 1
    BY <1>4, <1>5, <1>6, <1>8, <2>1, <2>2 DEF d, s
  <2>3. CASE i \in 1 .. Len(s)
    BY <1>4, <1>5, <1>6, <1>8, <2>1, <2>3 DEF d, s
  <2>4. QED
    BY <1>8, <2>1, <2>2, <2>3
<1>9. QED
  BY <1>7, <1>8

\* The head of a queue is taken, once.
LEMMA DequeueKept ==
  ASSUME IInv, NEW r \in Requests, NEW at, Goto(r, at),
         queue[Channel(r)] # <<>>, r = Head(queue[Channel(r)]),
         queue' = [queue EXCEPT ![Channel(r)] = Tail(@)]
  PROVE  pc[r] = "waiting" /\ queue' \in [Channels -> Seq(Requests)] /\ QueueInv'
<1> USE DEF Goto
<1> DEFINE d == Channel(r)
           s == queue[d]
<1>0. d \in Channels /\ s \in Seq(Requests) /\ queue \in [Channels -> Seq(Requests)]
  BY Places DEF IInv, TypeOK
<1>1. Len(s) \in Nat \ {0} /\ r = s[1]
  BY <1>0
<1>2. queue' \in [Channels -> Seq(Requests)]
  BY <1>0
<1>3. \A c \in Channels : c # d => queue'[c] = queue[c]
  BY <1>0
<1>4. /\ queue'[d] = Tail(s) /\ Len(queue'[d]) = Len(s) - 1
      /\ \A i \in 1 .. Len(queue'[d]) : queue'[d][i] = s[i + 1] /\ i + 1 \in 1 .. Len(s)
  BY <1>0, <1>1
<1>5. \A c \in Channels : \A i \in 1 .. Len(queue[c]) :
        /\ queue[c][i] \in Requests /\ Channel(queue[c][i]) = c /\ pc[queue[c][i]] = "waiting"
        /\ \A j \in 1 .. Len(queue[c]) : queue[c][i] = queue[c][j] => i = j
  BY DEF IInv, TypeOK, QueueInv
<1>6. pc[r] = "waiting"
  BY <1>0, <1>1, <1>5
<1>7. \A q \in Requests : q # r => pc'[q] = pc[q]
  BY DEF IInv, TypeOK
<1>8. QueueInv'
  <2> SUFFICES ASSUME NEW c \in Channels, NEW i \in 1 .. Len(queue'[c])
               PROVE  /\ Channel(queue'[c][i]) = c
                      /\ pc'[queue'[c][i]] = "waiting"
                      /\ \A j \in 1 .. Len(queue'[c]) : queue'[c][i] = queue'[c][j] => i = j
    BY DEF QueueInv
  <2>1. CASE c # d
    <3>1. queue'[c] = queue[c] /\ queue[c][i] # r
      BY <1>3, <1>5, <2>1
    <3>2. QED
      BY <3>1, <1>5, <1>7
  <2>2. CASE c = d
    <3>1. queue'[c][i] = s[i + 1] /\ i + 1 \in 1 .. Len(s) /\ s[i + 1] # r
      <4>1. queue'[c][i] = s[i + 1] /\ i + 1 \in 1 .. Len(s)
        BY <1>4, <2>2
      <4>2. 1 \in 1 .. Len(s) /\ i + 1 # 1
        BY <1>1, <4>1
      <4>3. QED
        BY <1>0, <1>1, <1>5, <4>1, <4>2
    <3>2. Channel(s[i + 1]) = d /\ pc'[s[i + 1]] = "waiting"
      BY <1>0, <1>5, <1>7, <3>1
    <3>3. ASSUME NEW j \in 1 .. Len(queue'[d]), s[i + 1] = queue'[d][j]
          PROVE  i = j
      <4>1. s[i + 1] = s[j + 1] /\ j + 1 \in 1 .. Len(s)
        BY <1>4, <3>3
      <4>2. i + 1 = j + 1
        BY <1>0, <1>5, <3>1, <4>1
      <4>3. QED
        BY <4>2
    <3>4. QED
      BY <2>2, <3>1, <3>2, <3>3
  <2>3. QED
    BY <2>1, <2>2
<1>9. QED
  BY <1>2, <1>6, <1>8
-----------------------------------------------------------------------------
\* A request that is only made or queued touches no record and no call.
LEMMA WaitKept ==
  ASSUME IInv, NEW r \in Requests, pc[r] = "none", Goto(r, "waiting"), Enqueue(r),
         UNCHANGED <<task, stopFn, cancelled, result, inFlight, abandoned>>
  PROVE  /\ pc' \in [Requests -> Steps] /\ queue' \in [Channels -> Seq(Requests)]
         /\ QueueInv' /\ StepInv' /\ RecordInv' /\ ExportUntouched' /\ FlightInv' /\ AnswerInv'
<1>1. pc' \in [Requests -> Steps]
  BY DEF IInv, TypeOK, Goto, Steps
<1>2. queue' \in [Channels -> Seq(Requests)] /\ QueueInv'
  BY EnqueueKept
<1>3. StepInv' /\ FlightInv'
  BY DEF IInv, TypeOK, StepInv, FlightInv, Goto, Working, Called
<1>4. RecordInv' /\ ExportUntouched'
  BY DEF IInv, TypeOK, RecordInv, ExportUntouched, Goto, Working
<1>5. AnswerInv'
  BY DEF IInv, TypeOK, AnswerInv, Goto, Working
<1>6. QED
  BY <1>1, <1>2, <1>3, <1>4, <1>5

\* downloadForPreview removes the old file: the previews that had it are no longer
\* the last one.
LEMMA OpenPreviewIInv ==
  ASSUME IInv, NEW r \in Requests, OpenPreview(r)
  PROVE  IInv'
<1> USE DEF OpenPreview, Goto
<1>1. /\ pc' \in [Requests -> Steps] /\ queue' \in [Channels -> Seq(Requests)]
      /\ QueueInv' /\ StepInv' /\ RecordInv' /\ ExportUntouched' /\ FlightInv' /\ AnswerInv'
  BY WaitKept
<1>2. TypeOK'
  <2>1. local' \in [Paths -> Downloads \cup {None}]
    BY DEF IInv, TypeOK
  <2>2. wanted' \subseteq Tracked /\ meant' \subseteq Tracked
    BY DEF IInv, TypeOK
  <2>3. QED
    BY <1>1, <2>1, <2>2 DEF IInv, TypeOK
<1>3. \A q \in Downloads : HasFile(q) /\ q # r => HasFile(q)'
  <2> SUFFICES ASSUME NEW q \in Downloads, HasFile(q), q # r PROVE HasFile(q)'
    OBVIOUS
  <2>1. CASE q \in Previews
    BY <2>1 DEF HasFile, IInv, TypeOK
  <2>2. CASE q \in Manuals
    BY <2>2 DEF HasFile, IInv, TypeOK, Path, Paths
  <2>3. QED
    BY <2>1, <2>2
<1>4. RenameInv'
  BY <1>3 DEF IInv, TypeOK, RenameInv, StepInv
<1>5. PartHasOwner' /\ DownloadedIsWhole'
  BY DEF IInv, TypeOK, FilesInv, PartHasOwner, DownloadedIsWhole
<1>6. CompletedHasFile'
  <2>1. \A q \in Downloads :
          result[q] = Snapshot(q, "completed", "none") /\ pc'[q] = "done" => HasFile(q) /\ q # r
    BY DEF IInv, TypeOK, FilesInv, CompletedHasFile, HasFile
  <2>2. QED
    BY <2>1, <1>3 DEF CompletedHasFile, HasFile
<1>7. QED
  BY <1>1, <1>2, <1>4, <1>5, <1>6 DEF IInv, FilesInv

\* An export or an upload is queued.
LEMMA QueueRequestIInv ==
  ASSUME IInv, NEW r \in Requests, QueueRequest(r)
  PROVE  IInv'
<1> USE DEF QueueRequest, Goto, native
<1>1. /\ pc' \in [Requests -> Steps] /\ queue' \in [Channels -> Seq(Requests)]
      /\ QueueInv' /\ StepInv' /\ RecordInv' /\ ExportUntouched' /\ FlightInv' /\ AnswerInv'
  BY WaitKept
<1>2. TypeOK'
  BY <1>1 DEF IInv, TypeOK
<1>3. RenameInv'
  BY DEF IInv, TypeOK, RenameInv, HasFile
<1>4. PartHasOwner' /\ DownloadedIsWhole' /\ CompletedHasFile'
  BY DEF IInv, TypeOK, FilesInv, PartHasOwner, DownloadedIsWhole, CompletedHasFile
<1>5. QED
  BY <1>1, <1>2, <1>3, <1>4 DEF IInv, FilesInv

\* The extension takes a request when its channel is free: the calls that still run
\* there are those of an earlier extension.
LEMMA CallNativeIInv ==
  ASSUME IInv, NEW r \in Requests, CallNative(r)
  PROVE  IInv'
<1>0. /\ queue[Channel(r)] # <<>> /\ r = Head(queue[Channel(r)])
      /\ inFlight[Channel(r)] = None
      /\ queue' = [queue EXCEPT ![Channel(r)] = Tail(@)]
      /\ inFlight' = [inFlight EXCEPT ![Channel(r)] = r]
      /\ UNCHANGED <<task, stopFn, client, cancelled, orphaned, whole, local, part,
                     canceller, preview, wanted, meant, abandoned>>
  BY DEF CallNative, ChannelFree, Refuse, native
<1>a. PICK at \in {"begin", "done"} :
        /\ Goto(r, at)
        /\ IF at = "done" THEN result' = [result EXCEPT ![r] = Snapshot(r, "failed", "error")]
                          ELSE result' = result
  BY DEF CallNative, Refuse
<1>b. /\ pc[r] = "waiting" /\ queue' \in [Channels -> Seq(Requests)] /\ QueueInv'
  BY <1>0, <1>a, DequeueKept
<1>c. Channel(r) \in Channels
  BY Places
<1> USE <1>0, <1>a, <1>b, <1>c DEF Goto
<1>1. TypeOK'
  <2>1. Snapshot(r, "failed", "error") \in Snapshots
    BY SnapshotType DEF States, Reasons
  <2>2. result' \in [Requests -> Snapshots]
    <3>1. result \in [Requests -> Snapshots]
      BY DEF IInv, TypeOK
    <3>2. CASE at = "done"
      BY ONLY <1>a, <2>1, <3>1, <3>2
    <3>3. CASE at # "done"
      BY ONLY <1>a, <3>1, <3>3
    <3>4. QED
      BY <3>2, <3>3
  <2>3. pc' \in [Requests -> Steps] /\ inFlight' \in [Channels -> Requests \cup {None}]
    BY DEF IInv, TypeOK, Steps
  <2>4. QED
    BY <2>2, <2>3 DEF IInv, TypeOK
<1>2. StepInv' /\ RecordInv'
  BY DEF IInv, TypeOK, StepInv, RecordInv, Working
<1>3. ExportUntouched'
  <2>1. \A q \in Requests : q # r => result'[q] = result[q]
    BY DEF IInv, TypeOK
  <2>2. result'[r] = result[r] \/ result'[r] = Snapshot(r, "failed", "error")
    BY DEF IInv, TypeOK
  <2>3. Snapshot(r, "failed", "error").reason = "error"
    BY DEF Snapshot
  <2>4. \A q \in Manuals : result'[q].reason \notin {"busy", "cancelled"}
    BY <2>1, <2>2, <2>3 DEF IInv, ExportUntouched
  <2>5. QED
    BY <2>4 DEF IInv, ExportUntouched
<1>4. FlightInv' /\ AnswerInv'
  <2> SUFFICES ASSUME NEW q \in Requests
               PROVE  /\ pc'[q] \in Called => inFlight'[Channel(q)] = q \/ q \in abandoned
                      /\ inFlight'[Channel(q)] = q =>
                           /\ q \in Tracked /\ pc'[q] \in Working => task.id \in {q} \cup abandoned
                           /\ pc'[q] \in {"cleanup", "done"} => result'[q].id \in {q} \cup abandoned
    BY DEF FlightInv, AnswerInv
  <2>1. CASE q = r
    BY <2>1 DEF IInv, TypeOK, Working, Snapshot
  <2>2. CASE q # r
    <3>1. pc'[q] = pc[q] /\ result'[q] = result[q]
      BY <2>2 DEF IInv, TypeOK
    <3>2. Channel(q) = Channel(r) => inFlight[Channel(q)] # q /\ inFlight'[Channel(q)] # q
      BY <2>2 DEF IInv, TypeOK
    <3>3. Channel(q) # Channel(r) => inFlight'[Channel(q)] = inFlight[Channel(q)]
      BY Places DEF IInv, TypeOK
    <3>4. QED
      BY <3>1, <3>2, <3>3 DEF IInv, FlightInv, AnswerInv
  <2>3. QED
    BY <2>1, <2>2
<1>5. RenameInv'
  BY DEF IInv, TypeOK, RenameInv, HasFile
<1>6. PartHasOwner' /\ DownloadedIsWhole' /\ CompletedHasFile'
  BY DEF IInv, TypeOK, FilesInv, PartHasOwner, DownloadedIsWhole, CompletedHasFile, Snapshot
<1>7. QED
  BY <1>1, <1>2, <1>3, <1>4, <1>5, <1>6 DEF IInv, FilesInv

\* The answer goes out and the channel is free again.
LEMMA PromiseSettlesIInv ==
  ASSUME IInv, NEW r \in Requests, PromiseSettles(r)
  PROVE  IInv'
<1> USE DEF PromiseSettles, Goto
<1>0. Channel(r) \in Channels
  BY Places
<1>1. TypeOK'
  <2>1. result' \in [Requests -> Snapshots]
    BY IdleType DEF IInv, TypeOK
  <2>2. pc' \in [Requests -> Steps] /\ inFlight' \in [Channels -> Requests \cup {None}]
    BY DEF IInv, TypeOK, Steps
  <2>3. QED
    BY <2>1, <2>2 DEF IInv, TypeOK
<1>2. QueueInv'
  BY QueueKept
<1>3. StepInv' /\ RecordInv'
  BY DEF IInv, TypeOK, StepInv, RecordInv, Working
<1>4. ExportUntouched'
  BY DEF IInv, TypeOK, ExportUntouched, Idle, Snapshot
<1>5. FlightInv' /\ AnswerInv'
  <2> SUFFICES ASSUME NEW q \in Requests
               PROVE  /\ pc'[q] \in Called => inFlight'[Channel(q)] = q \/ q \in abandoned
                      /\ inFlight'[Channel(q)] = q =>
                           /\ q \in Tracked /\ pc'[q] \in Working => task.id \in {q} \cup abandoned
                           /\ pc'[q] \in {"cleanup", "done"} => result'[q].id \in {q} \cup abandoned
    BY DEF FlightInv, AnswerInv
  <2>1. CASE q = r
    BY <2>1 DEF IInv, TypeOK, Working, Called
  <2>2. CASE q # r
    <3>1. pc'[q] = pc[q] /\ result'[q] = result[q]
      BY <2>2 DEF IInv, TypeOK
    <3>2. Channel(q) = Channel(r) => inFlight[Channel(q)] # q /\ inFlight'[Channel(q)] # q
      BY <2>2, <1>0 DEF IInv, TypeOK
    <3>3. Channel(q) # Channel(r) => inFlight'[Channel(q)] = inFlight[Channel(q)]
      BY Places DEF IInv, TypeOK
    <3>4. QED
      BY <3>1, <3>2, <3>3 DEF IInv, FlightInv, AnswerInv
  <2>3. QED
    BY <2>1, <2>2
<1>6. RenameInv'
  BY DEF IInv, TypeOK, RenameInv, HasFile
<1>7. PartHasOwner' /\ DownloadedIsWhole' /\ CompletedHasFile'
  BY DEF IInv, TypeOK, FilesInv, PartHasOwner, DownloadedIsWhole, CompletedHasFile
<1>8. QED
  BY <1>1, <1>2, <1>3, <1>4, <1>5, <1>6, <1>7 DEF IInv, FilesInv

\* The cancel button only queues a cancel.
LEMMA PressCancelIInv ==
  ASSUME IInv, NEW r \in Requests, PressCancel(r)
  PROVE  IInv'
<1> USE DEF PressCancel, native
<1>1. TypeOK'
  BY DEF IInv, TypeOK
<1>2. QueueInv' /\ StepInv' /\ RecordInv' /\ ExportUntouched' /\ FlightInv' /\ AnswerInv'
  BY DEF IInv, QueueInv, StepInv, RecordInv, ExportUntouched, FlightInv, AnswerInv
<1>3. RenameInv' /\ FilesInv'
  BY DEF IInv, RenameInv, HasFile, FilesInv, PartHasOwner, DownloadedIsWhole, CompletedHasFile
<1>4. QED
  BY <1>1, <1>2, <1>3 DEF IInv

\* With a new extension every call in flight becomes one that was left behind.
LEMMA RecreatedIInv ==
  ASSUME IInv, Recreated
  PROVE  IInv'
<1> USE DEF Recreated, native
<1>0. \A q \in Requests : /\ inFlight'[Channel(q)] # q
                          /\ pc[q] = "waiting" => pc'[q] = "end"
                          /\ pc[q] # "waiting" => pc'[q] = pc[q]
  BY Places
<1>1. TypeOK'
  <2>1. pc' \in [Requests -> Steps]
    BY DEF IInv, TypeOK, Steps
  <2>2. inFlight' \in [Channels -> Requests \cup {None}] /\ queue' \in [Channels -> Seq(Requests)]
    OBVIOUS
  <2>3. abandoned' \subseteq Requests
    BY DEF IInv, TypeOK
  <2>4. QED
    BY <2>1, <2>2, <2>3 DEF IInv, TypeOK
<1>2. QueueInv'
  BY DEF QueueInv
<1>3. StepInv' /\ RecordInv' /\ ExportUntouched' /\ AnswerInv'
  <2>1. StepInv'
    BY <1>0 DEF IInv, StepInv
  <2>2. RecordInv'
    BY <1>0 DEF IInv, RecordInv, Working
  <2>3. ExportUntouched' /\ AnswerInv'
    BY <1>0 DEF IInv, ExportUntouched, AnswerInv
  <2>4. QED
    BY <2>1, <2>2, <2>3
<1>4. FlightInv'
  BY <1>0, Places DEF IInv, FlightInv, Called, Working
<1>5. RenameInv'
  BY <1>0 DEF IInv, RenameInv, HasFile
<1>6. PartHasOwner' /\ DownloadedIsWhole' /\ CompletedHasFile'
  BY <1>0 DEF IInv, FilesInv, PartHasOwner, DownloadedIsWhole, CompletedHasFile
<1>7. QED
  BY <1>1, <1>2, <1>3, <1>4, <1>5, <1>6 DEF IInv, FilesInv

\* A killed process leaves files, and no call that could still touch them.
LEMMA ProcessKilledIInv ==
  ASSUME IInv, ProcessKilled
  PROVE  IInv'
<1> USE DEF ProcessKilled
<1>0. \A q \in Requests :
        /\ inFlight'[Channel(q)] # q
        /\ pc[q] \in Called => pc'[q] = "killed"
        /\ pc[q] \notin Called => pc'[q] = pc[q]
        /\ pc'[q] \notin Called
  BY Places DEF IInv, TypeOK, Steps, Running, Called, Working
<1>1. TypeOK'
  <2>1. pc' \in [Requests -> Steps]
    BY DEF IInv, TypeOK, Steps
  <2>2. inFlight' \in [Channels -> Requests \cup {None}]
    OBVIOUS
  <2>3. canceller' \in [Cancellers -> [at : {"idle", "fire", "close"}, fn : Tracked \cup {None}]]
    BY DEF Resting
  <2>4. result' \in [Requests -> Snapshots] /\ task' \in Snapshots
    BY IdleType
  <2>5. QED
    BY <2>1, <2>2, <2>3, <2>4 DEF IInv, TypeOK
<1>2. QueueInv'
  <2>1. \A c \in Channels : \A i \in 1 .. Len(queue[c]) :
          queue[c][i] \in Requests /\ pc[queue[c][i]] = "waiting"
    BY DEF IInv, TypeOK, QueueInv
  <2>2. \A c \in Channels : \A i \in 1 .. Len(queue[c]) : pc'[queue[c][i]] = "waiting"
    <3>1. "waiting" \notin Called
      BY DEF Called, Working
    <3>2. QED
      BY ONLY <1>0, <2>1, <3>1
  <2>3. queue' = queue /\ QueueInv
    BY DEF IInv
  <2>4. QED
    BY ONLY <2>2, <2>3 DEF QueueInv
<1>3. StepInv' /\ FlightInv' /\ AnswerInv'
  BY <1>0 DEF StepInv, FlightInv, AnswerInv, Called, Working
<1>4. RecordInv' /\ ExportUntouched'
  BY DEF RecordInv, ExportUntouched, Idle, Snapshot, Active
<1>5. RenameInv'
  BY <1>0 DEF RenameInv, Called, Working
<1>6. PartHasOwner'
  BY <1>0 DEF IInv, FilesInv, PartHasOwner, Called, Working
<1>7. DownloadedIsWhole' /\ CompletedHasFile'
  BY <1>0 DEF IInv, FilesInv, DownloadedIsWhole, CompletedHasFile, Called
<1>8. QED
  BY <1>1, <1>2, <1>3, <1>4, <1>5, <1>6, <1>7 DEF IInv, FilesInv

\* cancelTaildriveTransfer fails the active record under its own request id.
LEMMA CancelTaskIInv ==
  ASSUME IInv, NEW c \in Cancellers, CancelTask(c)
  PROVE  IInv'
<1> USE DEF CancelTask
<1>0. /\ task'.id = task.id
      /\ task' = task \/ task'.state = "failed"
      /\ ~Active(task')
  <2>1. CASE Active(task)
    <3>1. PICK reason : task' = Snapshot(task.id, "failed", reason)
      BY <2>1
    <3>2. QED
      BY <3>1 DEF Snapshot, Active
  <2>2. CASE ~Active(task)
    BY <2>2
  <2>3. QED
    BY <2>1, <2>2
<1>1. TypeOK'
  <2>1. task' \in Snapshots
    <3>1. Snapshot(task.id, "failed", "cancelled") \in Snapshots
          /\ Snapshot(task.id, "failed", "disconnected") \in Snapshots
      BY SnapshotType DEF IInv, TypeOK, Snapshots, States, Reasons
    <3>2. QED
      BY <3>1 DEF IInv, TypeOK
  <2>2. canceller' \in [Cancellers -> [at : {"idle", "fire", "close"}, fn : Tracked \cup {None}]]
    BY DEF IInv, TypeOK
  <2>3. wanted' \subseteq Tracked
    BY DEF CallCancel, IInv, TypeOK
  <2>4. QED
    BY <2>1, <2>2, <2>3 DEF IInv, TypeOK
<1>2. QueueInv' /\ StepInv' /\ ExportUntouched' /\ FlightInv'
  BY DEF IInv, QueueInv, StepInv, ExportUntouched, FlightInv
<1>3. RecordInv'
  BY <1>0 DEF IInv, RecordInv
<1>4. AnswerInv'
  BY <1>0 DEF IInv, AnswerInv
<1>5. RenameInv' /\ FilesInv'
  BY DEF IInv, RenameInv, HasFile, FilesInv, PartHasOwner, DownloadedIsWhole, CompletedHasFile
<1>6. QED
  BY <1>1, <1>2, <1>3, <1>4, <1>5 DEF IInv

\* The cancel function it took is that of a tracked call; closing the server and the
\* next start touch neither records nor files.
LEMMA CancelStepIInv ==
  ASSUME IInv, CancelStep \/ Restart
  PROVE  IInv'
<1>0. /\ UNCHANGED <<task, stopFn, whole, local, part, pc, result, inFlight, ui>>
      /\ cancelled' \subseteq Requests /\ cancelled' \cap Manuals = {}
      /\ orphaned' \subseteq Requests /\ client' \in BOOLEAN
      /\ canceller' \in [Cancellers -> [at : {"idle", "fire", "close"}, fn : Tracked \cup {None}]]
  <2>0. /\ canceller \in [Cancellers -> [at : {"idle", "fire", "close"}, fn : Tracked \cup {None}]]
        /\ cancelled \subseteq Requests /\ orphaned \subseteq Requests /\ client \in BOOLEAN
        /\ cancelled \cap Manuals = {}
    BY DEF IInv, TypeOK, ExportUntouched
  <2>1. CASE StopClose
    BY <2>0, <2>1 DEF StopClose, Resting, Cancellers
  <2>2. ASSUME NEW c \in Cancellers, CancelContext(c) PROVE <1>0!:
    <3>1. canceller[c].fn \in Tracked \cup {None}
      BY <2>0
    <3>2. cancelled' \subseteq Requests /\ cancelled' \cap Manuals = {}
      BY <2>0, <2>2, <3>1, Exports DEF CancelContext
    <3>3. QED
      BY <2>0, <2>2, <3>2 DEF CancelContext, Resting
  <2>3. CASE Restart
    BY <2>0, <2>3 DEF Restart
  <2>4. QED
    BY <2>1, <2>2, <2>3 DEF CancelStep
<1> USE <1>0 DEF ui
<1>1. TypeOK'
  BY DEF IInv, TypeOK
<1>2. QueueInv' /\ StepInv' /\ RecordInv' /\ ExportUntouched' /\ FlightInv' /\ AnswerInv'
  BY DEF IInv, QueueInv, StepInv, RecordInv, ExportUntouched, FlightInv, AnswerInv
<1>3. RenameInv' /\ FilesInv'
  BY DEF IInv, RenameInv, HasFile, FilesInv, PartHasOwner, DownloadedIsWhole, CompletedHasFile
<1>4. QED
  BY <1>1, <1>2, <1>3 DEF IInv
-----------------------------------------------------------------------------
\* Every step keeps the inductive invariant.
LEMMA NextIInv == IInv /\ [Next]_vars => IInv'
<1> SUFFICES ASSUME IInv, [Next]_vars PROVE IInv'
  OBVIOUS
<1>1. ASSUME NEW r \in Requests,
             OpenPreview(r) \/ QueueRequest(r) \/ PressCancel(r) \/ CallNative(r)
             \/ CallStep(r) \/ PromiseSettles(r)
      PROVE  IInv'
  BY <1>1, OpenPreviewIInv, QueueRequestIInv, PressCancelIInv, CallNativeIInv, CallStepIInv,
     PromiseSettlesIInv
<1>2. CASE UNCHANGED vars
  <2>1. TypeOK'
    BY <1>2 DEF IInv, TypeOK, vars, native, ui
  <2>2. QueueInv' /\ StepInv' /\ RecordInv' /\ ExportUntouched' /\ FlightInv' /\ AnswerInv'
    BY <1>2 DEF IInv, QueueInv, StepInv, RecordInv, ExportUntouched, FlightInv, AnswerInv,
       vars, native, ui
  <2>3. RenameInv' /\ FilesInv'
    BY <1>2 DEF IInv, RenameInv, HasFile, FilesInv, PartHasOwner, DownloadedIsWhole,
       CompletedHasFile, vars, native, ui
  <2>4. QED
    BY <2>1, <2>2, <2>3 DEF IInv
<1>3. QED
  BY <1>1, <1>2, RecreatedIInv, ProcessKilledIInv, CancelTaskIInv, CancelStepIInv DEF Next

\* The inductive invariant holds in every reachable state.
LEMMA SpecIInv == Spec => []IInv
  BY InitIInv, NextIInv, PTL DEF Spec

\* The transfer slot is never wedged: an active record has a running call that settles
\* it and that call's cancel function, and neither an export nor a cancel meant for
\* another takes part in it, for any number of previews, uploads and exports.
THEOREM SlotKept == Spec => []SlotInv
<1>1. IInv => SlotInv
  BY DEF IInv, SlotInv, RecordInv, ActiveHasCall, Running, Working
<1>2. QED
  BY <1>1, SpecIInv, PTL

\* The files on disk are what the calls say they are: a .part file has one owner, what
\* stands under a final name is whole, and a download that reports success has its
\* payload in place, also across overlapping downloads of one path and a killed process.
THEOREM FilesKept == Spec => []FilesInv
<1>1. IInv => FilesInv
  BY DEF IInv
<1>2. QED
  BY <1>1, SpecIInv, PTL

\* The answer written for a request is its own, or the record of a call an earlier
\* extension left running.
THEOREM AnswersOwn == Spec => []AnswerIsOwn
<1>1. IInv => AnswerIsOwn
  BY DEF IInv, AnswerInv, AnswerIsOwn
<1>2. QED
  BY <1>1, SpecIInv, PTL
-----------------------------------------------------------------------------
(* Browsing, for any machines and any deadlines *)

CONSTANTS Machines, MaxSession, PeerWarmupTimeout, ColdProbeTimeout, ListTimeout,
          MutationTimeout, QueryGatewayTimeout, MutationGatewayTimeout
VARIABLES session, path, warmAt, readyAt, query

Browse == INSTANCE TaildriveBrowse

\* The time a query may have taken when it comes to a step: only a list warms its peer up
\* and probes it, so that a stat or a mutation has spent nothing before its request.
Spent(q) ==
    /\ q.at \in {"warm", "mark", "probe"} => q.op = "list" /\ q.machine \in Machines
    /\ q.at = "warm" => q.elapsed = 0
    /\ q.at \in {"mark", "server", "probe"} => q.elapsed <= PeerWarmupTimeout
    /\ q.at # "answer" => q.elapsed <= PeerWarmupTimeout + ColdProbeTimeout
    /\ q.at # "answer" /\ q.op # "list" => q.elapsed = 0
    /\ q.at = "answer" =>
         q.elapsed <= IF q.op = "mutate" THEN MutationTimeout
                      ELSE PeerWarmupTimeout + ColdProbeTimeout + ListTimeout

BrowseInv == Browse!TypeOK /\ Spent(query)

\* The type of a query.
Queries == [at : Browse!Steps, op : Browse!Operations, machine : Machines \cup {"none"},
            on : 0 .. MaxSession, tried : BOOLEAN, elapsed : Nat]

\* The deadlines are numbers.
LEMMA DeadlineTypes ==
  ASSUME Browse!Deadlines
  PROVE  /\ MaxSession \in Nat \ {0} /\ PeerWarmupTimeout \in Nat /\ ColdProbeTimeout \in Nat
         /\ ListTimeout \in Nat /\ MutationTimeout \in Nat
         /\ QueryGatewayTimeout \in Nat /\ MutationGatewayTimeout \in Nat
  BY DEF Browse!Deadlines

\* No query.
LEMMA NoQuerySpent ==
  ASSUME Browse!Deadlines
  PROVE  Browse!NoQuery \in Queries /\ Spent(Browse!NoQuery)
  BY DeadlineTypes DEF Browse!NoQuery, Queries, Browse!Steps, Browse!Operations, Spent

\* A query at another step, later.
LEMMA QueryAt ==
  ASSUME NEW q \in Queries, NEW at \in Browse!Steps, NEW tried \in BOOLEAN, NEW elapsed \in Nat
  PROVE  LET r == [q EXCEPT !.at = at]
             t == [[q EXCEPT !.at = at] EXCEPT !.tried = tried]
         IN  /\ r \in Queries /\ t \in Queries
             /\ [r EXCEPT !.elapsed = elapsed] \in Queries
             /\ [t EXCEPT !.elapsed = elapsed] \in Queries
<1>1. ASSUME NEW p \in Queries PROVE [p EXCEPT !.elapsed = elapsed] \in Queries
  BY <1>1 DEF Queries
<1>2. [q EXCEPT !.at = at] \in Queries
  BY DEF Queries
<1>3. ASSUME NEW p \in Queries PROVE [p EXCEPT !.tried = tried] \in Queries
  BY <1>3 DEF Queries
<1>4. QED
  BY <1>1, <1>2, <1>3

\* A query that goes on after some time.
LEMMA GotoQuery ==
  ASSUME query \in Queries, NEW at \in Browse!Steps, NEW time \in Nat, Browse!Goto(at, time)
  PROVE  /\ query' \in Queries /\ query'.at = at /\ query'.op = query.op
         /\ query'.machine = query.machine /\ query'.elapsed = query.elapsed + time
<1> DEFINE elapsed == query.elapsed + time
<1>1. elapsed \in Nat
  BY DEF Queries
<1>2. query' = [[query EXCEPT !.at = at] EXCEPT !.elapsed = elapsed]
  BY DEF Browse!Goto
<1> HIDE DEF elapsed
<1>3. query' \in Queries
  BY <1>1, <1>2, QueryAt
<1>4. /\ query'.at = at /\ query'.op = query.op
      /\ query'.machine = query.machine /\ query'.elapsed = elapsed
  BY <1>2 DEF Queries
<1>5. QED
  BY <1>3, <1>4 DEF elapsed

\* Steps of the query: the time of a call is added to what its step may have spent.
LEMMA QueryStepSpent ==
  ASSUME Browse!Deadlines, BrowseInv, Browse!QueryStep
  PROVE  BrowseInv'
<1>1. /\ query \in Queries /\ Spent(query) /\ query.elapsed \in Nat
      /\ path \subseteq Machines /\ warmAt \subseteq Machines /\ readyAt \subseteq Machines
  BY DEF BrowseInv, Browse!TypeOK, Queries
<1>2. ASSUME NEW at \in Browse!Steps, NEW time \in Nat, Browse!Goto(at, time)
      PROVE  /\ query' \in Queries /\ query'.at = at /\ query'.op = query.op
             /\ query'.machine = query.machine /\ query'.elapsed = query.elapsed + time
  BY <1>1, <1>2, GotoQuery
<1>3. ASSUME query' \in Queries, Spent(query'), UNCHANGED <<session, client>>,
             path' \subseteq Machines, warmAt' \subseteq Machines, readyAt' \subseteq Machines
      PROVE  BrowseInv'
  <2>1. session' \in 1 .. MaxSession /\ client' \in BOOLEAN
    BY <1>3 DEF BrowseInv, Browse!TypeOK
  <2>2. QED
    BY <1>3, <2>1 DEF BrowseInv, Browse!TypeOK, Queries, Browse!Steps, Browse!Operations
<1> USE DeadlineTypes
<1>4. CASE Browse!WarmUp
  <2>1. /\ query.at = "warm" /\ query.machine \in Machines /\ query.op = "list"
        /\ query.elapsed = 0 /\ UNCHANGED <<session, client, warmAt, readyAt>>
    BY <1>1, <1>4 DEF Browse!WarmUp, Spent
  <2>2. PICK answered \in BOOLEAN, time \in {0, PeerWarmupTimeout} :
          /\ path' = IF answered THEN path \cup {query.machine} ELSE path
          /\ query' = [query EXCEPT !.at = IF answered THEN "mark" ELSE "server",
                                    !.tried = TRUE, !.elapsed = @ + time]
    BY <1>4 DEF Browse!WarmUp
  <2>3. time \in Nat /\ time <= PeerWarmupTimeout
    OBVIOUS
  <2>4. /\ query' \in Queries /\ query'.at \in {"mark", "server"} /\ query'.op = "list"
        /\ query'.machine = query.machine /\ query'.elapsed = time
    <3> DEFINE at == IF answered THEN "mark" ELSE "server"
               elapsed == query.elapsed + time
    <3>1. at \in {"mark", "server"} /\ at \in Browse!Steps
      BY DEF Browse!Steps
    <3>2. elapsed \in Nat /\ elapsed = time
      BY <2>1, <2>3
    <3>3. query' = [[[query EXCEPT !.at = at] EXCEPT !.tried = TRUE] EXCEPT !.elapsed = elapsed]
      BY <2>2
    <3> HIDE DEF at, elapsed
    <3>4. query' \in Queries
      BY <1>1, <3>1, <3>2, <3>3, QueryAt
    <3>5. query'.at = at /\ query'.op = query.op /\ query'.machine = query.machine /\ query'.elapsed = elapsed
      BY <1>1, <3>3 DEF Queries
    <3>6. QED
      BY <2>1, <3>1, <3>2, <3>4, <3>5
  <2>5. Spent(query')
    BY <2>1, <2>3, <2>4 DEF Spent
  <2>6. QED
    BY <1>1, <1>3, <2>1, <2>2, <2>4, <2>5
<1>5. CASE Browse!MarkWarm
  <2>1. /\ query.at = "mark" /\ Browse!Goto("server", 0) /\ query.machine \in Machines
        /\ UNCHANGED <<session, client, path, readyAt>> /\ warmAt' = warmAt \cup {query.machine}
    BY <1>1, <1>5 DEF Browse!MarkWarm, Spent
  <2>2. query' \in Queries /\ query'.at = "server" /\ query'.op = query.op /\ query'.elapsed = query.elapsed
    BY <1>1, <1>2, <2>1 DEF Browse!Steps
  <2>3. Spent(query')
    BY <1>1, <2>1, <2>2 DEF Spent
  <2>4. QED
    BY <1>1, <1>3, <2>1, <2>2, <2>3
<1>6. CASE Browse!ReadServer
  <2>1. query.at = "server" /\ UNCHANGED <<session, client, path, warmAt, readyAt>>
    BY <1>6 DEF Browse!ReadServer
  <2>2. PICK at \in {"answer", "probe", "request"}, on \in 0 .. MaxSession :
          /\ query' = [query EXCEPT !.at = at, !.on = on]
          /\ at = "probe" => query.op = "list" /\ query.machine \in Machines
    <3>1. session \in 0 .. MaxSession /\ 0 \in 0 .. MaxSession
      BY DEF BrowseInv, Browse!TypeOK
    <3>2. QED
      BY <1>6, <3>1 DEF Browse!ReadServer
  <2>3. /\ query' \in Queries /\ query'.at = at /\ query'.op = query.op
        /\ query'.machine = query.machine /\ query'.elapsed = query.elapsed
    BY <1>1, <2>2 DEF Queries, Browse!Steps
  <2>4. Spent(query')
    BY <1>1, <2>1, <2>2, <2>3 DEF Spent
  <2>5. QED
    BY <1>1, <1>3, <2>1, <2>3, <2>4
<1>7. CASE Browse!Probe
  <2>1. /\ query.at = "probe" /\ UNCHANGED <<session, client, path, warmAt>>
        /\ readyAt' \in {readyAt, readyAt \cup {query.machine}}
        /\ query.op = "list" /\ query.machine \in Machines /\ query.elapsed <= PeerWarmupTimeout
    BY <1>1, <1>7 DEF Browse!Probe, Browse!MarkReady, Spent
  <2>2. PICK at \in {"answer", "request"}, time \in {0, ColdProbeTimeout} : Browse!Goto(at, time)
    BY <1>7 DEF Browse!Probe
  <2>3. time \in Nat /\ time <= ColdProbeTimeout /\ at \in Browse!Steps
    BY DEF Browse!Steps
  <2>4. /\ query' \in Queries /\ query'.at = at /\ query'.op = "list"
        /\ query'.elapsed = query.elapsed + time
    BY <1>2, <2>1, <2>2, <2>3
  <2>5. Spent(query')
    BY <1>1, <2>1, <2>3, <2>4 DEF Spent
  <2>6. QED
    BY <1>1, <1>3, <2>1, <2>4, <2>5
<1>8. CASE Browse!Propfind \/ Browse!Mutate
  <2>1. /\ query.at = "request" /\ UNCHANGED <<session, client, warmAt>>
        /\ path' \subseteq Machines /\ readyAt' \subseteq Machines
    BY <1>1, <1>8 DEF Browse!Propfind, Browse!Mutate, Browse!MarkReady
  <2>2. PICK time \in Nat :
          /\ Browse!Goto("answer", time)
          /\ time <= IF query.op = "mutate" THEN MutationTimeout ELSE ListTimeout
    BY <1>8 DEF Browse!Propfind, Browse!Mutate
  <2>3. /\ query' \in Queries /\ query'.at = "answer" /\ query'.op = query.op
        /\ query'.elapsed = query.elapsed + time
    BY <1>2, <2>2 DEF Browse!Steps
  <2>4. Spent(query')
    BY <1>1, <2>1, <2>2, <2>3 DEF Spent
  <2>5. QED
    BY <1>1, <1>3, <2>1, <2>3, <2>4
<1>9. CASE Browse!Answer
  BY <1>1, <1>3, <1>9, NoQuerySpent DEF Browse!Answer
<1>10. QED
  BY <1>4, <1>5, <1>6, <1>7, <1>8, <1>9 DEF Browse!QueryStep

\* A query begins with nothing spent.
LEMMA BeginSpent ==
  ASSUME Browse!Deadlines, BrowseInv, NEW op \in Browse!Operations,
         NEW m \in Machines \cup {"none"}, Browse!Begin(op, m)
  PROVE  BrowseInv'
<1>1. PICK at \in {"answer", "warm", "server"}, on \in 0 .. MaxSession :
        /\ query' = [Browse!NoQuery EXCEPT !.at = at, !.op = op, !.machine = m, !.on = on]
        /\ at = "warm" => op = "list" /\ m \in Machines
  <2>1. session \in 0 .. MaxSession /\ 0 \in 0 .. MaxSession
    BY DeadlineTypes DEF BrowseInv, Browse!TypeOK
  <2>2. QED
    BY <2>1 DEF Browse!Begin
<1>2. /\ query' \in Queries /\ query'.at = at /\ query'.op = op /\ query'.machine = m
      /\ query'.elapsed = 0
  BY <1>1 DEF Browse!NoQuery, Queries, Browse!Steps, Browse!Operations
<1>3. Spent(query')
  BY <1>1, <1>2, DeadlineTypes DEF Spent
<1>4. Browse!TypeOK'
  BY <1>2 DEF BrowseInv, Browse!TypeOK, Browse!Begin, Queries, Browse!Steps, Browse!Operations
<1>5. QED
  BY <1>3, <1>4 DEF BrowseInv

\* The backend comes and goes without the query.
LEMMA BackendSpent ==
  ASSUME Browse!Deadlines, BrowseInv,
         \/ \E m \in Machines : Browse!Expire(m)
         \/ Browse!Stop \/ Browse!Start \/ Browse!RestartWithTun \/ UNCHANGED Browse!vars
  PROVE  BrowseInv'
<1>1. query' = query
  BY DEF Browse!Expire, Browse!Stop, Browse!Start, Browse!RestartWithTun, Browse!vars
<1>2. session' \in 1 .. MaxSession
  BY DeadlineTypes DEF BrowseInv, Browse!TypeOK, Browse!Expire, Browse!Stop, Browse!Start,
                       Browse!RestartWithTun, Browse!vars
<1>3. /\ client' \in BOOLEAN
      /\ path' \subseteq Machines /\ warmAt' \subseteq Machines /\ readyAt' \subseteq Machines
  BY DEF BrowseInv, Browse!TypeOK, Browse!Expire, Browse!Stop, Browse!Start,
         Browse!RestartWithTun, Browse!vars
<1>4. QED
  BY <1>1, <1>2, <1>3 DEF BrowseInv, Browse!TypeOK, Browse!Steps, Browse!Operations, Spent

\* For any machines, backends and deadlines of which a warm-up, a cold probe and a list
\* together, and a mutation, leave the UI time: whatever a query meets on its way, and
\* whatever becomes of the backend meanwhile, it answers before the gateway gives up.
THEOREM QueriesInTime == Browse!Deadlines => (Browse!Spec => []Browse!QueryInv)
<1> SUFFICES ASSUME Browse!Deadlines PROVE Browse!Spec => []Browse!QueryInv
  OBVIOUS
<1>1. Browse!Init => BrowseInv
  <2> SUFFICES ASSUME Browse!Init PROVE BrowseInv
    OBVIOUS
  <2>1. query \in Queries /\ Spent(query)
    BY NoQuerySpent DEF Browse!Init
  <2>2. session \in 1 .. MaxSession
    BY DeadlineTypes DEF Browse!Init
  <2>3. client \in BOOLEAN /\ path \subseteq Machines /\ warmAt \subseteq Machines /\ readyAt \subseteq Machines
    BY DEF Browse!Init
  <2>4. QED
    BY <2>1, <2>2, <2>3 DEF BrowseInv, Browse!TypeOK, Queries
<1>2. BrowseInv /\ [Browse!Next]_(Browse!vars) => BrowseInv'
  BY QueryStepSpent, BeginSpent, BackendSpent DEF Browse!Next
<1>3. BrowseInv => Browse!QueryInv
  <2> SUFFICES ASSUME BrowseInv PROVE Browse!QueryInTime
    BY DEF BrowseInv, Browse!QueryInv
  <2>1. query.elapsed \in Nat /\ Spent(query)
    BY DEF BrowseInv, Browse!TypeOK
  <2>2. QED
    BY <2>1, DeadlineTypes DEF Spent, Browse!QueryInTime, Browse!Deadlines
<1>4. QED
  BY <1>1, <1>2, <1>3, PTL DEF Browse!Spec
=============================================================================
