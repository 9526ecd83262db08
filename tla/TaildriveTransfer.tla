-------------------------- MODULE TaildriveTransfer --------------------------
(***************************************************************************)
(* Taildrive downloads and uploads (taildrive.go).  Previews and uploads    *)
(* are tracked: they share the record b.taildriveTask and the cancel        *)
(* function b.taildriveStop under b.taildriveMu.  Manual exports have a     *)
(* request channel and a context of their own.  A download writes a .part   *)
(* file that it creates exclusively and renames when it is whole.           *)
(*                                                                          *)
(* The calls run on worker threads of the VPN extension, one at a time per  *)
(* channel.  The UI cancels through a third channel, with a request that    *)
(* does not say which transfer it is about.  All previews here are of one   *)
(* remote entry, so they share a local path; a manual export stages its own.*)
(* Sizes, names and progress are left out.                                  *)
(***************************************************************************)
EXTENDS Sequences

CONSTANTS Previews, Manuals, Uploads,   \* request ids
          Workloads,   \* the sets of requests the user may make
          None

ASSUME RequestsAssumption ==
    /\ Previews \cap Manuals = {} /\ Previews \cap Uploads = {}
    /\ Manuals \cap Uploads = {}
    /\ None \notin Previews \cup Manuals \cup Uploads
    /\ "preview" \notin Manuals   \* an export has a path of its own
    /\ Workloads \subseteq SUBSET (Previews \cup Manuals \cup Uploads)

Requests == Previews \cup Manuals \cup Uploads
Tracked == Previews \cup Uploads
Downloads == Previews \cup Manuals

VARIABLES
    task,       \* b.taildriveTask
    stopFn,     \* b.taildriveStop: the request whose context it cancels, or None
    client,     \* taildriveServer() finds a running backend
    pc,         \* where the call of each request is
    result,     \* the snapshot the call returned
    cancelled,  \* requests whose context was cancelled
    orphaned,   \* requests whose server was closed
    whole,      \* downloads whose whole payload has been written
    local,      \* the final file at each path: the download it came from, or None
    part,       \* the .part file at each path, likewise
    canceller,  \* calls of cancelTaildriveTransfer and the function they took
    inFlight,   \* the extension's in-flight flags: the request of each channel
    queue,      \* the gateway's transferQueue and manualTransferQueue
    preview,    \* the UI's previewRequestId
    wanted,     \* cancels the UI has queued, by the transfer they are meant for
    meant,      \* history: every transfer a cancel was meant for
    abandoned   \* history: calls whose extension is gone

native == <<task, stopFn, client, cancelled, orphaned, whole, local, part>>
ui == <<queue, preview, wanted, meant, abandoned>>
vars == <<native, pc, result, canceller, inFlight, ui>>

Snapshot(r, state, reason) == [id |-> r, state |-> state, reason |-> reason]
Idle == Snapshot(None, "idle", "none")
Active(t) == t.state \in {"queued", "transferring"}

States == {"idle", "queued", "transferring", "completed", "failed"}
Reasons == {"none", "error", "busy", "cancelled", "disconnected"}
Steps == {"unused", "none", "waiting", "begin", "request", "check", "create", "copy",
          "rename", "finish", "cleanup", "done", "end", "killed"}
Running(r) == pc[r] \notin {"unused", "none", "waiting", "done", "end", "killed"}

Paths == Manuals \cup {"preview"}
Path(r) == IF r \in Previews THEN "preview" ELSE r
Channels == {"transfer", "manual"}
Channel(r) == IF r \in Manuals THEN "manual" ELSE "transfer"
Cancellers == {"user", "stop"}
Resting == [at |-> "idle", fn |-> None]

\* One of the workloads is still to come; other requests are never made.
Init ==
    /\ task = Idle /\ stopFn = None /\ client = TRUE
    /\ \E workload \in Workloads :
         pc = [r \in Requests |-> IF r \in workload THEN "none" ELSE "unused"]
    /\ result = [r \in Requests |-> Idle]
    /\ cancelled = {} /\ orphaned = {} /\ whole = {}
    /\ local = [p \in Paths |-> None] /\ part = [p \in Paths |-> None]
    /\ canceller = [c \in Cancellers |-> Resting]
    /\ inFlight = [c \in Channels |-> None]
    /\ queue = [c \in Channels |-> <<>>]
    /\ preview = None /\ wanted = {} /\ meant = {} /\ abandoned = {}

Goto(r, at) == pc' = [pc EXCEPT ![r] = at]
Enqueue(r) == queue' = [queue EXCEPT ![Channel(r)] = Append(@, r)]
-----------------------------------------------------------------------------
(* The UI and the extension *)

\* downloadForPreview cancels the preview before it without waiting for the
\* answer, removes the old file and queues its request.
OpenPreview(r) ==
    /\ r \in Previews /\ pc[r] = "none"
    /\ wanted' = wanted \cup ({preview} \ {None})
    /\ meant' = meant \cup ({preview} \ {None})
    /\ preview' = r
    /\ local' = [local EXCEPT !["preview"] = None]
    /\ Goto(r, "waiting") /\ Enqueue(r)
    /\ UNCHANGED <<task, stopFn, client, cancelled, orphaned, whole, part, result,
                   canceller, inFlight, abandoned>>

\* download (an export, with a fresh directory) and executeUpload.
QueueRequest(r) ==
    /\ r \in Manuals \cup Uploads /\ pc[r] = "none"
    /\ Goto(r, "waiting") /\ Enqueue(r)
    /\ UNCHANGED <<native, result, canceller, inFlight, preview, wanted, meant, abandoned>>

\* The cancel button: for the preview if there is one, else for the upload.
PressCancel(r) ==
    /\ r \in Tracked \ meant /\ pc[r] \notin {"unused", "none", "end", "killed"}
    /\ r \in Previews => preview = r
    /\ r \in Uploads => preview = None
    /\ wanted' = wanted \cup {r}
    /\ meant' = meant \cup {r}
    /\ preview' = None
    /\ UNCHANGED <<native, pc, result, canceller, inFlight, queue, abandoned>>

\* completeTaildriveRequest: the response is written and the flag released; the
\* UI takes it if it still waits for it.
PromiseSettles(r) ==
    /\ pc[r] = "done" /\ inFlight[Channel(r)] = r
    /\ inFlight' = [inFlight EXCEPT ![Channel(r)] = None]
    /\ preview' = IF preview = r THEN None ELSE preview
    /\ Goto(r, "end")
    /\ result' = [result EXCEPT ![r] = Idle]
    /\ cancelled' = cancelled \ {r} /\ orphaned' = orphaned \ {r}
    /\ UNCHANGED <<task, stopFn, client, whole, local, part, canceller, queue, wanted, meant,
                   abandoned>>

\* A new extension, and a UI started anew, in place of the ones that made the calls:
\* their flags and queues are gone while the native calls run on.
Recreated ==
    /\ ~client /\ canceller["stop"] = Resting
    /\ inFlight' = [c \in Channels |-> None]
    /\ preview' = None /\ wanted' = {}
    /\ queue' = [c \in Channels |-> <<>>]
    /\ pc' = [r \in Requests |-> IF pc[r] = "waiting" THEN "end" ELSE pc[r]]
    /\ abandoned' = abandoned \cup ({inFlight[c] : c \in Channels} \ {None})
    /\ UNCHANGED <<native, result, canceller, meant>>

\* The extension's process is killed: its calls and its memory are gone, the files
\* stay.  The UI's requests time out.
ProcessKilled ==
    /\ \E r \in Requests : Running(r)
    /\ pc' = [r \in Requests |-> IF Running(r) \/ pc[r] = "done" THEN "killed" ELSE pc[r]]
    /\ task' = Idle /\ stopFn' = None /\ client' = FALSE
    /\ canceller' = [c \in Cancellers |-> Resting]
    /\ inFlight' = [c \in Channels |-> None]
    /\ preview' = None /\ wanted' = {}
    /\ result' = [r \in Requests |-> Idle]
    /\ cancelled' = {} /\ orphaned' = {}
    /\ UNCHANGED <<whole, local, part, queue, meant, abandoned>>
-----------------------------------------------------------------------------
(* taildriveDownloadWithTracking and taildriveUpload *)

\* finishTaildriveTransfer leaves, and returns, the record: its own if it is still
\* active, whichever there is otherwise.
FinishedUnchecked(r, state, reason) == Snapshot(r, state, reason)
Finished(r, state, reason) ==
    IF task.id = r /\ Active(task) THEN Snapshot(r, state, reason) ELSE task

FinishForgotten(r, state, reason) ==
    /\ result' = [result EXCEPT ![r] = Snapshot(r, state, reason)]
    /\ UNCHANGED <<task, stopFn>>
Finish(r, state, reason) ==
    IF r \in Tracked
    THEN /\ task' = Finished(r, state, reason)
         /\ stopFn' = IF task.id = r /\ Active(task) THEN None ELSE stopFn
         /\ result' = [result EXCEPT ![r] = Finished(r, state, reason)]
    ELSE /\ result' = [result EXCEPT ![r] = Snapshot(r, state, reason)]
         /\ UNCHANGED <<task, stopFn>>

\* The ways out: before the .part file exists the call simply returns; after that
\* the deferred removal runs once the record is settled.
Fail(r, reason, at) ==
    /\ Finish(r, "failed", reason)
    /\ Goto(r, at)
    /\ UNCHANGED <<client, cancelled, orphaned, whole, local, part>>

\* classifyTaildriveError of what a call bound to the context returned.
Failures(r) == {"error"} \cup (IF r \in cancelled THEN {"cancelled"} ELSE {})

\* Without a record: the request does not validate, the backend is not running,
\* or another transfer has the slot.
Refuse(r, reason) ==
    /\ result' = [result EXCEPT ![r] = Snapshot(r, "failed", reason)]
    /\ Goto(r, "done")
    /\ UNCHANGED native

\* processTaildriveTransferRequest and processTaildriveManualTransferRequest take
\* one request at a time.
ChannelFreeUnchecked(r) == TRUE
ChannelFree(r) == inFlight[Channel(r)] = None

\* The call begins: validateTaildriveTransferRequest, os.Stat for an upload and
\* taildriveServer.
CallNative(r) ==
    /\ queue[Channel(r)] # <<>> /\ r = Head(queue[Channel(r)]) /\ ChannelFree(r)
    /\ queue' = [queue EXCEPT ![Channel(r)] = Tail(@)]
    /\ inFlight' = [inFlight EXCEPT ![Channel(r)] = r]
    /\ \/ Refuse(r, "error")
       \/ client /\ Goto(r, "begin") /\ UNCHANGED <<native, result>>
    /\ UNCHANGED <<canceller, preview, wanted, meant, abandoned>>

\* beginTaildriveTransfer for a tracked request; a manual one has its own context.
BeginTracksAll(r) ==
    /\ pc[r] = "begin"
    /\ IF Active(task)
       THEN Refuse(r, "busy")
       ELSE /\ Goto(r, "request")
            /\ task' = Snapshot(r, "queued", "none") /\ stopFn' = r
            /\ UNCHANGED <<client, cancelled, orphaned, whole, local, part, result>>
Begin(r) ==
    /\ pc[r] = "begin"
    /\ IF r \in Tracked /\ Active(task)
       THEN Refuse(r, "busy")
       ELSE /\ Goto(r, "request")
            /\ IF r \in Tracked THEN task' = Snapshot(r, "queued", "none") /\ stopFn' = r
                                ELSE UNCHANGED <<task, stopFn>>
            /\ UNCHANGED <<client, cancelled, orphaned, whole, local, part, result>>

\* The GET of a download answers, and updateTaildriveTransfer marks the record.
GetReturns(r) ==
    /\ pc[r] = "request" /\ r \in Downloads
    /\ \/ /\ r \notin orphaned
          /\ task' = IF r \in Tracked /\ task.id = r /\ Active(task)
                     THEN Snapshot(r, "transferring", "none") ELSE task
          /\ Goto(r, "check")
          /\ UNCHANGED <<stopFn, client, cancelled, orphaned, whole, local, part, result>>
       \/ \E reason \in Failures(r) : Fail(r, reason, "done")

\* The PUT of an upload: reading the file marks the record, then it ends.
PutProgress(r) ==
    /\ pc[r] = "request" /\ r \in Uploads
    /\ task.id = r /\ task.state = "queued"
    /\ task' = Snapshot(r, "transferring", "none")
    /\ UNCHANGED <<stopFn, client, cancelled, orphaned, whole, local, part, pc, result>>

PutReturns(r) ==
    /\ pc[r] = "request" /\ r \in Uploads
    /\ \/ /\ r \notin orphaned
          /\ Finish(r, "completed", "none")
          /\ Goto(r, "done")
          /\ UNCHANGED <<client, cancelled, orphaned, whole, local, part>>
       \/ \E reason \in Failures(r) : Fail(r, reason, "done")

\* os.Lstat of the final path.
CheckLocal(r) ==
    /\ pc[r] = "check"
    /\ IF local[Path(r)] # None
       THEN Fail(r, "error", "done")
       ELSE Goto(r, "create") /\ UNCHANGED <<native, result>>

\* os.Lstat of the .part path and its exclusive creation.
CreatePartTruncating(r) ==
    /\ pc[r] = "create"
    /\ part' = [part EXCEPT ![Path(r)] = r]
    /\ Goto(r, "copy")
    /\ UNCHANGED <<task, stopFn, client, cancelled, orphaned, whole, local, result>>
CreatePart(r) ==
    /\ pc[r] = "create"
    /\ \/ Fail(r, "error", "done")
       \/ /\ part[Path(r)] = None
          /\ part' = [part EXCEPT ![Path(r)] = r]
          /\ Goto(r, "copy")
          /\ UNCHANGED <<task, stopFn, client, cancelled, orphaned, whole, local, result>>

\* io.CopyBuffer ends: an error, fewer bytes than announced, or all of them.
CopyReturns(r) ==
    /\ pc[r] = "copy"
    /\ \/ \E reason \in Failures(r) : Fail(r, reason, "cleanup")
       \/ /\ r \notin orphaned
          /\ whole' = whole \cup {r}
          /\ Goto(r, "rename")
          /\ UNCHANGED <<task, stopFn, client, cancelled, orphaned, local, part, result>>

\* Sync, Close and os.Rename, which replaces whatever is at the final path.
RenamePartUnchecked(r) ==
    /\ pc[r] = "rename"
    /\ part' = [part EXCEPT ![Path(r)] = None]
    /\ Goto(r, "finish")
    /\ UNCHANGED <<task, stopFn, client, cancelled, orphaned, whole, local, result>>
RenamePart(r) ==
    /\ pc[r] = "rename"
    /\ \/ Fail(r, "error", "cleanup")
       \/ /\ local' = [local EXCEPT ![Path(r)] = part[Path(r)]]
          /\ part' = [part EXCEPT ![Path(r)] = None]
          /\ Goto(r, "finish")
          /\ UNCHANGED <<task, stopFn, client, cancelled, orphaned, whole, result>>

FinishDownload(r) ==
    /\ pc[r] = "finish"
    /\ Finish(r, "completed", "none")
    /\ Goto(r, "done")
    /\ UNCHANGED <<client, cancelled, orphaned, whole, local, part>>

\* The deferred os.Remove of the .part file.
CleanupForgotten(r) ==
    /\ pc[r] = "cleanup"
    /\ Goto(r, "done")
    /\ UNCHANGED <<native, result>>
Cleanup(r) ==
    /\ pc[r] = "cleanup"
    /\ part' = [part EXCEPT ![Path(r)] = None]
    /\ Goto(r, "done")
    /\ UNCHANGED <<task, stopFn, client, cancelled, orphaned, whole, local, result>>

CallStep(r) ==
    /\ \/ Begin(r)
       \/ GetReturns(r) \/ PutProgress(r) \/ PutReturns(r)
       \/ CheckLocal(r) \/ CreatePart(r) \/ CopyReturns(r) \/ RenamePart(r)
       \/ FinishDownload(r) \/ Cleanup(r)
    /\ UNCHANGED <<canceller, inFlight, ui>>
-----------------------------------------------------------------------------
(* cancelTaildriveTransfer *)

\* Who may call it: the control channel for the next queued cancel, stop and
\* restartWithTun at any time.
CallCancel(c) ==
    /\ canceller[c] = Resting
    /\ IF c = "user" THEN \E r \in wanted : wanted' = wanted \ {r}
                     ELSE client /\ wanted' = wanted

\* The critical section takes the function and fails the active record, whichever
\* request it belongs to.
CancelTask(c) ==
    /\ CallCancel(c)
    /\ task' = IF Active(task)
               THEN Snapshot(task.id, "failed",
                             IF c = "user" THEN "cancelled" ELSE "disconnected")
               ELSE task
    /\ stopFn' = None
    /\ canceller' = [canceller EXCEPT ![c] = [at |-> "fire", fn |-> stopFn]]
    /\ UNCHANGED <<client, cancelled, orphaned, whole, local, part, pc, result, inFlight,
                   queue, preview, meant, abandoned>>

CancelContext(c) ==
    /\ canceller[c].at = "fire"
    /\ cancelled' = cancelled \cup {r \in Requests : r = canceller[c].fn /\ Running(r)}
    /\ canceller' = [canceller EXCEPT ![c] =
                       IF c = "user" THEN Resting ELSE [at |-> "close", fn |-> None]]
    /\ UNCHANGED <<task, stopFn, client, orphaned, whole, local, part, pc, result,
                   inFlight, ui>>

\* stop and restartWithTun drop the backend and close its server: a transfer that
\* began after the cancel is left with a dead server.
StopClose ==
    /\ canceller["stop"].at = "close"
    /\ client' = FALSE
    /\ orphaned' = orphaned \cup {r \in Requests : Running(r)}
    /\ canceller' = [canceller EXCEPT !["stop"] = Resting]
    /\ UNCHANGED <<task, stopFn, cancelled, whole, local, part, pc, result, inFlight, ui>>

\* startWithDevice and startAsync, to the point where the client is there.
Restart ==
    /\ ~client /\ canceller["stop"] = Resting
    /\ client' = TRUE
    /\ UNCHANGED <<task, stopFn, cancelled, orphaned, whole, local, part, pc, result,
                   canceller, inFlight, ui>>

CancelStep == StopClose \/ \E c \in Cancellers : CancelContext(c)
-----------------------------------------------------------------------------
Next ==
    \/ \E r \in Requests :
         OpenPreview(r) \/ QueueRequest(r) \/ PressCancel(r) \/ CallNative(r)
         \/ CallStep(r) \/ PromiseSettles(r)
    \/ Recreated \/ ProcessKilled
    \/ \E c \in Cancellers : CancelTask(c)
    \/ CancelStep \/ Restart

Spec == Init /\ [][Next]_vars
-----------------------------------------------------------------------------
(* Properties *)

Snapshots == [id : Requests \cup {None}, state : States, reason : Reasons]

\* Every variable keeps its type.
TypeOK ==
    /\ task \in Snapshots /\ result \in [Requests -> Snapshots]
    /\ stopFn \in Tracked \cup {None}
    /\ client \in BOOLEAN
    /\ pc \in [Requests -> Steps]
    /\ cancelled \subseteq Requests /\ orphaned \subseteq Requests
    /\ whole \subseteq Downloads
    /\ local \in [Paths -> Downloads \cup {None}]
    /\ part \in [Paths -> Downloads \cup {None}]
    /\ canceller \in [Cancellers -> [at : {"idle", "fire", "close"},
                                     fn : Tracked \cup {None}]]
    /\ inFlight \in [Channels -> Requests \cup {None}]
    /\ queue \in [Channels -> Seq(Requests)]
    /\ preview \in Previews \cup {None}
    /\ wanted \subseteq Tracked /\ meant \subseteq Tracked /\ abandoned \subseteq Requests

\* The slot is never wedged: an active record has a call that runs and will settle
\* it, and the stored cancel function is that call's (every return of the download
\* and the upload passes through finishTaildriveTransfer).
ActiveHasCall ==
    /\ Active(task) => Running(task.id) /\ stopFn = task.id
    /\ stopFn # None => Active(task)

\* A .part file belongs to the one call that works on it and will rename or remove
\* it, whatever other download of the same path is still running; only a killed
\* process leaves one behind (O_EXCL and the deferred removal).
PartHasOwner ==
    \A r \in Downloads :
        /\ part[Path(r)] = r => pc[r] \in {"copy", "rename", "cleanup", "killed"}
        /\ pc[r] \in {"copy", "rename", "cleanup"} => part[Path(r)] = r

\* What stands under the final name is whole: neither an interrupted copy nor
\* another download's unfinished .part file is ever renamed to it.
DownloadedIsWhole == \A p \in Paths : local[p] # None => local[p] \in whole

\* A download that reports success has its own payload in place, unless the UI has
\* removed the file for a new preview since.
CompletedHasFile ==
    \A r \in Downloads :
        result[r] = Snapshot(r, "completed", "none") /\ pc[r] = "done" =>
            \/ local[Path(r)] = r
            \/ r \in Previews /\ \E q \in Previews \ {r} : pc[q] \notin {"unused", "none"}

\* The extension answers a request with that request's outcome:
\* finishTaildriveTransfer may return another transfer's record, but only that of a
\* call an earlier extension left running.
AnswerIsOwn ==
    \A r \in Requests :
        pc[r] = "done" /\ inFlight[Channel(r)] = r => result[r].id \in {r} \cup abandoned

\* An export never takes the slot, is never refused for it, and outlives every cancel:
\* only its own failure, a closed server or the end of the process stops it ("must
\* not occupy the preview transfer slot").
ExportUntouched ==
    /\ \A r \in Manuals : result[r].reason \notin {"busy", "cancelled"}
    /\ cancelled \cap Manuals = {}

\* The slot stays usable: no call that was cancelled, abandoned or came late, and no
\* export, leaves it wedged or takes it from another.
SlotInv == TypeOK /\ ActiveHasCall /\ ExportUntouched

\* The files on disk are what the calls say they are, also when downloads of one path
\* overlap and after the process was killed.
FilesInv == PartHasOwner /\ DownloadedIsWhole /\ CompletedHasFile

\* A user's cancel ends only the transfer it was meant for ("Cancels only the active
\* preview transfer").
CancelHitsItsTarget == task.reason = "cancelled" => task.id \in meant

\* A retry of a preview is refused because of a .part file only while a download is
\* really working on it ("never blocks remote file access").
RetryNotBlocked ==
    [][\A r \in Previews :
         pc[r] = "create" /\ pc'[r] = "done" /\ part["preview"] # None
             => Running(part["preview"])]_vars
=============================================================================
