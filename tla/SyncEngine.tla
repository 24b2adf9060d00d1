------------------------------ MODULE SyncEngine ------------------------------
(***************************************************************************)
(* The synchronization engine of omnifuse-core (sync_engine.rs) between    *)
(* the file mutation pipeline that feeds it (file_mutations.rs) and a      *)
(* backend that honours the contract of backend.rs.                        *)
(*                                                                         *)
(* Three kinds of tasks share state: FUSE operations change local files    *)
(* and try_send events into a bounded channel, dirty_worker drains the     *)
(* channel and calls Backend::sync, poll_worker calls                      *)
(* Backend::refresh_remote.  Every await between two accesses to shared    *)
(* state separates two actions.                                            *)
(*                                                                         *)
(* A file is a version number: buf is what the application wrote last,     *)
(* disk what the local directory holds, synced what the remote received.   *)
(***************************************************************************)
EXTENDS Naturals, Sequences, FiniteSets

CONSTANTS
  Paths,        \* files of the mount
  Tracked,      \* the files Backend::should_track accepts
  Capacity,     \* slots of the event channel (256 in the code)
  MaxVersion,   \* bound: how often the application changes one file
  RemoteFiles,  \* bound: the files that others change at the remote
  Outcomes,     \* what Backend::sync may answer in this instance
  MountEnds     \* how the mount may end in this instance

ASSUME SyncEngineAssumption ==
  /\ Tracked \subseteq Paths
  /\ Capacity \in Nat \ {0}
  /\ MaxVersion \in Nat
  /\ RemoteFiles \subseteq Tracked
  /\ Outcomes \subseteq {"success", "conflict", "offline", "error"}
  /\ MountEnds \subseteq {"unmount", "failure"}

VARIABLES
  buf,          \* latest content written by the application
  disk,         \* content of the local file
  synced,       \* latest content handed to the remote, or received from it
  opened,       \* files with an open handle
  note,         \* the event a FUSE operation is about to try_send
  queue,        \* the event channel
  dropped,      \* history: files one of whose events was dropped
  mount,        \* phase of run_mount
  dirtySet,     \* dirty_set of dirty_worker
  dirtyIndex,   \* the shared DirtyIndex
  trigger,      \* trigger_sync
  armed,        \* debounce_deadline is not far_future
  wpc,          \* where dirty_worker is
  batch,        \* the files handed to Backend::sync
  uploaded,     \* the part of the batch the backend has dealt with
  conflicted,   \* history: files whose last finished sync was a conflict
  incoming,     \* files with remote changes that have not been applied here
  pollPc,       \* where poll_worker is
  applying      \* changes refresh_remote decided to apply and has not yet

localVars  == <<buf, disk, opened, note>>
workerVars == <<dirtySet, trigger, armed, wpc, batch, uploaded, conflicted>>
pollVars   == <<incoming, pollPc, applying>>
engineVars == <<synced, queue, dropped, mount, dirtyIndex, workerVars, pollVars>>
vars == <<buf, disk, synced, opened, note, queue, dropped, mount, dirtySet,
          dirtyIndex, trigger, armed, wpc, batch, uploaded, conflicted,
          incoming, pollPc, applying>>

FileEvent  == [kind : {"modified", "closed"}, path : Paths]
FlushEvent    == [kind |-> "flush"]
ShutdownEvent == [kind |-> "shutdown"]
FsEvent    == FileEvent \cup {FlushEvent, ShutdownEvent}

Version == 0 .. MaxVersion

TypeOK ==
  /\ buf \in [Paths -> Version]
  /\ disk \in [Paths -> Version]
  /\ synced \in [Paths -> Version]
  /\ opened \in SUBSET Paths
  /\ note \in [Paths -> {"none", "modified", "closed"}]
  /\ queue \in Seq(FsEvent)
  /\ Len(queue) <= Capacity
  /\ dropped \in SUBSET Paths
  /\ mount \in {"mounted", "stopping", "stopped", "failed"}
  /\ dirtySet \in SUBSET Paths
  /\ dirtyIndex \in SUBSET Tracked
  /\ trigger \in BOOLEAN
  /\ armed \in BOOLEAN
  /\ wpc \in {"select", "syncing", "final", "done"}
  /\ batch \in SUBSET Tracked
  /\ uploaded \in SUBSET batch
  /\ conflicted \in SUBSET Tracked
  /\ incoming \in SUBSET Tracked
  /\ pollPc \in {"sleep", "apply", "dead"}
  /\ applying \in SUBSET Tracked

Init ==
  /\ buf = [p \in Paths |-> 0]
  /\ disk = [p \in Paths |-> 0]
  /\ synced = [p \in Paths |-> 0]
  /\ opened = {}
  /\ note = [p \in Paths |-> "none"]
  /\ queue = <<>>
  /\ dropped = {}
  /\ mount = "mounted"
  /\ dirtySet = {}
  /\ dirtyIndex = {}
  /\ trigger = FALSE
  /\ armed = FALSE
  /\ wpc = "select"
  /\ batch = {}
  /\ uploaded = {}
  /\ conflicted = {}
  /\ incoming = {}
  /\ pollPc = "sleep"
  /\ applying = {}

(***************************************************************************)
(* FUSE operations.  A change reaches the buffer or the disk first and is  *)
(* announced afterwards, by a try_send of its own (Notify).                *)
(***************************************************************************)
Idle(p) == mount = "mounted" /\ note[p] = "none"

Open(p) ==
  /\ Idle(p)
  /\ p \notin opened
  /\ opened' = opened \cup {p}
  /\ UNCHANGED <<buf, disk, note, engineVars>>

\* OpenFileMutation::write changes the buffer only.
Write(p) ==
  /\ Idle(p)
  /\ p \in opened
  /\ buf[p] < MaxVersion
  /\ buf' = [buf EXCEPT ![p] = @ + 1]
  /\ note' = [note EXCEPT ![p] = "modified"]
  /\ UNCHANGED <<disk, opened, engineVars>>

\* create_file, truncate, unlink, rename and symlink change the disk at once.
MutateDisk(p) ==
  /\ Idle(p)
  /\ buf[p] < MaxVersion
  /\ buf' = [buf EXCEPT ![p] = @ + 1]
  /\ disk' = [disk EXCEPT ![p] = buf[p] + 1]
  /\ note' = [note EXCEPT ![p] = "modified"]
  /\ UNCHANGED <<opened, engineVars>>

\* flush and fsync write the buffer out and announce nothing.
Flush(p) ==
  /\ Idle(p)
  /\ p \in opened
  /\ buf[p] # disk[p]
  /\ disk' = [disk EXCEPT ![p] = buf[p]]
  /\ UNCHANGED <<buf, opened, note, engineVars>>

\* close is a flush followed by FileClosed, whether or not anything changed.
Close(p) ==
  /\ Idle(p)
  /\ p \in opened
  /\ disk' = [disk EXCEPT ![p] = buf[p]]
  /\ opened' = opened \ {p}
  /\ note' = [note EXCEPT ![p] = "closed"]
  /\ UNCHANGED <<buf, engineVars>>

\* Mutant: an unbounded channel.
NotifyUnbounded(p) ==
  /\ note[p] # "none"
  /\ note' = [note EXCEPT ![p] = "none"]
  /\ queue' = Append(queue, [kind |-> note[p], path |-> p])
  /\ UNCHANGED <<buf, disk, opened, synced, mount, dropped, dirtyIndex, workerVars, pollVars>>

\* DirtySink::send: try_send fails when the channel is full or closed, and the
\* pipeline only emits a warning.
Notify(p) ==
  /\ note[p] # "none"
  /\ note' = [note EXCEPT ![p] = "none"]
  /\ IF Len(queue) < Capacity /\ wpc # "done"
       THEN /\ queue' = Append(queue, [kind |-> note[p], path |-> p])
            /\ UNCHANGED dropped
       ELSE /\ dropped' = dropped \cup {p}
            /\ UNCHANGED queue
  /\ UNCHANGED <<buf, disk, opened, synced, mount, dirtyIndex, workerVars, pollVars>>

\* Any holder of SyncEngine::sender may ask for an immediate sync.
RequestFlush ==
  /\ mount = "mounted"
  /\ Len(queue) < Capacity
  /\ queue' = Append(queue, FlushEvent)
  /\ UNCHANGED <<localVars, synced, dropped, mount, dirtyIndex, workerVars, pollVars>>

(***************************************************************************)
(* The end of run_mount.  An unmount delivered every release first; then   *)
(* shutdown aborts poll_worker and waits for a slot for Shutdown.  When    *)
(* host.mount fails instead, shutdown is never called: the senders are     *)
(* dropped and nothing stops poll_worker.                                  *)
(***************************************************************************)
Unmount ==
  /\ "unmount" \in MountEnds
  /\ mount = "mounted"
  /\ opened = {}
  /\ \A p \in Paths : note[p] = "none"
  /\ mount' = "stopping"
  /\ pollPc' = "dead"
  /\ applying' = {}
  /\ UNCHANGED <<localVars, synced, queue, dropped, dirtyIndex, incoming, workerVars>>

SendShutdown ==
  /\ mount = "stopping"
  /\ Len(queue) < Capacity
  /\ mount' = "stopped"
  /\ queue' = Append(queue, ShutdownEvent)
  /\ UNCHANGED <<localVars, synced, dropped, dirtyIndex, workerVars, pollVars>>

MountFails ==
  /\ "failure" \in MountEnds
  /\ mount = "mounted"
  /\ mount' = "failed"
  /\ UNCHANGED <<localVars, synced, queue, dropped, dirtyIndex, workerVars, pollVars>>

(***************************************************************************)
(* dirty_worker.                                                           *)
(***************************************************************************)
\* Mutant: an empty final sync returns to the loop.
BeginSyncNeverEnds(files, at) ==
  /\ dirtySet' = {}
  /\ batch' = files \cap Tracked
  /\ uploaded' = {}
  /\ wpc' = IF files \cap Tracked # {} THEN at ELSE "select"

\* do_sync up to its await: drain the set, keep the tracked files.
BeginSync(files, at) ==
  /\ dirtySet' = {}
  /\ batch' = files \cap Tracked
  /\ uploaded' = {}
  /\ wpc' = IF files \cap Tracked # {} THEN at
            ELSE IF at = "final" THEN "done" ELSE "select"

\* The rest of an iteration of the loop, after select! picked its branch.
AfterSelect(files, wanted) ==
  IF wanted /\ files # {}
    THEN BeginSync(files, "syncing") /\ trigger' = FALSE
    ELSE /\ dirtySet' = files
         /\ trigger' = wanted
         /\ UNCHANGED <<wpc, batch, uploaded>>

Receive(kind) ==
  /\ wpc = "select"
  /\ queue # <<>>
  /\ Head(queue).kind = kind
  /\ queue' = Tail(queue)

\* Mutant: the worker collects a file and leaves it unprotected.
MarkDirtyForgotten(p) == UNCHANGED dirtyIndex

MarkDirty(p) == dirtyIndex' = dirtyIndex \cup ({p} \cap Tracked)

HandleModified ==
  /\ Receive("modified")
  /\ LET p == Head(queue).path IN
       /\ MarkDirty(p)
       /\ AfterSelect(dirtySet \cup {p}, trigger)
  /\ armed' = TRUE
  /\ UNCHANGED <<localVars, synced, dropped, mount, pollVars, conflicted>>

\* Mutant: a close is collected like a modification, without a sync.
HandleClosedUntriggered ==
  /\ Receive("closed")
  /\ LET p == Head(queue).path IN
       /\ MarkDirty(p)
       /\ AfterSelect(dirtySet \cup {p}, trigger)
  /\ UNCHANGED <<localVars, synced, dropped, mount, pollVars, armed,
                 conflicted>>

HandleClosed ==
  /\ Receive("closed")
  /\ LET p == Head(queue).path IN
       /\ MarkDirty(p)
       /\ AfterSelect(dirtySet \cup {p}, TRUE)
  /\ UNCHANGED <<localVars, synced, dropped, mount, pollVars, armed,
                 conflicted>>

HandleFlush ==
  /\ Receive("flush")
  /\ AfterSelect(dirtySet, TRUE)
  /\ UNCHANGED <<localVars, synced, dropped, mount, pollVars, armed, conflicted,
                 dirtyIndex>>

\* The debounce deadline passes; the timer branch needs a dirty file.
DebounceFires ==
  /\ wpc = "select"
  /\ armed
  /\ dirtySet # {}
  /\ armed' = FALSE
  /\ AfterSelect(dirtySet, TRUE)
  /\ UNCHANGED <<localVars, synced, queue, dropped, mount, pollVars,
                 conflicted, dirtyIndex>>

\* Mutant: the worker ends, and its set with it, without a final sync.
HandleShutdownWithoutSync ==
  /\ Receive("shutdown")
  /\ wpc' = "done"
  /\ dirtySet' = {}
  /\ UNCHANGED <<localVars, synced, dropped, mount, pollVars, armed, trigger,
                 conflicted, dirtyIndex, batch, uploaded>>

HandleShutdown ==
  /\ Receive("shutdown")
  /\ BeginSync(dirtySet, "final")
  /\ UNCHANGED <<localVars, synced, dropped, mount, pollVars, armed, trigger,
                 conflicted, dirtyIndex>>

\* recv() returns None once the channel is empty and every sender is gone.
HandleChannelClosed ==
  /\ wpc = "select"
  /\ queue = <<>>
  /\ mount = "failed"
  /\ \A p \in Paths : note[p] = "none"
  /\ BeginSync(dirtySet, "final")
  /\ UNCHANGED <<localVars, synced, queue, dropped, mount, pollVars, armed,
                 trigger, conflicted, dirtyIndex>>

(***************************************************************************)
(* Backend::sync, running inside do_sync: it reads and uploads the files   *)
(* one by one and then answers.                                            *)
(***************************************************************************)
Syncing == wpc \in {"syncing", "final"}

UploadFile(p) ==
  /\ Syncing
  /\ p \in batch \ uploaded
  /\ synced' = [synced EXCEPT ![p] = disk[p]]
  /\ uploaded' = uploaded \cup {p}
  /\ UNCHANGED <<localVars, queue, dropped, mount, dirtySet, dirtyIndex, trigger,
                 armed, wpc, batch, conflicted, pollVars>>

SyncReturns(retained, settled) ==
  /\ Syncing
  /\ dirtySet' = dirtySet \cup retained
  /\ dirtyIndex' = dirtyIndex \ settled
  /\ batch' = {}
  /\ uploaded' = {}
  /\ wpc' = IF wpc = "final" THEN "done" ELSE "select"
  /\ UNCHANGED <<localVars, synced, queue, dropped, mount, trigger, armed, pollVars>>

SyncSuccess ==
  /\ "success" \in Outcomes
  /\ uploaded = batch
  /\ conflicted' = conflicted \ batch
  /\ SyncReturns({}, batch)

\* Mutant: a conflict is handled like a success.
SyncConflictAsSuccess(conflicts) ==
  /\ "conflict" \in Outcomes
  /\ conflicts # {}
  /\ conflicts \subseteq batch
  /\ batch \ conflicts \subseteq uploaded
  /\ conflicted' = conflicted \ batch
  /\ SyncReturns({}, batch)

\* Conflicting files stay protected, the others are clean.  None is retried.
SyncConflict(conflicts) ==
  /\ "conflict" \in Outcomes
  /\ conflicts # {}
  /\ conflicts \subseteq batch
  /\ batch \ conflicts \subseteq uploaded
  /\ conflicted' = (conflicted \ batch) \cup conflicts
  /\ SyncReturns({}, batch \ conflicts)

\* Mutant: an offline answer is handled like a success.
SyncOfflineAsSuccess ==
  /\ "offline" \in Outcomes
  /\ SyncReturns({}, batch)
  /\ UNCHANGED conflicted

\* Offline and Err put the whole batch back and schedule nothing.
SyncOffline ==
  /\ "offline" \in Outcomes
  /\ SyncReturns(batch, {})
  /\ UNCHANGED conflicted

SyncError ==
  /\ "error" \in Outcomes
  /\ SyncReturns(batch, {})
  /\ UNCHANGED conflicted

(***************************************************************************)
(* poll_worker and Backend::refresh_remote: the protection is read before  *)
(* the changes are applied, file by file.                                  *)
(***************************************************************************)
RemoteChange(p) ==
  /\ p \in RemoteFiles \ incoming
  /\ incoming' = incoming \cup {p}
  /\ UNCHANGED <<localVars, synced, queue, dropped, mount, workerVars, dirtyIndex,
                 pollPc, applying>>

IsProtected(p) == p \in dirtyIndex

\* A change to a protected file defers the whole refresh and changes nothing.
RefreshStart ==
  /\ pollPc = "sleep"
  /\ incoming # {}
  /\ ~ \E p \in incoming : IsProtected(p)
  /\ pollPc' = "apply"
  /\ applying' = incoming
  /\ UNCHANGED <<localVars, synced, queue, dropped, mount, workerVars, dirtyIndex,
                 incoming>>

\* The remote content replaces the local one.  A clean buffer is reloaded at
\* the next access, a dirty one is kept.
RefreshApply(p) ==
  /\ pollPc = "apply"
  /\ p \in applying
  /\ disk' = [disk EXCEPT ![p] = synced[p]]
  /\ buf' = [buf EXCEPT ![p] = IF @ = disk[p] THEN synced[p] ELSE @]
  /\ incoming' = incoming \ {p}
  /\ applying' = applying \ {p}
  /\ UNCHANGED <<opened, note, synced, queue, dropped, mount, workerVars,
                 dirtyIndex, pollPc>>

RefreshEnd ==
  /\ pollPc = "apply"
  /\ applying = {}
  /\ pollPc' = "sleep"
  /\ UNCHANGED <<localVars, synced, queue, dropped, mount, workerVars, dirtyIndex,
                 incoming, applying>>

FileOperation(p) ==
  \/ Open(p) \/ Write(p) \/ MutateDisk(p) \/ Flush(p) \/ Close(p)

Environment ==
  \/ \E p \in Paths : FileOperation(p)
  \/ \E p \in Paths : RemoteChange(p)
  \/ RequestFlush
  \/ Unmount
  \/ MountFails

DirtyWorker ==
  \/ HandleModified
  \/ HandleClosed
  \/ HandleFlush
  \/ HandleShutdown
  \/ HandleChannelClosed

SyncCall ==
  \/ \E p \in Paths : UploadFile(p)
  \/ SyncSuccess
  \/ \E conflicts \in SUBSET batch : SyncConflict(conflicts)
  \/ SyncOffline
  \/ SyncError

PollWorker ==
  \/ RefreshStart
  \/ \E p \in Paths : RefreshApply(p)
  \/ RefreshEnd

Next ==
  \/ Environment
  \/ \E p \in Paths : Notify(p)
  \/ SendShutdown
  \/ DirtyWorker
  \/ DebounceFires
  \/ SyncCall
  \/ PollWorker

Spec == Init /\ [][Next]_vars

(***************************************************************************)
(* The runtime keeps polling its tasks, so every step of a worker that     *)
(* stays enabled is taken; nothing obliges an application, the remote or   *)
(* the user to act.                                                        *)
(***************************************************************************)
Fairness ==
  /\ \A p \in Paths : WF_vars(Notify(p))
  /\ WF_vars(SendShutdown)
  /\ WF_vars(DirtyWorker)
  /\ WF_vars(DebounceFires)
  /\ WF_vars(SyncCall)
  /\ WF_vars(PollWorker)

FairSpec == Spec /\ Fairness

--------------------------------------------------------------------------------
PathsIn(q) ==
  {p \in Paths : \E i \in 1 .. Len(q) : q[i] \in FileEvent /\ q[i].path = p}
Queued == PathsIn(queue)
Held   == (dirtySet \cup batch) \cap Tracked
Announced == {p \in Paths : note[p] # "none"} \cup Queued

(***************************************************************************)
(* An edit the remote has not received is never forgotten by the whole     *)
(* pipeline: a handle that will be closed, an announcement on its way, the *)
(* worker, or a reported conflict or queue overflow still stands for it.   *)
(* It rests on the order change, announce, collect, read, mark_clean       *)
(* across FUSE tasks, channel and worker (file_mutations.rs:250-309,       *)
(* sync_engine.rs:199-349).                                                *)
(***************************************************************************)
EditsAccountedFor ==
  \A p \in Tracked :
    (disk[p] # synced[p] \/ buf[p] # disk[p]) =>
      p \in opened \cup Announced \cup Held \cup conflicted \cup dropped

(***************************************************************************)
(* The DirtyIndex shared with poll_worker protects exactly the tracked     *)
(* files the worker holds and the conflicting ones: nothing the worker     *)
(* will upload is exposed to a refresh, and no file is left protected      *)
(* (which would defer every refresh) once it is clean                      *)
(* (sync_engine.rs:204-212, 285-310, 331, 349).                            *)
(***************************************************************************)
ProtectionExact == dirtyIndex = Held \cup conflicted

(***************************************************************************)
(* A file loses its protection only in a step that ends a sync in which    *)
(* the backend dealt with that very file (sync_engine.rs:284-310).         *)
(***************************************************************************)
ProtectionReleasedByUpload ==
  [][dirtyIndex \ dirtyIndex' \subseteq batch \cap uploaded]_vars

(***************************************************************************)
(* When poll_worker decides to apply remote changes, none of them is to a  *)
(* file the worker still has to upload or is uploading                     *)
(* (sync_engine.rs:400-405).                                               *)
(***************************************************************************)
RefreshSparesHeldFiles ==
  [][pollPc' = "apply" /\ pollPc = "sleep" => applying' \cap Held = {}]_vars

(***************************************************************************)
(* A worker that ended with an empty dirty set has delivered every edit    *)
(* announced before Shutdown, except conflicting and dropped ones, and     *)
(* left nothing in the channel (sync_engine.rs:220-230).  Files whose      *)
(* handles a failed mount left open were never announced as closed.        *)
(***************************************************************************)
FinalSyncLeavesNothing ==
  (wpc = "done" /\ dirtySet = {}) =>
    /\ queue = <<>>
    /\ \A p \in Tracked :
         disk[p] # synced[p] => p \in opened \cup conflicted \cup dropped

(***************************************************************************)
(* A change that is announced, or about to be, is handed to the backend,   *)
(* whatever the answers to other syncs are and also when the mount ends,   *)
(* unless its event is dropped (sync_engine.rs:203-243); and a file that   *)
(* was kept after a failed sync is handed to it again once any further     *)
(* event arrives, "will retry on next event" (sync_engine.rs:347-349).     *)
(***************************************************************************)
AnnouncedIsTried ==
  \A p \in Tracked :
    /\ (p \in Announced) ~> (p \in batch \cup dropped)
    /\ (wpc = "select" /\ p \in dirtySet /\ \E q \in Paths : q \in Queued)
         ~> (p \in batch)

(***************************************************************************)
(* Both ends of run_mount end the worker: after Shutdown, or after the     *)
(* senders are gone, dirty_worker finishes (sync_engine.rs:220-230).       *)
(***************************************************************************)
WorkerTerminates == (mount # "mounted") ~> (wpc = "done")

--------------------------------------------------------------------------------
(***************************************************************************)
(* The inductive invariant behind the properties above.                    *)
(***************************************************************************)
\* A change made while its file is being uploaded is announced, will be, or
\* its event was dropped.
UploadedChangesAnnounced ==
  \A p \in uploaded :
    disk[p] # synced[p] => p \in opened \cup Announced \cup dropped

\* Only an open handle keeps a buffer that differs from the disk.
UnflushedOpen == \A p \in Paths : buf[p] # disk[p] => p \in opened

BatchInSyncOnly == wpc \in {"select", "done"} => batch = {}

\* do_sync drains dirty_set before it awaits, and nobody else fills it.
DrainedBySync == wpc \in {"syncing", "final"} => dirtySet = {}

\* After an unmount nothing is announced any more, and Shutdown is last.
QuietAfterUnmount ==
  mount \in {"stopping", "stopped"} => opened = {} /\ \A p \in Paths : note[p] = "none"

ShutdownLast ==
  \A i \in 1 .. Len(queue) :
    queue[i].kind = "shutdown" => i = Len(queue) /\ mount = "stopped"

QuietAtEnd ==
  wpc \in {"final", "done"} =>
    /\ queue = <<>>
    /\ mount \in {"stopped", "failed"}
    /\ \A p \in Paths : note[p] = "none"

IInv ==
  /\ TypeOK
  /\ ProtectionExact
  /\ EditsAccountedFor
  /\ UploadedChangesAnnounced
  /\ UnflushedOpen
  /\ BatchInSyncOnly
  /\ DrainedBySync
  /\ QuietAfterUnmount
  /\ ShutdownLast
  /\ QuietAtEnd
================================================================================
