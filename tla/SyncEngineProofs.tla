--------------------------- MODULE SyncEngineProofs ---------------------------
(***************************************************************************)
(* Proofs about the synchronization engine, for every set of files, every  *)
(* channel capacity and every behaviour of the backend.                    *)
(***************************************************************************)
EXTENDS SyncEngineRefinement, TLAPS

(***************************************************************************)
(* What a channel holds after a send and after a receive.                  *)
(***************************************************************************)
LEMMA PathsInAppend ==
  ASSUME NEW q \in Seq(FsEvent), NEW e \in FsEvent
  PROVE  PathsIn(Append(q, e)) =
           PathsIn(q) \cup (IF e \in FileEvent THEN {e.path} ELSE {})
<1> DEFINE r == Append(q, e)
<1>1. /\ Len(r) = Len(q) + 1
      /\ \A i \in 1 .. Len(q) : r[i] = q[i]
      /\ r[Len(r)] = e
      /\ Len(q) \in Nat
  OBVIOUS
<1>2. ASSUME NEW p \in PathsIn(q) PROVE p \in PathsIn(r)
  <2>1. PICK i \in 1 .. Len(q) : q[i] \in FileEvent /\ q[i].path = p
    BY DEF PathsIn
  <2>2. i \in 1 .. Len(r) /\ r[i] = q[i]
    BY <1>1
  <2>. QED
    BY <2>1, <2>2 DEF PathsIn
<1>3. ASSUME e \in FileEvent PROVE e.path \in PathsIn(r)
  <2>1. e.path \in Paths
    BY <1>3 DEF FileEvent
  <2>2. Len(r) \in 1 .. Len(r) /\ r[Len(r)] = e
    BY <1>1
  <2>. QED
    BY <1>3, <2>1, <2>2 DEF PathsIn
<1>4. ASSUME NEW p \in PathsIn(r)
      PROVE  p \in PathsIn(q) \/ (e \in FileEvent /\ p = e.path)
  <2>1. PICK i \in 1 .. Len(r) : r[i] \in FileEvent /\ r[i].path = p
    BY DEF PathsIn
  <2>2. CASE i = Len(r)
    BY <1>1, <2>1, <2>2
  <2>3. CASE i # Len(r)
    <3>1. i \in 1 .. Len(q) /\ r[i] = q[i]
      BY <1>1, <2>3
    <3>. QED
      BY <2>1, <3>1 DEF PathsIn
  <2>. QED
    BY <2>2, <2>3
<1>. HIDE DEF r
<1>5. PathsIn(r) = PathsIn(q) \cup (IF e \in FileEvent THEN {e.path} ELSE {})
  BY <1>2, <1>3, <1>4
<1>. QED
  BY <1>5 DEF r

LEMMA PathsInTail ==
  ASSUME NEW q \in Seq(FsEvent), q # <<>>
  PROVE  /\ Head(q) \in FsEvent
         /\ Tail(q) \in Seq(FsEvent)
         /\ Len(Tail(q)) = Len(q) - 1
         /\ PathsIn(q) = PathsIn(Tail(q)) \cup
                           (IF Head(q) \in FileEvent THEN {Head(q).path} ELSE {})
<1> DEFINE e == Head(q)
           t == Tail(q)
<1>1. /\ e = q[1]
      /\ e \in FsEvent
      /\ t \in Seq(FsEvent)
      /\ Len(t) = Len(q) - 1
      /\ Len(q) \in Nat \ {0}
      /\ Len(t) \in Nat
      /\ \A i \in 1 .. Len(t) : t[i] = q[i + 1]
  OBVIOUS
<1>. HIDE DEF e, t
<1>2. ASSUME NEW p \in PathsIn(q)
      PROVE  p \in PathsIn(t) \/ (e \in FileEvent /\ p = e.path)
  <2>1. PICK i \in 1 .. Len(q) : q[i] \in FileEvent /\ q[i].path = p
    BY DEF PathsIn
  <2>2. CASE i = 1
    BY <1>1, <2>1, <2>2
  <2>3. CASE i # 1
    <3>1. i - 1 \in 1 .. Len(t) /\ t[i - 1] = q[i]
      BY <1>1, <2>3
    <3>. QED
      BY <2>1, <3>1 DEF PathsIn
  <2>. QED
    BY <2>2, <2>3
<1>3. ASSUME NEW p \in PathsIn(t) PROVE p \in PathsIn(q)
  <2>1. PICK i \in 1 .. Len(t) : t[i] \in FileEvent /\ t[i].path = p
    BY DEF PathsIn
  <2>2. i + 1 \in 1 .. Len(q) /\ t[i] = q[i + 1]
    BY <1>1
  <2>. QED
    BY <2>1, <2>2 DEF PathsIn
<1>4. ASSUME e \in FileEvent PROVE e.path \in PathsIn(q)
  <2>1. e.path \in Paths /\ 1 \in 1 .. Len(q)
    BY <1>1, <1>4 DEF FileEvent
  <2>. QED
    BY <1>1, <1>4, <2>1 DEF PathsIn
<1>5. PathsIn(q) = PathsIn(t) \cup (IF e \in FileEvent THEN {e.path} ELSE {})
  BY <1>2, <1>3, <1>4
<1>. QED
  BY <1>1, <1>5 DEF e, t

(***************************************************************************)
(* A received event of a kind that carries a path carries a file.          *)
(***************************************************************************)
LEMMA ReceivedEvent ==
  ASSUME NEW e \in FsEvent
  PROVE  /\ e.kind \in {"modified", "closed"} => e \in FileEvent /\ e.path \in Paths
         /\ e.kind \in {"flush", "shutdown"} => e \notin FileEvent
BY DEF FsEvent, FileEvent, FlushEvent, ShutdownEvent

--------------------------------------------------------------------------------
(***************************************************************************)
(* Type correctness.                                                       *)
(***************************************************************************)
LEMMA InitTypeOK == Init => TypeOK
<1>. SUFFICES ASSUME Init PROVE TypeOK
  OBVIOUS
<1>1. 0 \in Version
  BY SyncEngineAssumption DEF Version
<1>2. queue \in Seq(FsEvent) /\ Len(queue) <= Capacity
  BY SyncEngineAssumption DEF Init
<1>. QED
  BY <1>1, <1>2 DEF Init, TypeOK

LEMMA ReceiveTypes ==
  ASSUME TypeOK, queue # <<>>, queue' = Tail(queue)
  PROVE  /\ queue' \in Seq(FsEvent)
         /\ Len(queue') <= Capacity
         /\ Head(queue).kind \in {"modified", "closed"} =>
              Head(queue) \in FileEvent /\ Head(queue).path \in Paths
<1>1. queue \in Seq(FsEvent) /\ Len(queue) <= Capacity /\ Len(queue) \in Nat
  BY DEF TypeOK
<1>2. Head(queue) \in FsEvent /\ Tail(queue) \in Seq(FsEvent)
      /\ Len(Tail(queue)) = Len(queue) - 1
  BY <1>1, PathsInTail
<1>. QED
  BY <1>1, <1>2, ReceivedEvent, SyncEngineAssumption

LEMMA SendTypes ==
  ASSUME TypeOK, Len(queue) < Capacity, NEW e \in FsEvent, queue' = Append(queue, e)
  PROVE  queue' \in Seq(FsEvent) /\ Len(queue') <= Capacity
<1>1. queue \in Seq(FsEvent) /\ Len(queue) \in Nat
  BY DEF TypeOK
<1>2. Append(queue, e) \in Seq(FsEvent) /\ Len(Append(queue, e)) = Len(queue) + 1
  BY <1>1
<1>. QED
  BY <1>1, <1>2, SyncEngineAssumption

LEMMA NextTypeOK == TypeOK /\ [Next]_vars => TypeOK'
<1>. SUFFICES ASSUME TypeOK, [Next]_vars PROVE TypeOK'
  OBVIOUS
<1>. USE SyncEngineAssumption
<1>1. ASSUME NEW p \in Paths, FileOperation(p) PROVE TypeOK'
  <2>1. CASE Open(p)
    BY <2>1 DEF Open, Idle, TypeOK, engineVars, workerVars, pollVars
  <2>2. CASE Write(p)
    <3>1. buf' \in [Paths -> Version]
      BY <2>2 DEF Write, TypeOK, Version
    <3>. QED
      BY <2>2, <3>1 DEF Write, TypeOK, engineVars, workerVars, pollVars
  <2>3. CASE MutateDisk(p)
    <3>1. buf' \in [Paths -> Version] /\ disk' \in [Paths -> Version]
      BY <2>3 DEF MutateDisk, TypeOK, Version
    <3>. QED
      BY <2>3, <3>1 DEF MutateDisk, TypeOK, engineVars, workerVars, pollVars
  <2>4. CASE Flush(p)
    BY <2>4 DEF Flush, TypeOK, engineVars, workerVars, pollVars
  <2>5. CASE Close(p)
    BY <2>5 DEF Close, TypeOK, engineVars, workerVars, pollVars
  <2>. QED
    BY <1>1, <2>1, <2>2, <2>3, <2>4, <2>5 DEF FileOperation
<1>2. ASSUME NEW p \in Paths, RemoteChange(p) PROVE TypeOK'
  BY <1>2 DEF RemoteChange, TypeOK, workerVars, localVars
<1>3. CASE RequestFlush
  <2>1. queue' \in Seq(FsEvent) /\ Len(queue') <= Capacity
    BY <1>3, SendTypes DEF RequestFlush, FsEvent
  <2>. QED
    BY <1>3, <2>1 DEF RequestFlush, TypeOK, workerVars, localVars, pollVars
<1>4. CASE Unmount
  BY <1>4 DEF Unmount, TypeOK, workerVars, localVars
<1>5. CASE MountFails
  BY <1>5 DEF MountFails, TypeOK, workerVars, localVars, pollVars
<1>6. ASSUME NEW p \in Paths, Notify(p) PROVE TypeOK'
  <2>1. [kind |-> note[p], path |-> p] \in FsEvent
    BY <1>6 DEF Notify, TypeOK, FsEvent, FileEvent
  <2>2. queue' \in Seq(FsEvent) /\ Len(queue') <= Capacity
    BY <1>6, <2>1, SendTypes DEF Notify, TypeOK
  <2>. QED
    BY <1>6, <2>2 DEF Notify, TypeOK, engineVars, workerVars, pollVars
<1>7. CASE SendShutdown
  <2>1. queue' \in Seq(FsEvent) /\ Len(queue') <= Capacity
    BY <1>7, SendTypes DEF SendShutdown, FsEvent
  <2>. QED
    BY <1>7, <2>1 DEF SendShutdown, TypeOK, workerVars, localVars, pollVars
<1>8. CASE HandleModified
  <2>1. /\ queue' \in Seq(FsEvent)
        /\ Len(queue') <= Capacity
        /\ Head(queue).path \in Paths
    BY <1>8, ReceiveTypes DEF HandleModified, Receive
  <2>. QED
    BY <1>8, <2>1 DEF HandleModified, Receive, MarkDirty, AfterSelect, BeginSync, TypeOK,
                      localVars, pollVars
<1>9. CASE HandleClosed
  <2>1. /\ queue' \in Seq(FsEvent)
        /\ Len(queue') <= Capacity
        /\ Head(queue).path \in Paths
    BY <1>9, ReceiveTypes DEF HandleClosed, Receive
  <2>. QED
    BY <1>9, <2>1 DEF HandleClosed, Receive, MarkDirty, AfterSelect, BeginSync, TypeOK,
                      localVars, pollVars
<1>10. CASE HandleFlush
  <2>1. queue' \in Seq(FsEvent) /\ Len(queue') <= Capacity
    BY <1>10, ReceiveTypes DEF HandleFlush, Receive
  <2>. QED
    BY <1>10, <2>1 DEF HandleFlush, Receive, AfterSelect, BeginSync, TypeOK, localVars,
                       pollVars
<1>11. CASE HandleShutdown
  <2>1. queue' \in Seq(FsEvent) /\ Len(queue') <= Capacity
    BY <1>11, ReceiveTypes DEF HandleShutdown, Receive
  <2>. QED
    BY <1>11, <2>1 DEF HandleShutdown, Receive, BeginSync, TypeOK, localVars, pollVars
<1>12. CASE HandleChannelClosed
  BY <1>12 DEF HandleChannelClosed, BeginSync, TypeOK, localVars, pollVars
<1>13. CASE DebounceFires
  BY <1>13 DEF DebounceFires, AfterSelect, BeginSync, TypeOK, localVars, pollVars
<1>14. ASSUME NEW p \in Paths, UploadFile(p) PROVE TypeOK'
  BY <1>14 DEF UploadFile, TypeOK, localVars, pollVars
<1>15. CASE SyncSuccess
  BY <1>15 DEF SyncSuccess, SyncReturns, Syncing, TypeOK, localVars, pollVars
<1>16. ASSUME NEW conflicts \in SUBSET batch, SyncConflict(conflicts) PROVE TypeOK'
  BY <1>16 DEF SyncConflict, SyncReturns, Syncing, TypeOK, localVars, pollVars
<1>17. CASE SyncOffline
  BY <1>17 DEF SyncOffline, SyncReturns, Syncing, TypeOK, localVars, pollVars
<1>18. CASE SyncError
  BY <1>18 DEF SyncError, SyncReturns, Syncing, TypeOK, localVars, pollVars
<1>19. CASE RefreshStart
  BY <1>19 DEF RefreshStart, TypeOK, localVars, workerVars
<1>20. ASSUME NEW p \in Paths, RefreshApply(p) PROVE TypeOK'
  <2>1. disk' \in [Paths -> Version] /\ buf' \in [Paths -> Version]
    BY <1>20 DEF RefreshApply, TypeOK
  <2>. QED
    BY <1>20, <2>1 DEF RefreshApply, TypeOK, workerVars
<1>21. CASE RefreshEnd
  BY <1>21 DEF RefreshEnd, TypeOK, localVars, workerVars
<1>22. CASE UNCHANGED vars
  BY <1>22 DEF vars, TypeOK
<1>. QED
  BY <1>1, <1>2, <1>3, <1>4, <1>5, <1>6, <1>7, <1>8, <1>9, <1>10, <1>11, <1>12, <1>13,
     <1>14, <1>15, <1>16, <1>17, <1>18, <1>19, <1>20, <1>21, <1>22
     DEF Next, Environment, DirtyWorker, SyncCall, PollWorker

(***************************************************************************)
(* The channel never holds more than its capacity, the batch only tracked  *)
(* files and the index only tracked files, whatever the interleaving.      *)
(***************************************************************************)
THEOREM TypeCorrect == Spec => []TypeOK
<1>. QED
  BY InitTypeOK, NextTypeOK, PTL DEF Spec

--------------------------------------------------------------------------------
(***************************************************************************)
(* The inductive invariant.                                                *)
(***************************************************************************)
LEMMA InitIInv == Init => IInv
<1>. SUFFICES ASSUME Init PROVE IInv
  OBVIOUS
<1>1. Len(queue) = 0
  BY DEF Init
<1>. QED
  BY <1>1, InitTypeOK
     DEF Init, IInv, ProtectionExact, Held, EditsAccountedFor, UploadedChangesAnnounced,
         UnflushedOpen, BatchInSyncOnly, DrainedBySync, QuietAfterUnmount, ShutdownLast, QuietAtEnd

(***************************************************************************)
(* Steps that leave the worker and the channel alone: what the operations  *)
(* of an application must keep for the invariant to survive.               *)
(***************************************************************************)
LEMMA FileOperationIInv ==
  ASSUME IInv, TypeOK', NEW p \in Paths, FileOperation(p)
  PROVE  IInv'
<1>. USE DEF IInv
<1>1. UNCHANGED engineVars /\ note[p] = "none" /\ mount = "mounted"
  BY DEF FileOperation, Open, Write, MutateDisk, Flush, Close, Idle
<1>2. /\ UNCHANGED <<synced, queue, dropped, mount, dirtyIndex, dirtySet, trigger, armed,
                     wpc, batch, uploaded, conflicted>>
      /\ Queued' = Queued
  BY <1>1 DEF engineVars, workerVars, Queued
<1>3. \A x \in Paths \ {p} :
        /\ buf'[x] = buf[x] /\ disk'[x] = disk[x] /\ note'[x] = note[x]
        /\ x \in opened' <=> x \in opened
  BY DEF FileOperation, Open, Write, MutateDisk, Flush, Close, TypeOK
<1>4. \/ disk'[p] = disk[p] /\ buf'[p] = buf[p] /\ p \in opened'
      \/ p \in opened' /\ p \in opened
      \/ note'[p] # "none" /\ disk'[p] = buf'[p]
  BY DEF FileOperation, Open, Write, MutateDisk, Flush, Close, TypeOK
<1>5. Announced \subseteq Announced' /\ (note'[p] # "none" => p \in Announced')
  BY <1>1, <1>2, <1>3 DEF Announced
<1>6. \A x \in Paths : x \in opened \cup Announced => x \in opened' \cup Announced'
  BY <1>3, <1>4, <1>5
<1>7. UnflushedOpen'
  BY <1>3, <1>4 DEF UnflushedOpen
<1>8. EditsAccountedFor'
  BY <1>2, <1>3, <1>4, <1>5, <1>6, SyncEngineAssumption DEF EditsAccountedFor, Held
<1>9. UploadedChangesAnnounced'
  BY <1>2, <1>3, <1>4, <1>5, <1>6, SyncEngineAssumption DEF UploadedChangesAnnounced, TypeOK
<1>10. ProtectionExact' /\ BatchInSyncOnly' /\ DrainedBySync' /\ ShutdownLast'
  BY <1>2 DEF ProtectionExact, Held, BatchInSyncOnly, DrainedBySync, ShutdownLast
<1>11. QuietAfterUnmount' /\ QuietAtEnd'
  BY <1>1, <1>2 DEF QuietAfterUnmount, QuietAtEnd
<1>. QED
  BY <1>7, <1>8, <1>9, <1>10, <1>11

LEMMA NotifyIInv ==
  ASSUME IInv, TypeOK', NEW p \in Paths, Notify(p)
  PROVE  IInv'
<1>. USE DEF IInv
<1>1. /\ UNCHANGED <<buf, disk, opened, synced, mount, dirtyIndex, dirtySet, trigger,
                     armed, wpc, batch, uploaded, conflicted>>
      /\ note[p] # "none" /\ note' = [note EXCEPT ![p] = "none"]
  BY DEF Notify, workerVars
<1>2. dropped \subseteq dropped' /\ Queued \subseteq Queued' /\ p \in Queued' \cup dropped'
  <2>1. CASE Len(queue) < Capacity /\ wpc # "done"
    <3>. DEFINE e == [kind |-> note[p], path |-> p]
    <3>1. queue' = Append(queue, e) /\ dropped' = dropped
      BY <2>1 DEF Notify
    <3>2. e \in FileEvent /\ e \in FsEvent /\ e.path = p
      BY <1>1 DEF TypeOK, FileEvent, FsEvent
    <3>3. queue \in Seq(FsEvent)
      BY DEF TypeOK
    <3>. HIDE DEF e
    <3>. QED
      BY <3>1, <3>2, <3>3, PathsInAppend DEF Queued
  <2>2. CASE ~(Len(queue) < Capacity /\ wpc # "done")
    BY <2>2 DEF Notify, Queued
  <2>. QED
    BY <2>1, <2>2
<1>3. \A x \in Announced : x \in Announced' \cup dropped'
  BY <1>1, <1>2 DEF Announced, TypeOK
<1>4. EditsAccountedFor'
  BY <1>1, <1>2, <1>3, SyncEngineAssumption DEF EditsAccountedFor, Held
<1>5. UploadedChangesAnnounced'
  BY <1>1, <1>2, <1>3 DEF UploadedChangesAnnounced
<1>6. mount \in {"mounted", "failed"} /\ wpc \notin {"final", "done"}
  BY <1>1 DEF QuietAfterUnmount, QuietAtEnd, TypeOK
<1>7. ShutdownLast'
  <2>1. CASE queue' = queue
    BY <1>1, <2>1 DEF ShutdownLast
  <2>2. CASE queue' = Append(queue, [kind |-> note[p], path |-> p])
    <3>1. /\ Len(queue') = Len(queue) + 1
          /\ \A i \in 1 .. Len(queue) : queue'[i] = queue[i]
          /\ queue'[Len(queue) + 1].kind = note[p]
          /\ Len(queue) \in Nat
      BY <2>2 DEF TypeOK
    <3>2. note[p] # "shutdown"
      BY DEF TypeOK
    <3>3. \A i \in 1 .. Len(queue) : queue[i].kind # "shutdown"
      BY <1>6 DEF ShutdownLast
    <3>. QED
      BY <3>1, <3>2, <3>3 DEF ShutdownLast
  <2>. QED
    BY <2>1, <2>2 DEF Notify
<1>8. ProtectionExact' /\ UnflushedOpen' /\ BatchInSyncOnly' /\ DrainedBySync'
  BY <1>1 DEF ProtectionExact, Held, UnflushedOpen, BatchInSyncOnly, DrainedBySync
<1>9. QuietAfterUnmount' /\ QuietAtEnd'
  BY <1>1, <1>6 DEF QuietAfterUnmount, QuietAtEnd
<1>. QED
  BY <1>4, <1>5, <1>7, <1>8, <1>9

(***************************************************************************)
(* Steps of dirty_worker up to the await of a sync.                        *)
(***************************************************************************)
LEMMA AfterSelectHolds ==
  ASSUME IInv, wpc = "select", NEW files \in SUBSET Paths, NEW wanted \in BOOLEAN,
         AfterSelect(files, wanted)
  PROVE  /\ Held' = files \cap Tracked
         /\ uploaded' = {}
         /\ wpc' \in {"select", "syncing"}
         /\ BatchInSyncOnly' /\ DrainedBySync'
<1>1. batch = {} /\ uploaded = {}
  BY DEF IInv, BatchInSyncOnly, TypeOK
<1>. QED
  BY <1>1 DEF AfterSelect, BeginSync, Held, BatchInSyncOnly, DrainedBySync

LEMMA BeginFinalHolds ==
  ASSUME NEW files \in SUBSET Paths, BeginSync(files, "final")
  PROVE  /\ Held' = files \cap Tracked
         /\ uploaded' = {}
         /\ wpc' \in {"final", "done"}
         /\ BatchInSyncOnly' /\ DrainedBySync'
BY DEF BeginSync, Held, BatchInSyncOnly, DrainedBySync

LEMMA CollectIInv ==
  ASSUME IInv, TypeOK',
         UNCHANGED <<localVars, synced, dropped, mount, conflicted>>,
         Held \subseteq Held', dirtyIndex' = Held' \cup conflicted', uploaded' = {},
         \A x \in Queued \cap Tracked : x \in Queued' \cup Held',
         BatchInSyncOnly', DrainedBySync', ShutdownLast', QuietAtEnd'
  PROVE  IInv'
<1>. USE DEF IInv, localVars
<1>1. EditsAccountedFor'
  BY SyncEngineAssumption DEF EditsAccountedFor, Announced
<1>2. UploadedChangesAnnounced' /\ UnflushedOpen' /\ QuietAfterUnmount'
  BY DEF UploadedChangesAnnounced, UnflushedOpen, QuietAfterUnmount
<1>3. ProtectionExact'
  BY DEF ProtectionExact
<1>. QED
  BY <1>1, <1>2, <1>3

LEMMA ReceiveHolds ==
  ASSUME IInv, NEW kind, Receive(kind)
  PROVE  /\ wpc = "select"
         /\ Head(queue) \in FsEvent
         /\ Head(queue).kind = kind
         /\ Queued = Queued' \cup
                      (IF Head(queue) \in FileEvent THEN {Head(queue).path} ELSE {})
         /\ kind # "shutdown" /\ mount' = mount => ShutdownLast'
         /\ kind = "shutdown" => queue' = <<>> /\ mount = "stopped"
<1>. USE DEF IInv, Receive
<1>1. queue \in Seq(FsEvent) /\ queue # <<>> /\ queue' = Tail(queue)
  BY DEF TypeOK
<1>2. /\ Head(queue) = queue[1]
      /\ Len(queue) \in Nat \ {0}
      /\ Len(queue') = Len(queue) - 1
      /\ \A i \in 1 .. Len(queue) - 1 : queue'[i] = queue[i + 1]
      /\ Len(queue) = 1 => queue' = <<>>
  BY <1>1
<1>3. ASSUME mount' = mount PROVE ShutdownLast'
  <2>. SUFFICES ASSUME NEW i \in 1 .. Len(queue'), queue'[i].kind = "shutdown"
                PROVE  i = Len(queue') /\ mount' = "stopped"
    BY DEF ShutdownLast
  <2>1. i + 1 \in 1 .. Len(queue) /\ queue[i + 1].kind = "shutdown" /\ i \in Nat
    BY <1>2
  <2>2. i + 1 = Len(queue) /\ mount = "stopped"
    BY <2>1 DEF ShutdownLast
  <2>3. i = Len(queue')
    <3>. DEFINE n == Len(queue) m == Len(queue')
    <3>1. n \in Nat /\ m = n - 1 /\ i + 1 = n
      BY <1>2, <2>2
    <3>. HIDE DEF n, m
    <3>2. i = m
      BY <2>1, <3>1
    <3>. QED
      BY <3>2 DEF m
  <2>. QED
    BY <1>3, <2>2, <2>3
<1>4. ASSUME kind = "shutdown" PROVE queue' = <<>> /\ mount = "stopped"
  <2>1. 1 \in 1 .. Len(queue) /\ queue[1].kind = "shutdown"
    BY <1>2, <1>4
  <2>. QED
    BY <1>2, <2>1 DEF ShutdownLast
<1>. QED
  BY <1>1, <1>3, <1>4, PathsInTail DEF Queued

LEMMA HandleFileIInv ==
  ASSUME IInv, TypeOK', HandleModified \/ HandleClosed
  PROVE  IInv'
<1>. DEFINE p == Head(queue).path
<1>1. Receive("modified") \/ Receive("closed")
  BY DEF HandleModified, HandleClosed
<1>2. /\ wpc = "select" /\ Head(queue) \in FileEvent /\ p \in Paths
      /\ \A x \in Queued : x \in Queued' \/ x = p
  BY <1>1, ReceiveHolds, ReceivedEvent
<1>3. /\ UNCHANGED <<localVars, synced, dropped, mount, conflicted>>
      /\ dirtyIndex' = dirtyIndex \cup ({p} \cap Tracked)
      /\ \E wanted \in BOOLEAN : AfterSelect(dirtySet \cup {p}, wanted)
  BY DEF HandleModified, HandleClosed, MarkDirty, IInv, TypeOK
<1>4. ShutdownLast'
  BY <1>1, <1>3, ReceiveHolds
<1>5. dirtySet \cup {p} \in SUBSET Paths
  BY <1>2 DEF IInv, TypeOK
<1>6. /\ Held' = (dirtySet \cup {p}) \cap Tracked
      /\ uploaded' = {} /\ wpc' \in {"select", "syncing"} /\ BatchInSyncOnly' /\ DrainedBySync'
  BY <1>2, <1>3, <1>5, AfterSelectHolds
<1>7. batch = {}
  BY <1>2 DEF IInv, BatchInSyncOnly
<1>8. Held' = Held \cup ({p} \cap Tracked)
  BY <1>6, <1>7 DEF Held
<1>9. dirtyIndex' = Held' \cup conflicted'
  BY <1>3, <1>8 DEF IInv, ProtectionExact
<1>10. QuietAtEnd'
  BY <1>6 DEF QuietAtEnd
<1>. HIDE DEF p
<1>. QED
  BY <1>2, <1>3, <1>4, <1>6, <1>8, <1>9, <1>10, CollectIInv

LEMMA HandleFlushIInv ==
  ASSUME IInv, TypeOK', HandleFlush
  PROVE  IInv'
<1>1. /\ wpc = "select" /\ \A x \in Queued : x \in Queued'
      /\ UNCHANGED <<localVars, synced, dropped, mount, conflicted, dirtyIndex>>
      /\ AfterSelect(dirtySet, TRUE) /\ ShutdownLast'
  <2>1. /\ Receive("flush") /\ AfterSelect(dirtySet, TRUE)
        /\ UNCHANGED <<localVars, synced, dropped, mount, conflicted, dirtyIndex>>
    BY DEF HandleFlush
  <2>2. /\ wpc = "select" /\ Head(queue) \in FsEvent /\ Head(queue).kind = "flush"
        /\ \A x \in Queued :
             x \in Queued' \/ (Head(queue) \in FileEvent /\ x = Head(queue).path)
        /\ ShutdownLast'
    BY <2>1, ReceiveHolds
  <2>. QED
    BY <2>1, <2>2, ReceivedEvent
<1>2. /\ Held' = dirtySet \cap Tracked
      /\ uploaded' = {} /\ wpc' \in {"select", "syncing"} /\ BatchInSyncOnly' /\ DrainedBySync'
  BY <1>1, AfterSelectHolds DEF IInv, TypeOK
<1>3. Held' = Held /\ QuietAtEnd'
  BY <1>1, <1>2 DEF IInv, BatchInSyncOnly, Held, QuietAtEnd
<1>4. dirtyIndex' = Held' \cup conflicted'
  BY <1>1, <1>3 DEF IInv, ProtectionExact
<1>. QED
  BY <1>1, <1>2, <1>3, <1>4, CollectIInv

LEMMA DebounceIInv ==
  ASSUME IInv, TypeOK', DebounceFires
  PROVE  IInv'
<1>1. /\ wpc = "select" /\ Queued' = Queued /\ queue' = queue
      /\ UNCHANGED <<localVars, synced, dropped, mount, conflicted, dirtyIndex>>
      /\ AfterSelect(dirtySet, TRUE)
  BY DEF DebounceFires, Queued
<1>2. /\ Held' = dirtySet \cap Tracked
      /\ uploaded' = {} /\ wpc' \in {"select", "syncing"} /\ BatchInSyncOnly' /\ DrainedBySync'
  BY <1>1, AfterSelectHolds DEF IInv, TypeOK
<1>3. Held' = Held /\ QuietAtEnd' /\ ShutdownLast'
  BY <1>1, <1>2 DEF IInv, BatchInSyncOnly, Held, QuietAtEnd, ShutdownLast
<1>4. dirtyIndex' = Held' \cup conflicted'
  BY <1>1, <1>3 DEF IInv, ProtectionExact
<1>. QED
  BY <1>1, <1>2, <1>3, <1>4, CollectIInv

LEMMA HandleEndIInv ==
  ASSUME IInv, TypeOK', HandleShutdown \/ HandleChannelClosed
  PROVE  IInv'
<1>1. /\ UNCHANGED <<localVars, synced, dropped, mount, conflicted, dirtyIndex>>
      /\ BeginSync(dirtySet, "final") /\ wpc = "select"
  BY DEF HandleShutdown, HandleChannelClosed, Receive
<1>2. /\ queue' = <<>> /\ mount \in {"stopped", "failed"}
      /\ \A p \in Paths : note[p] = "none"
      /\ \A x \in Queued : x \in Queued'
  <2>1. CASE HandleShutdown
    <3>1. /\ queue' = <<>> /\ mount = "stopped"
          /\ \A x \in Queued : x \in Queued'
      BY <2>1, ReceiveHolds, ReceivedEvent DEF HandleShutdown
    <3>. QED
      BY <3>1 DEF IInv, QuietAfterUnmount
  <2>2. CASE HandleChannelClosed
    BY <2>2 DEF HandleChannelClosed, Queued
  <2>. QED
    BY <2>1, <2>2
<1>3. /\ Held' = dirtySet \cap Tracked
      /\ uploaded' = {} /\ wpc' \in {"final", "done"} /\ BatchInSyncOnly' /\ DrainedBySync'
  BY <1>1, BeginFinalHolds DEF IInv, TypeOK
<1>4. Held' = Held
  BY <1>1, <1>3 DEF IInv, BatchInSyncOnly, Held
<1>5. QuietAtEnd' /\ ShutdownLast'
  BY <1>1, <1>2 DEF QuietAtEnd, ShutdownLast, localVars
<1>6. dirtyIndex' = Held' \cup conflicted'
  BY <1>1, <1>4 DEF IInv, ProtectionExact
<1>. QED
  BY <1>1, <1>2, <1>3, <1>4, <1>5, <1>6, CollectIInv

(***************************************************************************)
(* Steps that change only the channel or the phase of the mount.           *)
(***************************************************************************)
LEMMA SendIInv ==
  ASSUME IInv, TypeOK', NEW e \in {FlushEvent, ShutdownEvent},
         queue' = Append(queue, e),
         UNCHANGED <<localVars, synced, dropped, dirtyIndex, workerVars>>,
         \/ e = FlushEvent /\ mount = "mounted" /\ mount' = mount
         \/ e = ShutdownEvent /\ mount = "stopping" /\ mount' = "stopped"
  PROVE  IInv'
<1>. USE DEF IInv
<1>1. /\ UNCHANGED <<buf, disk, opened, note, dirtySet, trigger, armed, wpc, batch,
                     uploaded, conflicted>>
  BY DEF localVars, workerVars
<1>2. queue \in Seq(FsEvent) /\ e \in FsEvent
  BY DEF TypeOK, FsEvent
<1>3. Queued \subseteq Queued'
  BY <1>2, PathsInAppend DEF Queued
<1>4. Announced \subseteq Announced'
  BY <1>1, <1>3 DEF Announced
<1>5. EditsAccountedFor' /\ UploadedChangesAnnounced'
  BY <1>1, <1>4, SyncEngineAssumption
     DEF EditsAccountedFor, UploadedChangesAnnounced, Held, TypeOK
<1>6. ProtectionExact' /\ UnflushedOpen' /\ BatchInSyncOnly' /\ DrainedBySync'
  BY <1>1 DEF ProtectionExact, Held, UnflushedOpen, BatchInSyncOnly, DrainedBySync
<1>7. /\ Len(queue') = Len(queue) + 1
      /\ \A i \in 1 .. Len(queue) : queue'[i] = queue[i]
      /\ queue'[Len(queue) + 1] = e
      /\ Len(queue) \in Nat
  BY <1>2
<1>8. \A i \in 1 .. Len(queue) : queue[i].kind # "shutdown"
  BY DEF ShutdownLast
<1>9. e.kind = "shutdown" => mount' = "stopped"
  BY DEF FlushEvent, ShutdownEvent
<1>10. ShutdownLast'
  BY <1>7, <1>8, <1>9 DEF ShutdownLast
<1>11. QuietAfterUnmount'
  BY <1>1 DEF QuietAfterUnmount
<1>12. QuietAtEnd'
  BY <1>1 DEF QuietAtEnd
<1>. QED
  BY <1>5, <1>6, <1>10, <1>11, <1>12

LEMMA PhaseIInv ==
  ASSUME IInv, TypeOK', Unmount \/ MountFails
  PROVE  IInv'
<1>. USE DEF IInv
<1>1. UNCHANGED <<buf, disk, opened, note, synced, queue, dropped, dirtyIndex, dirtySet,
                  trigger, armed, wpc, batch, uploaded, conflicted>>
  BY DEF Unmount, MountFails, localVars, workerVars
<1>2. /\ mount = "mounted"
      /\ \/ mount' = "failed"
         \/ mount' = "stopping" /\ opened = {} /\ \A p \in Paths : note[p] = "none"
  BY DEF Unmount, MountFails
<1>3. EditsAccountedFor' /\ UploadedChangesAnnounced'
  BY <1>1 DEF EditsAccountedFor, UploadedChangesAnnounced, Held, Announced, Queued
<1>4. /\ ProtectionExact' /\ UnflushedOpen' /\ BatchInSyncOnly' /\ DrainedBySync'
      /\ QuietAfterUnmount'
  BY <1>1, <1>2 DEF ProtectionExact, Held, UnflushedOpen, BatchInSyncOnly, DrainedBySync,
                    QuietAfterUnmount
<1>5. ShutdownLast' /\ QuietAtEnd'
  BY <1>1, <1>2 DEF ShutdownLast, QuietAtEnd
<1>. QED
  BY <1>3, <1>4, <1>5

(***************************************************************************)
(* Backend::sync and its answers.                                          *)
(***************************************************************************)
LEMMA UploadIInv ==
  ASSUME IInv, TypeOK', NEW p \in Paths, UploadFile(p)
  PROVE  IInv'
<1>. USE DEF IInv
<1>1. /\ UNCHANGED <<buf, disk, opened, note, queue, dropped, mount, dirtyIndex, dirtySet,
                     trigger, armed, wpc, batch, conflicted>>
      /\ p \in batch /\ uploaded' = uploaded \cup {p}
      /\ synced' = [synced EXCEPT ![p] = disk[p]]
  BY DEF UploadFile, localVars
<1>2. synced'[p] = disk[p] /\ \A x \in Paths \ {p} : synced'[x] = synced[x]
  BY <1>1 DEF TypeOK
<1>3. Announced' = Announced /\ Held' = Held /\ p \in Tracked
  BY <1>1 DEF Announced, Queued, Held, TypeOK
<1>4. EditsAccountedFor'
  BY <1>1, <1>2, <1>3, SyncEngineAssumption DEF EditsAccountedFor, UnflushedOpen
<1>5. UploadedChangesAnnounced'
  BY <1>1, <1>2, <1>3, SyncEngineAssumption DEF UploadedChangesAnnounced, TypeOK
<1>6. /\ ProtectionExact' /\ UnflushedOpen' /\ BatchInSyncOnly' /\ DrainedBySync'
      /\ QuietAfterUnmount'
  BY <1>1, <1>3 DEF ProtectionExact, UnflushedOpen, BatchInSyncOnly, DrainedBySync,
                    QuietAfterUnmount
<1>7. ShutdownLast' /\ QuietAtEnd'
  BY <1>1 DEF ShutdownLast, QuietAtEnd
<1>. QED
  BY <1>4, <1>5, <1>6, <1>7

\* An answer that settles only files the backend dealt with, keeps or reports
\* the others, and releases their protection accordingly.
LEMMA SyncReturnsIInv ==
  ASSUME IInv, TypeOK', NEW retained, NEW settled, SyncReturns(retained, settled),
         settled \subseteq uploaded,
         batch \subseteq retained \cup settled \cup conflicted',
         retained \subseteq batch,
         conflicted \ settled \subseteq conflicted', settled \cap conflicted' = {},
         conflicted' \subseteq conflicted \cup batch,
         settled = {} \/ retained = {}
  PROVE  IInv'
<1>. USE DEF IInv
<1>1. /\ UNCHANGED <<buf, disk, opened, note, synced, queue, dropped, mount>>
      /\ dirtySet' = dirtySet \cup retained /\ dirtyIndex' = dirtyIndex \ settled
      /\ batch' = {} /\ uploaded' = {}
      /\ wpc \in {"syncing", "final"}
      /\ wpc' = IF wpc = "final" THEN "done" ELSE "select"
  BY DEF SyncReturns, Syncing, localVars
<1>2. Announced' = Announced /\ batch \subseteq Tracked
  BY <1>1 DEF Announced, Queued, TypeOK
<1>3. EditsAccountedFor'
  <2>. SUFFICES ASSUME NEW p \in Tracked, disk[p] # synced[p] \/ buf[p] # disk[p]
                PROVE  p \in opened \cup Announced \cup Held' \cup conflicted' \cup dropped
    BY <1>1, <1>2 DEF EditsAccountedFor
  <2>1. CASE p \in settled
    BY <2>1, SyncEngineAssumption DEF UploadedChangesAnnounced, UnflushedOpen, TypeOK
  <2>2. CASE p \notin settled
    BY <1>1, <2>2 DEF EditsAccountedFor, Held
  <2>. QED
    BY <2>1, <2>2
<1>4. ProtectionExact'
  <2>1. Held' = (dirtySet \cup retained) \cap Tracked /\ dirtySet = {}
    BY <1>1 DEF Held, DrainedBySync
  <2>2. dirtyIndex = batch \cup conflicted
    BY <1>2, <2>1 DEF ProtectionExact, Held
  <2>. QED
    BY <1>1, <1>2, <2>1, <2>2 DEF ProtectionExact
<1>5. UploadedChangesAnnounced' /\ UnflushedOpen' /\ BatchInSyncOnly' /\ DrainedBySync'
  BY <1>1 DEF UploadedChangesAnnounced, UnflushedOpen, BatchInSyncOnly, DrainedBySync
<1>6. QuietAfterUnmount' /\ ShutdownLast' /\ QuietAtEnd'
  BY <1>1 DEF QuietAfterUnmount, ShutdownLast, QuietAtEnd
<1>. QED
  BY <1>3, <1>4, <1>5, <1>6
LEMMA SyncCallIInv ==
  ASSUME IInv, TypeOK', SyncCall
  PROVE  IInv'
<1>1. ASSUME NEW p \in Paths, UploadFile(p) PROVE IInv'
  BY <1>1, UploadIInv
<1>2. CASE SyncSuccess
  <2>1. /\ SyncReturns({}, batch) /\ uploaded = batch
        /\ conflicted' = conflicted \ batch
    BY <1>2 DEF SyncSuccess
  <2>. QED
    BY <2>1, SyncReturnsIInv
<1>3. ASSUME NEW conflicts \in SUBSET batch, SyncConflict(conflicts) PROVE IInv'
  <2>1. /\ SyncReturns({}, batch \ conflicts) /\ batch \ conflicts \subseteq uploaded
        /\ conflicted' = (conflicted \ batch) \cup conflicts
    BY <1>3 DEF SyncConflict
  <2>2. batch \subseteq (batch \ conflicts) \cup conflicted'
    BY <2>1
  <2>. QED
    BY <2>1, <2>2, SyncReturnsIInv
<1>4. CASE SyncOffline \/ SyncError
  <2>1. SyncReturns(batch, {}) /\ conflicted' = conflicted
    BY <1>4 DEF SyncOffline, SyncError
  <2>. QED
    BY <2>1, SyncReturnsIInv
<1>. QED
  BY <1>1, <1>2, <1>3, <1>4 DEF SyncCall

(***************************************************************************)
(* Steps of poll_worker and of the remote: what replaces a local file is   *)
(* what the remote holds, so no unsent edit appears.                       *)
(***************************************************************************)
LEMMA RefreshIInv ==
  ASSUME IInv, TypeOK', PollWorker \/ \E p \in Paths : RemoteChange(p)
  PROVE  IInv'
<1>. USE DEF IInv
<1>1. /\ UNCHANGED <<opened, note, synced, queue, dropped, mount, dirtyIndex, dirtySet,
                     trigger, armed, wpc, batch, uploaded, conflicted>>
      /\ Announced' = Announced /\ Held' = Held
  BY DEF PollWorker, RefreshStart, RefreshApply, RefreshEnd, RemoteChange, localVars,
         workerVars, Announced, Queued, Held
<1>2. \A x \in Paths :
        \/ disk'[x] = disk[x] /\ buf'[x] = buf[x]
        \/ disk'[x] = synced[x] /\ buf'[x] = buf[x] /\ buf[x] # disk[x]
        \/ disk'[x] = synced[x] /\ buf'[x] = synced[x]
  BY DEF PollWorker, RefreshStart, RefreshApply, RefreshEnd, RemoteChange, localVars, TypeOK
<1>3. UnflushedOpen'
  BY <1>1, <1>2 DEF UnflushedOpen
<1>4. EditsAccountedFor' /\ UploadedChangesAnnounced'
  BY <1>1, <1>2, SyncEngineAssumption
     DEF EditsAccountedFor, UploadedChangesAnnounced, UnflushedOpen, TypeOK
<1>5. /\ ProtectionExact' /\ BatchInSyncOnly' /\ DrainedBySync'
      /\ QuietAfterUnmount' /\ ShutdownLast' /\ QuietAtEnd'
  BY <1>1 DEF ProtectionExact, BatchInSyncOnly, DrainedBySync, QuietAfterUnmount,
              ShutdownLast, QuietAtEnd
<1>. QED
  BY <1>3, <1>4, <1>5

LEMMA NextIInv == IInv /\ [Next]_vars => IInv'
<1>. SUFFICES ASSUME IInv, [Next]_vars PROVE IInv'
  OBVIOUS
<1>1. TypeOK'
  BY NextTypeOK DEF IInv
<1>2. ASSUME NEW p \in Paths, FileOperation(p) PROVE IInv'
  BY <1>1, <1>2, FileOperationIInv
<1>3. ASSUME NEW p \in Paths, Notify(p) PROVE IInv'
  BY <1>1, <1>3, NotifyIInv
<1>4. CASE RequestFlush \/ SendShutdown
  <2>1. \/ /\ queue' = Append(queue, FlushEvent)
           /\ mount = "mounted" /\ mount' = mount
        \/ /\ queue' = Append(queue, ShutdownEvent)
           /\ mount = "stopping" /\ mount' = "stopped"
    BY <1>4 DEF RequestFlush, SendShutdown
  <2>2. UNCHANGED <<localVars, synced, dropped, dirtyIndex, workerVars>>
    BY <1>4 DEF RequestFlush, SendShutdown
  <2>. QED
    BY <1>1, <2>1, <2>2, SendIInv
<1>5. CASE Unmount \/ MountFails
  BY <1>1, <1>5, PhaseIInv
<1>6. CASE DirtyWorker
  BY <1>1, <1>6, HandleFileIInv, HandleFlushIInv, HandleEndIInv DEF DirtyWorker
<1>7. CASE DebounceFires
  BY <1>1, <1>7, DebounceIInv
<1>8. CASE SyncCall
  BY <1>1, <1>8, SyncCallIInv
<1>9. CASE PollWorker \/ \E p \in Paths : RemoteChange(p)
  BY <1>1, <1>9, RefreshIInv
<1>10. CASE UNCHANGED vars
  BY <1>10 DEF vars, IInv, TypeOK, ProtectionExact, Held, EditsAccountedFor, Announced,
               Queued, UploadedChangesAnnounced, UnflushedOpen, BatchInSyncOnly,
               DrainedBySync, QuietAfterUnmount, ShutdownLast, QuietAtEnd
<1>. QED
  BY <1>2, <1>3, <1>4, <1>5, <1>6, <1>7, <1>8, <1>9, <1>10 DEF Next, Environment

LEMMA Invariance == Spec => []IInv
<1>. QED
  BY InitIInv, NextIInv, PTL DEF Spec

--------------------------------------------------------------------------------
(***************************************************************************)
(* No edit is forgotten, whatever the interleaving of applications, worker *)
(* and refresh, and however the backend answers.                           *)
(***************************************************************************)
THEOREM EditsAreAccountedFor == Spec => []EditsAccountedFor
<1>1. IInv => EditsAccountedFor
  BY DEF IInv
<1>. QED
  BY <1>1, Invariance, PTL

(***************************************************************************)
(* The shared index protects exactly what the worker holds and what waits  *)
(* for a user.                                                             *)
(***************************************************************************)
THEOREM ProtectionIsExact == Spec => []ProtectionExact
<1>1. IInv => ProtectionExact
  BY DEF IInv
<1>. QED
  BY <1>1, Invariance, PTL

(***************************************************************************)
(* A worker that ended clean has delivered what was announced to it.       *)
(***************************************************************************)
THEOREM FinalSyncIsComplete == Spec => []FinalSyncLeavesNothing
<1>1. IInv => FinalSyncLeavesNothing
  <2>. SUFFICES ASSUME IInv, wpc = "done", dirtySet = {},
                       NEW p \in Tracked, disk[p] # synced[p]
                PROVE  queue = <<>> /\ p \in opened \cup conflicted \cup dropped
    BY DEF FinalSyncLeavesNothing, IInv, QuietAtEnd
  <2>1. queue = <<>> /\ batch = {} /\ \A x \in Paths : note[x] = "none"
    BY DEF IInv, QuietAtEnd, BatchInSyncOnly
  <2>2. Announced = {} /\ Held = {}
    BY <2>1 DEF Announced, Queued, PathsIn, Held
  <2>. QED
    BY <2>1, <2>2 DEF IInv, EditsAccountedFor
<1>. QED
  BY <1>1, Invariance, PTL

(***************************************************************************)
(* Protection ends only with a sync that dealt with the file.              *)
(***************************************************************************)
THEOREM ProtectionReleased == Spec => ProtectionReleasedByUpload
<1>1. IInv /\ [Next]_vars => [dirtyIndex \ dirtyIndex' \subseteq batch \cap uploaded]_vars
  <2>. SUFFICES ASSUME IInv, Next
                PROVE  dirtyIndex \ dirtyIndex' \subseteq batch \cap uploaded
    OBVIOUS
  <2>1. ASSUME SyncCall PROVE dirtyIndex \ dirtyIndex' \subseteq batch \cap uploaded
    BY <2>1 DEF SyncCall, UploadFile, SyncSuccess, SyncConflict, SyncOffline, SyncError,
                SyncReturns
  <2>2. ASSUME ~SyncCall PROVE dirtyIndex \subseteq dirtyIndex'
    BY <2>2 DEF Next, Environment, FileOperation, Open, Write, MutateDisk, Flush, Close,
                RemoteChange, RequestFlush, Unmount, MountFails, Notify, SendShutdown,
                DirtyWorker, HandleModified, HandleClosed, HandleFlush, HandleShutdown,
                HandleChannelClosed, MarkDirty, DebounceFires, PollWorker, RefreshStart,
                RefreshApply, RefreshEnd, engineVars
  <2>. QED
    BY <2>1, <2>2
<1>. QED
  BY <1>1, Invariance, PTL DEF Spec, ProtectionReleasedByUpload

(***************************************************************************)
(* A refresh never sets out to overwrite a file the worker holds.          *)
(***************************************************************************)
THEOREM RefreshSparesHeld == Spec => RefreshSparesHeldFiles
<1>1. IInv /\ [Next]_vars =>
        [pollPc' = "apply" /\ pollPc = "sleep" => applying' \cap Held = {}]_vars
  <2>. SUFFICES ASSUME IInv, Next, pollPc' = "apply", pollPc = "sleep"
                PROVE  applying' \cap Held = {}
    OBVIOUS
  <2>1. RefreshStart
    BY DEF Next, Environment, FileOperation, Open, Write, MutateDisk, Flush, Close,
           RemoteChange, RequestFlush, Unmount, MountFails, Notify, SendShutdown,
           DirtyWorker, HandleModified, HandleClosed, HandleFlush, HandleShutdown,
           HandleChannelClosed, DebounceFires, SyncCall, UploadFile, SyncSuccess,
           SyncConflict, SyncOffline, SyncError, SyncReturns, PollWorker, RefreshApply,
           RefreshEnd, engineVars, pollVars
  <2>2. applying' \cap dirtyIndex = {}
    BY <2>1 DEF RefreshStart, IsProtected
  <2>. QED
    BY <2>2 DEF IInv, ProtectionExact
<1>. QED
  BY <1>1, Invariance, PTL DEF Spec, RefreshSparesHeldFiles
--------------------------------------------------------------------------------
(***************************************************************************)
(* The refinement of WriteBack, action by action.                          *)
(***************************************************************************)
WBStep == [WB!Next]_(WB!vars)

\* A step that moves a debt from one holder to the next is a stutter.
LEMMA StutterStep ==
  ASSUME \A x \in Tracked : disk'[x] = disk[x] /\ synced'[x] = synced[x],
         OwedFiles' = OwedFiles, dropped' \cap Tracked = dropped \cap Tracked
  PROVE  WBStep
BY DEF WBStep, WB!vars

LEMMA FileOperationStep ==
  ASSUME IInv, TypeOK', NEW p \in Paths, FileOperation(p)
  PROVE  WBStep
<1>1. UNCHANGED engineVars /\ note[p] = "none"
  BY DEF FileOperation, Open, Write, MutateDisk, Flush, Close, Idle
<1>2. UNCHANGED <<synced, queue, dropped, dirtySet, batch, conflicted>>
      /\ Queued' = Queued /\ Held' = Held
  BY <1>1 DEF engineVars, workerVars, Queued, Held
<1>3. \A x \in Paths \ {p} :
        /\ disk'[x] = disk[x] /\ note'[x] = note[x]
        /\ x \in opened' <=> x \in opened
  BY DEF FileOperation, Open, Write, MutateDisk, Flush, Close, IInv, TypeOK
<1>4. p \in opened' \/ note'[p] # "none"
  BY DEF FileOperation, Open, Write, MutateDisk, Flush, Close, IInv, TypeOK
<1>5. \A x \in Tracked \ {p} : x \in OwedFiles' <=> x \in OwedFiles
  BY <1>2, <1>3, SyncEngineAssumption DEF OwedFiles, Announced
<1>6. CASE p \in Tracked
  <2>1. p \in OwedFiles'
    BY <1>4, <1>6 DEF OwedFiles, Announced
  <2>2. OwedFiles' = OwedFiles \cup {p}
    BY <1>5, <1>6, <2>1 DEF OwedFiles
  <2>3. /\ disk'[p] \in Version
        /\ [x \in Tracked |-> disk'[x]] = [[x \in Tracked |-> disk[x]] EXCEPT ![p] = disk'[p]]
    BY <1>3, <1>6, SyncEngineAssumption DEF TypeOK
  <2>4. WB!Edit(p)
    BY <1>2, <2>2, <2>3 DEF WB!Edit, WB!Version, Version
  <2>. QED
    BY <1>6, <2>4 DEF WBStep, WB!Next
<1>7. CASE p \notin Tracked
  <2>1. OwedFiles' = OwedFiles
    BY <1>5, <1>7 DEF OwedFiles
  <2>. QED
    BY <1>2, <1>3, <1>7, <2>1, SyncEngineAssumption, StutterStep
<1>. QED
  BY <1>6, <1>7

LEMMA NotifyStep ==
  ASSUME IInv, TypeOK', NEW p \in Paths, Notify(p)
  PROVE  WBStep
<1>1. /\ UNCHANGED <<disk, opened, synced, dirtySet, batch, conflicted>>
      /\ Held' = Held
      /\ note[p] # "none" /\ note' = [note EXCEPT ![p] = "none"]
  BY DEF Notify, workerVars, Held
<1>2. CASE Len(queue) < Capacity /\ wpc # "done"
  <2>. DEFINE e == [kind |-> note[p], path |-> p]
  <2>1. queue' = Append(queue, e) /\ dropped' = dropped
    BY <1>2 DEF Notify
  <2>2. e \in FileEvent /\ e \in FsEvent /\ e.path = p
    BY <1>1 DEF IInv, TypeOK, FileEvent, FsEvent
  <2>3. queue \in Seq(FsEvent)
    BY DEF IInv, TypeOK
  <2>. HIDE DEF e
  <2>4. Queued' = Queued \cup {p}
    BY <2>1, <2>2, <2>3, PathsInAppend DEF Queued
  <2>5. Announced' = Announced
    BY <1>1, <2>4 DEF Announced, IInv, TypeOK
  <2>6. OwedFiles' = OwedFiles
    BY <1>1, <2>5 DEF OwedFiles
  <2>. QED
    BY <1>1, <2>1, <2>6, StutterStep
<1>3. CASE ~(Len(queue) < Capacity /\ wpc # "done")
  <2>1. dropped' = dropped \cup {p} /\ Queued' = Queued
    BY <1>3 DEF Notify, Queued
  <2>2. \A x \in Paths \ {p} : x \in Announced' <=> x \in Announced
    BY <1>1, <2>1 DEF Announced, IInv, TypeOK
  <2>3. \A x \in Tracked \ {p} : x \in OwedFiles' <=> x \in OwedFiles
    BY <1>1, <2>2, SyncEngineAssumption DEF OwedFiles
  <2>4. CASE p \in Tracked
    <3>1. p \in OwedFiles
      BY <1>1, <2>4 DEF OwedFiles, Announced
    <3>2. OwedFiles' = OwedFiles \/ OwedFiles' = OwedFiles \ {p}
      BY <2>3, <3>1 DEF OwedFiles
    <3>3. WB!Lose(p)
      BY <1>1, <2>1, <2>4, <3>2 DEF WB!Lose
    <3>. QED
      BY <2>4, <3>3 DEF WBStep, WB!Next
  <2>5. CASE p \notin Tracked
    <3>1. OwedFiles' = OwedFiles
      BY <2>3, <2>5 DEF OwedFiles
    <3>. QED
      BY <1>1, <2>1, <2>5, <3>1, StutterStep
  <2>. QED
    BY <2>4, <2>5
<1>. QED
  BY <1>2, <1>3

\* Requests and the end of the mount carry no debt.
LEMMA ControlStep ==
  ASSUME IInv, RequestFlush \/ SendShutdown \/ Unmount \/ MountFails
  PROVE  WBStep
<1>1. UNCHANGED <<disk, opened, note, synced, dropped, dirtySet, batch, conflicted>>
  BY DEF RequestFlush, SendShutdown, Unmount, MountFails, localVars, workerVars
<1>2. Queued' = Queued
  <2>1. queue \in Seq(FsEvent)
    BY DEF IInv, TypeOK
  <2>2. ASSUME NEW e \in {FlushEvent, ShutdownEvent}, queue' = Append(queue, e)
        PROVE  Queued' = Queued
    <3>1. e \in FsEvent /\ e \notin FileEvent
      BY DEF FsEvent, FileEvent, FlushEvent, ShutdownEvent
    <3>. QED
      BY <2>1, <2>2, <3>1, PathsInAppend DEF Queued
  <2>. QED
    BY <2>2 DEF RequestFlush, SendShutdown, Unmount, MountFails, Queued
<1>3. OwedFiles' = OwedFiles
  BY <1>1, <1>2 DEF OwedFiles, Announced, Held
<1>. QED
  BY <1>1, <1>3, StutterStep

\* The worker takes over what the channel held.
LEMMA WorkerStep ==
  ASSUME IInv, DirtyWorker \/ DebounceFires
  PROVE  WBStep
<1>1. UNCHANGED <<disk, opened, note, synced, dropped, conflicted>>
      /\ wpc = "select"
  BY DEF DirtyWorker, HandleModified, HandleClosed, HandleFlush, HandleShutdown,
         HandleChannelClosed, DebounceFires, Receive, localVars
<1>2. batch = {} /\ Held = dirtySet \cap Tracked
  BY <1>1 DEF IInv, BatchInSyncOnly, Held
<1>3. ASSUME NEW files \in SUBSET Paths,
             \/ \E wanted \in BOOLEAN : AfterSelect(files, wanted)
             \/ BeginSync(files, "final")
      PROVE  Held' = files \cap Tracked
  BY <1>1, <1>3, AfterSelectHolds, BeginFinalHolds
<1>4. dirtySet \in SUBSET Paths
  BY DEF IInv, TypeOK
<1>5. CASE HandleModified \/ HandleClosed
  <2>. DEFINE p == Head(queue).path
  <2>1. Receive("modified") \/ Receive("closed")
    BY <1>5 DEF HandleModified, HandleClosed
  <2>2. Head(queue) \in FileEvent /\ p \in Paths /\ Queued = Queued' \cup {p}
    BY <2>1, ReceiveHolds, ReceivedEvent
  <2>3. \E wanted \in BOOLEAN : AfterSelect(dirtySet \cup {p}, wanted)
    BY <1>5 DEF HandleModified, HandleClosed, IInv, TypeOK
  <2>4. dirtySet \cup {p} \in SUBSET Paths
    BY <1>4, <2>2
  <2>. HIDE DEF p
  <2>5. Held' = (dirtySet \cup {p}) \cap Tracked
    BY <1>3, <2>3, <2>4
  <2>6. OwedFiles' = OwedFiles
    BY <1>1, <1>2, <2>2, <2>5 DEF OwedFiles, Announced
  <2>. QED
    BY <1>1, <2>6, StutterStep
<1>6. CASE HandleFlush \/ HandleShutdown \/ HandleChannelClosed \/ DebounceFires
  <2>1. Queued' = Queued
    <3>1. CASE HandleFlush \/ HandleShutdown
      <4>1. Receive("flush") \/ Receive("shutdown")
        BY <3>1 DEF HandleFlush, HandleShutdown
      <4>2. Head(queue) \in FsEvent /\ Head(queue).kind \in {"flush", "shutdown"}
        BY <4>1, ReceiveHolds
      <4>. QED
        BY <4>1, <4>2, ReceiveHolds, ReceivedEvent
    <3>2. CASE HandleChannelClosed \/ DebounceFires
      BY <3>2 DEF HandleChannelClosed, DebounceFires, Queued
    <3>. QED
      BY <1>6, <3>1, <3>2
  <2>2. AfterSelect(dirtySet, TRUE) \/ BeginSync(dirtySet, "final")
    BY <1>6 DEF HandleFlush, HandleShutdown, HandleChannelClosed, DebounceFires
  <2>3. Held' = dirtySet \cap Tracked
    BY <1>3, <1>4, <2>2
  <2>4. OwedFiles' = OwedFiles
    BY <1>1, <1>2, <2>1, <2>3 DEF OwedFiles, Announced
  <2>. QED
    BY <1>1, <2>4, StutterStep
<1>. QED
  BY <1>5, <1>6 DEF DirtyWorker

LEMMA UploadStep ==
  ASSUME IInv, NEW p \in Paths, UploadFile(p)
  PROVE  WBStep
<1>1. /\ UNCHANGED <<disk, opened, note, queue, dropped, dirtySet, batch, conflicted>>
      /\ p \in batch /\ synced' = [synced EXCEPT ![p] = disk[p]]
  BY DEF UploadFile, localVars
<1>2. OwedFiles' = OwedFiles /\ p \in OwedFiles /\ p \in Tracked
  BY <1>1 DEF OwedFiles, Announced, Queued, Held, IInv, TypeOK
<1>3. [x \in Tracked |-> synced'[x]] =
        [[x \in Tracked |-> synced[x]] EXCEPT ![p] = [x \in Tracked |-> disk[x]][p]]
  BY <1>1, <1>2, SyncEngineAssumption DEF IInv, TypeOK
<1>4. WB!Deliver(p)
  BY <1>1, <1>2, <1>3 DEF WB!Deliver
<1>. QED
  BY <1>2, <1>4 DEF WBStep, WB!Next

LEMMA SyncReturnsStep ==
  ASSUME IInv, NEW retained, NEW settled, SyncReturns(retained, settled),
         retained \subseteq batch, settled \subseteq uploaded,
         batch \subseteq retained \cup settled \cup conflicted',
         conflicted \ settled \subseteq conflicted',
         conflicted' \subseteq conflicted \cup batch
  PROVE  WBStep
<1>. DEFINE S == OwedFiles \ OwedFiles'
<1>1. /\ UNCHANGED <<disk, opened, note, synced, queue, dropped>>
      /\ dirtySet' = dirtySet \cup retained /\ batch' = {}
      /\ batch \subseteq Tracked
  BY DEF SyncReturns, Syncing, localVars, IInv, TypeOK
<1>2. Announced' = Announced
  BY <1>1 DEF Announced, Queued
<1>3. S \subseteq settled \ (opened \cup Announced)
  BY <1>1, <1>2 DEF OwedFiles, Held
<1>4. \A f \in S : f \in Tracked /\ (disk[f] = synced[f] \/ f \in dropped)
  BY <1>3 DEF IInv, UploadedChangesAnnounced, OwedFiles
<1>5. OwedFiles' \subseteq OwedFiles
  BY <1>1, <1>2 DEF OwedFiles, Held
<1>6. OwedFiles' = OwedFiles \ S /\ S \in SUBSET OwedFiles
  BY <1>5
<1>. HIDE DEF S
<1>7. WB!Settle(S)
  BY <1>1, <1>4, <1>6 DEF WB!Settle
<1>. QED
  BY <1>6, <1>7 DEF WBStep, WB!Next

LEMMA SyncCallStep ==
  ASSUME IInv, SyncCall
  PROVE  WBStep
<1>1. ASSUME NEW p \in Paths, UploadFile(p) PROVE WBStep
  BY <1>1, UploadStep
<1>2. CASE SyncSuccess
  <2>1. /\ SyncReturns({}, batch) /\ uploaded = batch
        /\ conflicted' = conflicted \ batch
    BY <1>2 DEF SyncSuccess
  <2>. QED
    BY <2>1, SyncReturnsStep
<1>3. ASSUME NEW conflicts \in SUBSET batch, SyncConflict(conflicts) PROVE WBStep
  <2>1. /\ SyncReturns({}, batch \ conflicts) /\ batch \ conflicts \subseteq uploaded
        /\ conflicted' = (conflicted \ batch) \cup conflicts
    BY <1>3 DEF SyncConflict
  <2>2. /\ batch \subseteq (batch \ conflicts) \cup conflicted'
        /\ conflicted \ (batch \ conflicts) \subseteq conflicted'
        /\ conflicted' \subseteq conflicted \cup batch
    BY <2>1
  <2>. QED
    BY <2>1, <2>2, SyncReturnsStep
<1>4. CASE SyncOffline \/ SyncError
  <2>1. SyncReturns(batch, {}) /\ conflicted' = conflicted
    BY <1>4 DEF SyncOffline, SyncError
  <2>. QED
    BY <2>1, SyncReturnsStep
<1>. QED
  BY <1>1, <1>2, <1>3, <1>4 DEF SyncCall

LEMMA RefreshStep ==
  ASSUME IInv, PollWorker \/ \E p \in Paths : RemoteChange(p)
  PROVE  WBStep
<1>1. /\ UNCHANGED <<opened, note, synced, queue, dropped, dirtySet, batch, conflicted>>
      /\ OwedFiles' = OwedFiles
  BY DEF PollWorker, RefreshStart, RefreshApply, RefreshEnd, RemoteChange, localVars,
         workerVars, OwedFiles, Announced, Queued, Held
<1>2. ASSUME NEW p \in Paths, RefreshApply(p) PROVE WBStep
  <2>1. p \in Tracked /\ disk' = [disk EXCEPT ![p] = synced[p]]
    BY <1>2 DEF RefreshApply, IInv, TypeOK
  <2>2. [x \in Tracked |-> disk'[x]] =
          [[x \in Tracked |-> disk[x]] EXCEPT ![p] = [x \in Tracked |-> synced[x]][p]]
    BY <2>1, SyncEngineAssumption DEF IInv, TypeOK
  <2>3. WB!Adopt(p)
    BY <1>1, <2>1, <2>2 DEF WB!Adopt
  <2>. QED
    BY <2>1, <2>3 DEF WBStep, WB!Next
<1>3. ASSUME UNCHANGED disk PROVE WBStep
  BY <1>1, <1>3, StutterStep
<1>. QED
  BY <1>2, <1>3 DEF PollWorker, RefreshStart, RefreshEnd, RemoteChange, localVars

LEMMA NextStep == IInv /\ [Next]_vars => WBStep
<1>. SUFFICES ASSUME IInv, [Next]_vars PROVE WBStep
  OBVIOUS
<1>1. TypeOK'
  BY NextTypeOK DEF IInv
<1>2. ASSUME NEW p \in Paths, FileOperation(p) PROVE WBStep
  BY <1>1, <1>2, FileOperationStep
<1>3. ASSUME NEW p \in Paths, Notify(p) PROVE WBStep
  BY <1>1, <1>3, NotifyStep
<1>4. CASE UNCHANGED vars
  BY <1>4, StutterStep DEF vars, OwedFiles, Announced, Queued, Held
<1>. QED
  BY <1>2, <1>3, <1>4, ControlStep, WorkerStep, SyncCallStep, RefreshStep
     DEF Next, Environment

LEMMA InitMaps == Init => WB!Init
<1>. SUFFICES ASSUME Init PROVE WB!Init
  OBVIOUS
<1>1. Queued = {}
  BY DEF Init, Queued, PathsIn
<1>2. OwedFiles = {}
  BY <1>1 DEF Init, OwedFiles, Announced, Held
<1>. QED
  BY <1>2, SyncEngineAssumption DEF Init, WB!Init

(***************************************************************************)
(* The engine implements the write-back promise: a debt is settled only    *)
(* for files the remote agrees with, or whose event was dropped in the     *)
(* open, whatever the interleaving and however the backend answers.        *)
(***************************************************************************)
THEOREM EngineImplementsWriteBack == Spec => ImplementsWriteBack
<1>1. IInv /\ [Next]_vars => [WB!Next]_(WB!vars)
  BY NextStep DEF WBStep
<1>. QED
  BY <1>1, InitMaps, Invariance, PTL DEF Spec, ImplementsWriteBack, WB!Spec

(***************************************************************************)
(* The abstract cache keeps its promise, and so does what implements it: a *)
(* tracked file that differs from the remote is owed to it or reported     *)
(* lost.                                                                   *)
(***************************************************************************)
THEOREM PromiseKept == WB!Spec => []WB!NothingForgotten
<1>1. WB!Init => WB!TypeOK /\ WB!NothingForgotten
  BY SyncEngineAssumption DEF WB!Init, WB!TypeOK, WB!NothingForgotten, WB!Version
<1>2. WB!TypeOK /\ WB!NothingForgotten /\ [WB!Next]_(WB!vars)
        => WB!TypeOK' /\ WB!NothingForgotten'
  <2>. SUFFICES ASSUME WB!TypeOK, WB!NothingForgotten, [WB!Next]_(WB!vars)
                PROVE  WB!TypeOK' /\ WB!NothingForgotten'
    OBVIOUS
  <2>. DEFINE Kept == WB!TypeOK' /\ WB!NothingForgotten'
  <2>1. ASSUME NEW f \in Tracked, WB!Edit(f) PROVE Kept
    BY <2>1 DEF WB!Edit, WB!TypeOK, WB!NothingForgotten
  <2>2. ASSUME NEW f \in Tracked, WB!Deliver(f) PROVE Kept
    BY <2>2 DEF WB!Deliver, WB!TypeOK, WB!NothingForgotten
  <2>3. ASSUME NEW f \in Tracked, WB!Lose(f) PROVE Kept
    BY <2>3 DEF WB!Lose, WB!TypeOK, WB!NothingForgotten
  <2>4. ASSUME NEW f \in Tracked, WB!Adopt(f) PROVE Kept
    BY <2>4 DEF WB!Adopt, WB!TypeOK, WB!NothingForgotten
  <2>5. ASSUME NEW S \in SUBSET OwedFiles, WB!Settle(S) PROVE Kept
    BY <2>5 DEF WB!Settle, WB!TypeOK, WB!NothingForgotten
  <2>6. CASE UNCHANGED WB!vars
    BY <2>6 DEF WB!vars, WB!TypeOK, WB!NothingForgotten
  <2>. QED
    BY <2>1, <2>2, <2>3, <2>4, <2>5, <2>6 DEF WB!Next
<1>. QED
  BY <1>1, <1>2, PTL DEF WB!Spec
================================================================================
