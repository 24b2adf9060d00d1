------------------------------ MODULE FileBuffers ------------------------------
(***************************************************************************)
(* The buffers of omnifuse-core (buffer.rs) under the open-file table of   *)
(* vfs.rs and the mutations of file_mutations.rs.                          *)
(*                                                                         *)
(* A buffer is an object shared by the manager, which knows at most one    *)
(* per path, and by every handle that was opened on it.  A client is an    *)
(* application with at most one handle and one FUSE request at a time;     *)
(* each await inside a request separates two actions.                      *)
(*                                                                         *)
(* Writes are numbered in the order they are issued, each at an offset of  *)
(* its own, so the content of a file is the set of writes it holds.        *)
(* Modification times are ticks of a clock that advances with each change  *)
(* of the disk.                                                            *)
(***************************************************************************)
EXTENDS Naturals, Sequences

CONSTANTS
  Paths,        \* files of the mount
  Clients,      \* applications
  Opens,        \* the files each application opens
  Operations,   \* what else each application does
  Refreshes,    \* whether a backend replaces files
  Pressure,     \* whether the memory limit may be exceeded
  MaxWrites,    \* bound on the writes issued
  MaxBuffers,   \* bound on the buffers ever created
  MaxClock      \* bound on the changes of the disk

ASSUME FileBuffersAssumption ==
  /\ Opens \in [Clients -> SUBSET Paths]
  /\ Operations \in [Clients -> SUBSET {"flush", "truncate", "create", "unlink", "rename"}]
  /\ {Refreshes, Pressure} \subseteq BOOLEAN
  /\ {MaxWrites, MaxBuffers, MaxClock} \subseteq Nat

VARIABLES
  disk,         \* the local directory
  clock,        \* time of the last change of the disk
  bufs,         \* every FileBuffer that was ever created
  current,      \* FileBufferManager::buffers, 0 where the path has none
  handle,       \* open_files: the OpenFileMutation of each client
  task,         \* the request each client is in the middle of
  issued,       \* number of writes issued
  live,         \* history: writes acknowledged to each file and not replaced
  misfiled      \* history: what the races of flush did to live writes

vars == <<disk, clock, bufs, current, handle, task, issued, live, misfiled>>

\* misfiled is a record of three sets: writes that lost their dirty flag to a
\* running flush; writes a flush or truncation without them took off the disk,
\* or out of the buffer of a file that was renamed meanwhile; and writes a flush
\* put into a file they no longer belong to.
NothingMisfiled == [raced |-> {}, overwritten |-> {}, strayed |-> {}]

BufferIds == 1 .. Len(bufs)
Content   == SUBSET (1 .. MaxWrites)
Time      == 0 .. MaxClock
Closed    == [buf |-> 0]
Idle      == [pc |-> "idle"]

TypeOK ==
  /\ disk \in [Paths -> [exists : BOOLEAN, content : Content, mtime : Time]]
  /\ clock \in Time
  /\ bufs \in Seq([content : Content, dirty : BOOLEAN, mtime : Time])
  /\ current \in [Paths -> 0 .. Len(bufs)]
  /\ handle \in [Clients -> {Closed} \cup
                            [path : Paths, buf : BufferIds, names : SUBSET Paths]]
  /\ task \in [Clients ->
       {Idle} \cup [pc : {"install", "setlen", "unlink", "forget"}, path : Paths]
              \cup [pc : {"stat"}, path : Paths, buf : 0 .. Len(bufs),
                    goal : {"open", "truncate"}]
              \cup [pc : {"load"}, path : Paths, mtime : Time, goal : {"open", "truncate"}]
              \cup [pc : {"insert"}, path : Paths, data : Content, mtime : Time,
                    goal : {"open", "truncate"}]
              \cup [pc : {"truncate", "stamp"}, path : Paths, buf : BufferIds]
              \cup [pc : {"write", "clean"}, path : Paths, buf : BufferIds, data : Content]]
  /\ issued \in 0 .. MaxWrites
  /\ live \in [Paths -> Content]
  /\ misfiled \in [raced : Content, overwritten : Content, strayed : Content]

Init ==
  /\ disk = [p \in Paths |-> [exists |-> TRUE, content |-> {}, mtime |-> 0]]
  /\ clock = 0
  /\ bufs = <<>>
  /\ current = [p \in Paths |-> 0]
  /\ handle = [c \in Clients |-> Closed]
  /\ task = [c \in Clients |-> Idle]
  /\ issued = 0
  /\ live = [p \in Paths |-> {}]
  /\ misfiled = NothingMisfiled

Ready(c)    == task[c] = Idle
IsOpen(c)   == handle[c] # Closed
Busy(c, pc) == task[c].pc = pc

Become(c, next) == task' = [task EXCEPT ![c] = next]
Finish(c)       == Become(c, Idle)

\* The disk changes: every change gets a time of its own.
SetDisk(p, content) ==
  /\ clock < MaxClock
  /\ clock' = clock + 1
  /\ disk' = [disk EXCEPT ![p] = [exists |-> TRUE, content |-> content,
                                  mtime |-> clock + 1]]

(***************************************************************************)
(* get_or_load, called by open and by setattr with a size.                 *)
(***************************************************************************)
\* The handle stands for the file that has the name now, if one has.
OpenHandle(c, p, b) ==
  handle' = [handle EXCEPT ![c] =
              [path |-> p, buf |-> b, names |-> {q \in {p} : disk[q].exists}]]

\* open keeps the buffer in a handle, setattr goes on to truncate it.
Obtain(c, p, b, goal) ==
  \/ /\ goal = "open"
     /\ OpenHandle(c, p, b)
     /\ Finish(c)
  \/ /\ goal = "truncate"
     /\ Become(c, [pc |-> "truncate", path |-> p, buf |-> b])
     /\ UNCHANGED handle

\* A dirty buffer is used at once; otherwise the file is looked at first.
GetOrLoad(c, p, goal) ==
  /\ disk[p].exists
  /\ LET b == current[p] IN
       IF b # 0 /\ bufs[b].dirty
         THEN Obtain(c, p, b, goal)
         ELSE /\ Become(c, [pc |-> "stat", path |-> p, buf |-> b, goal |-> goal])
              /\ UNCHANGED handle
  /\ UNCHANGED <<disk, clock, bufs, current, issued, live, misfiled>>

OpenFile(c, p) ==
  /\ Ready(c)
  /\ ~ IsOpen(c)
  /\ p \in Opens[c]
  /\ GetOrLoad(c, p, "open")

SetSize(c, p) ==
  /\ "truncate" \in Operations[c]
  /\ Ready(c)
  /\ p \in Opens[c]
  /\ GetOrLoad(c, p, "truncate")

\* Without a buffer the file is loaded, or the request fails.  A buffer older
\* than the file is forgotten, together with whatever the manager has by now.
LoadStat(c) ==
  /\ Busy(c, "stat")
  /\ LET p == task[c].path
         b == task[c].buf
         stale == disk[p].exists /\ (b # 0 => disk[p].mtime > bufs[b].mtime) IN
       \/ /\ stale
          /\ current' = IF b = 0 THEN current ELSE [current EXCEPT ![p] = 0]
          /\ Become(c, [pc |-> "load", path |-> p, mtime |-> disk[p].mtime,
                        goal |-> task[c].goal])
          /\ UNCHANGED handle
       \/ /\ ~ stale
          /\ IF b = 0 THEN Finish(c) /\ UNCHANGED handle
                      ELSE Obtain(c, p, b, task[c].goal)
          /\ UNCHANGED current
  /\ UNCHANGED <<disk, clock, bufs, issued, live, misfiled>>

LoadRead(c) ==
  /\ Busy(c, "load")
  /\ LET p == task[c].path IN
       IF disk[p].exists
         THEN Become(c, [pc |-> "insert", path |-> p, data |-> disk[p].content,
                         mtime |-> task[c].mtime, goal |-> task[c].goal])
         ELSE Finish(c)
  /\ UNCHANGED <<disk, clock, bufs, current, handle, issued, live, misfiled>>

\* cache_with_mtime: evict clean buffers if memory is short, then replace
\* whatever the manager has for the path.
Cache(p, data, mtime) ==
  /\ Len(bufs) < MaxBuffers
  /\ bufs' = Append(bufs, [content |-> data, dirty |-> FALSE, mtime |-> mtime])
  /\ \E victims \in SUBSET {q \in Paths : current[q] # 0 /\ ~ bufs[current[q]].dirty} :
       /\ Pressure \/ victims = {}
       /\ current' = [q \in Paths |-> IF q = p THEN Len(bufs) + 1
                                      ELSE IF q \in victims THEN 0 ELSE current[q]]

LoadInsert(c) ==
  /\ Busy(c, "insert")
  /\ Cache(task[c].path, task[c].data, task[c].mtime)
  /\ Obtain(c, task[c].path, Len(bufs) + 1, task[c].goal)
  /\ UNCHANGED <<disk, clock, issued, live, misfiled>>

(***************************************************************************)
(* write, flush and close.                                                 *)
(***************************************************************************)
Acknowledge(names, w) ==
  live' = [p \in Paths |-> IF p \in names THEN live[p] \cup {w} ELSE live[p]]

\* Mutant: write leaves the dirty flag as it was.
WriteUnmarked(c) ==
  /\ Ready(c)
  /\ IsOpen(c)
  /\ issued < MaxWrites
  /\ issued' = issued + 1
  /\ bufs' = [bufs EXCEPT ![handle[c].buf] =
                [content |-> @.content \cup {issued + 1}, dirty |-> @.dirty, mtime |-> clock]]
  /\ Acknowledge(handle[c].names, issued + 1)
  /\ UNCHANGED <<disk, clock, current, handle, task, misfiled>>

\* A write goes to the buffer of the handle, whoever else knows it.
Write(c) ==
  /\ Ready(c)
  /\ IsOpen(c)
  /\ issued < MaxWrites
  /\ issued' = issued + 1
  /\ bufs' = [bufs EXCEPT ![handle[c].buf] =
                [content |-> @.content \cup {issued + 1}, dirty |-> TRUE, mtime |-> clock]]
  /\ Acknowledge(handle[c].names, issued + 1)
  /\ UNCHANGED <<disk, clock, current, handle, task, misfiled>>

\* Mutant: flush takes a cached buffer for one that was flushed already.
FlushForgets(c, p) ==
  /\ Finish(c)
  /\ UNCHANGED <<disk, clock, bufs, current, issued, live, misfiled>>

\* FileBufferManager::flush looks the buffer up by path and copies it.
Flush(c, p) ==
  /\ LET b == current[p] IN
       IF b # 0 /\ bufs[b].dirty
         THEN Become(c, [pc |-> "write", path |-> p, buf |-> b,
                         data |-> bufs[b].content])
         ELSE Finish(c)
  /\ UNCHANGED <<disk, clock, bufs, current, issued, live, misfiled>>

FlushHandle(c) ==
  /\ "flush" \in Operations[c]
  /\ Ready(c)
  /\ IsOpen(c)
  /\ Flush(c, handle[c].path)
  /\ UNCHANGED handle

\* release takes the handle out of the table before it flushes.
Close(c) ==
  /\ Ready(c)
  /\ IsOpen(c)
  /\ handle' = [handle EXCEPT ![c] = Closed]
  /\ Flush(c, handle[c].path)

FlushWrite(c) ==
  /\ Busy(c, "write")
  /\ LET p == task[c].path IN
       /\ SetDisk(p, task[c].data)
       /\ misfiled' = [misfiled EXCEPT
            !.overwritten = @ \cup ((disk[p].content \ task[c].data) \cap live[p]),
            !.strayed = @ \cup (task[c].data \ live[p])]
  /\ Become(c, [task[c] EXCEPT !.pc = "clean"])
  /\ UNCHANGED <<bufs, current, handle, issued, live>>

\* mark_clean, whatever was written to the buffer meanwhile.
FlushClean(c) ==
  /\ Busy(c, "clean")
  /\ LET b == task[c].buf IN
       /\ bufs' = [bufs EXCEPT ![b].dirty = FALSE]
       /\ misfiled' = [misfiled EXCEPT !.raced = @ \cup (bufs[b].content \ task[c].data)]
       /\ Become(c, [pc |-> "stamp", path |-> task[c].path, buf |-> b])
  /\ UNCHANGED <<disk, clock, current, handle, issued, live>>

\* Mutant: the time of the file is rounded up.
FlushStampRoundedUp(c) ==
  /\ Busy(c, "stamp")
  /\ bufs' = IF disk[task[c].path].exists
               THEN [bufs EXCEPT ![task[c].buf].mtime = disk[task[c].path].mtime + 1]
               ELSE bufs
  /\ Finish(c)
  /\ UNCHANGED <<disk, clock, current, handle, issued, live, misfiled>>

\* sync_mtime: the buffer takes the time of the file, if there is one.
FlushStamp(c) ==
  /\ Busy(c, "stamp")
  /\ bufs' = IF disk[task[c].path].exists
               THEN [bufs EXCEPT ![task[c].buf].mtime = disk[task[c].path].mtime]
               ELSE bufs
  /\ Finish(c)
  /\ UNCHANGED <<disk, clock, current, handle, issued, live, misfiled>>

(***************************************************************************)
(* truncate (to nothing), create, unlink and rename.                       *)
(***************************************************************************)
TruncateBuffer(c) ==
  /\ Busy(c, "truncate")
  /\ LET p == task[c].path IN
       /\ bufs' = [bufs EXCEPT ![task[c].buf] =
                     [content |-> {}, dirty |-> TRUE, mtime |-> clock]]
       /\ live' = [live EXCEPT ![p] = {}]
       /\ misfiled' = [misfiled EXCEPT !.overwritten =
                         @ \cup (bufs[task[c].buf].content \ live[p])]
       /\ Become(c, [pc |-> "setlen", path |-> p])
  /\ UNCHANGED <<disk, clock, current, handle, issued>>

TruncateDisk(c) ==
  /\ Busy(c, "setlen")
  /\ LET p == task[c].path IN
       IF disk[p].exists
         THEN /\ SetDisk(p, {})
              /\ misfiled' = [misfiled EXCEPT !.overwritten =
                                @ \cup (disk[p].content \cap live[p])]
         ELSE UNCHANGED <<disk, clock, misfiled>>
  /\ Finish(c)
  /\ UNCHANGED <<bufs, current, handle, issued, live>>

\* The kernel sends create for a name it found missing.
Create(c, p) ==
  /\ "create" \in Operations[c]
  /\ Ready(c)
  /\ ~ IsOpen(c)
  /\ p \in Opens[c]
  /\ ~ disk[p].exists
  /\ SetDisk(p, {})
  /\ live' = [live EXCEPT ![p] = {}]
  /\ Become(c, [pc |-> "install", path |-> p])
  /\ UNCHANGED <<bufs, current, handle, issued, misfiled>>

CreateInstall(c) ==
  /\ Busy(c, "install")
  /\ Cache(task[c].path, {}, clock)
  /\ Obtain(c, task[c].path, Len(bufs) + 1, "open")
  /\ UNCHANGED <<disk, clock, issued, live, misfiled>>

\* Handles stand for files: a rename takes them along, though the path they
\* remember stays; the file that was replaced or removed has no name left.
Renamed(p, q) ==
  [c \in Clients |->
     IF handle[c] = Closed THEN Closed
     ELSE [handle[c] EXCEPT !.names = (@ \ {p, q}) \cup {r \in {q} : p \in @}]]

Unlinked(p) ==
  [c \in Clients |->
     IF handle[c] = Closed THEN Closed ELSE [handle[c] EXCEPT !.names = @ \ {p}]]

Gone(p) == [exists |-> FALSE, content |-> {}, mtime |-> disk[p].mtime]

Unlink(c, p) ==
  /\ "unlink" \in Operations[c]
  /\ Ready(c)
  /\ p \in Opens[c]
  /\ disk[p].exists
  /\ current' = [current EXCEPT ![p] = 0]
  /\ Become(c, [pc |-> "unlink", path |-> p])
  /\ UNCHANGED <<disk, clock, bufs, handle, issued, live, misfiled>>

UnlinkDisk(c) ==
  /\ Busy(c, "unlink")
  /\ LET p == task[c].path IN
       /\ disk' = [disk EXCEPT ![p] = Gone(p)]
       /\ live' = [live EXCEPT ![p] = {}]
       /\ handle' = Unlinked(p)
  /\ Finish(c)
  /\ UNCHANGED <<clock, bufs, current, issued, misfiled>>

\* The file keeps its time; the buffer of the target stays.
Rename(c, p, q) ==
  /\ "rename" \in Operations[c]
  /\ Ready(c)
  /\ p # q
  /\ {p, q} \subseteq Opens[c]
  /\ disk[p].exists
  /\ disk' = [disk EXCEPT ![q] = disk[p], ![p] = Gone(p)]
  /\ live' = [live EXCEPT ![q] = live[p], ![p] = {}]
  /\ handle' = Renamed(p, q)
  /\ Become(c, [pc |-> "forget", path |-> p])
  /\ UNCHANGED <<clock, bufs, current, issued, misfiled>>

RenameForget(c) ==
  /\ Busy(c, "forget")
  /\ current' = [current EXCEPT ![task[c].path] = 0]
  /\ Finish(c)
  /\ UNCHANGED <<disk, clock, bufs, handle, issued, live, misfiled>>

\* A backend replaces the file by what somebody else wrote, having taken what
\* the disk held into account.
Refresh(p) ==
  /\ Refreshes
  /\ disk[p].exists
  /\ issued < MaxWrites
  /\ issued' = issued + 1
  /\ SetDisk(p, {issued + 1})
  /\ live' = [live EXCEPT ![p] = @ \ disk[p].content]
  /\ UNCHANGED <<bufs, current, handle, task, misfiled>>

Next ==
  \/ \E c \in Clients :
       \/ \E p \in Paths : OpenFile(c, p) \/ SetSize(c, p) \/ Create(c, p) \/ Unlink(c, p)
       \/ LoadStat(c) \/ LoadRead(c) \/ LoadInsert(c)
       \/ Write(c) \/ FlushHandle(c) \/ Close(c)
       \/ FlushWrite(c) \/ FlushClean(c) \/ FlushStamp(c)
       \/ TruncateBuffer(c) \/ TruncateDisk(c)
       \/ CreateInstall(c) \/ UnlinkDisk(c)
       \/ \E p, q \in Paths : Rename(c, p, q)
       \/ RenameForget(c)
  \/ \E p \in Paths : Refresh(p)

Spec == Init /\ [][Next]_vars

--------------------------------------------------------------------------------
\* A file is in use while a handle stands for it or any request is running.
InUse(p) == \E c \in Clients : ~ Ready(c) \/ (IsOpen(c) /\ p \in handle[c].names)

Unsaved(p) == live[p] \ disk[p].content

(***************************************************************************)
(* Releasing a handle flushes it (close calls flush, "Flush pending buffer *)
(* content to disk", file_mutations.rs:285): once nobody uses a file, what *)
(* was written to it is in the local directory, whatever else happened.    *)
(***************************************************************************)
ClosedMeansSaved == \A p \in Paths : ~ InUse(p) => Unsaved(p) = {}

(***************************************************************************)
(* The ways a write can miss the disk are known: it sits in a dirty buffer *)
(* the manager no longer knows (evicted while clean, replaced by a         *)
(* concurrent open, dropped by rename), or one of the races of flush took  *)
(* its dirty flag, wrote an older copy over it, or wrote it under the old  *)
(* name.  In particular a buffer the manager knows is never left dirty by  *)
(* the last close.                                                         *)
(***************************************************************************)
Orphaned == UNION {bufs[b].content : b \in
              {x \in BufferIds : bufs[x].dirty /\ \A p \in Paths : current[p] # x}}

UnsavedIsExplained ==
  \A p \in Paths :
    ~ InUse(p) => Unsaved(p) \subseteq Orphaned \cup misfiled.raced
                                \cup misfiled.overwritten \cup misfiled.strayed
================================================================================
