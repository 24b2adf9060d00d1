------------------------------- MODULE S3Session -------------------------------
(***************************************************************************)
(* The S3 backend (omnifuse-s3/src/session.rs, manifest.rs) with the merge *)
(* policy of omnifuse-core/src/text_merge.rs: the sync of dirty files, the *)
(* refresh and the initialization, against a store other programs write.   *)
(*                                                                         *)
(* The content of an object is the set of changes it contains.  The store  *)
(* derives the ETag of an object from its content, as S3 does for objects  *)
(* put in one part, so an ETag is the content it was given to, and the     *)
(* state the manifest keeps of an object is that ETag.  Each call to the   *)
(* store and each access to a file is an action.                           *)
(***************************************************************************)
EXTENDS Naturals, Sequences

CONSTANTS
  Objects,
  Text,         \* the objects that are UTF-8 text
  Present,      \* the objects that exist at first
  Absent,       \* no object, no file, no entry, no base
  Cached,       \* whether the session has a persistent cache
  Operations,   \* what happens besides sync
  MaxChanges,   \* bound on the changes made by anybody
  MAX_PUT_RETRIES

ASSUME S3SessionAssumption ==
  /\ {Text, Present} \subseteq SUBSET Objects
  /\ Absent \notin Objects /\ \A c \in SUBSET (1 .. MaxChanges) : c # Absent
  /\ Cached \in BOOLEAN
  /\ Operations \subseteq {"edit", "remove", "foreign", "revert", "delete",
                           "resolve", "lose", "refresh", "crash"}
  /\ MaxChanges \in Nat
  /\ MAX_PUT_RETRIES \in Nat \ {0}

VARIABLES
  remote,       \* the bucket
  local,        \* the local directory
  manifest,     \* S3Manifest::entries, in memory and on disk
  base,         \* the base files of ManifestStore
  cache,        \* the persistent cache: ETags and the bytes kept for them
  mode,         \* is the mount down, starting or up
  dirty,        \* files the engine will hand to the next sync
  conflicted,   \* files the last syncs reported as a conflict
  sync,         \* sync_dirty
  poll,         \* refresh_remote, or initialize
  issued,       \* the object of each change made
  gone          \* history: changes removed by somebody who knew them

vars == <<remote, local, manifest, base, cache, mode, dirty, conflicted, sync, poll,
          issued, gone>>
stores == <<remote, local, manifest, base, cache>>

Changes == 1 .. MaxChanges
Content == SUBSET Changes
Maybe   == Content \cup {Absent}
Bytes(c) == IF c = Absent THEN {} ELSE c

\* What sync_dirty knows: the batch and how far it is, then the object in
\* work, its attempt, the bytes and state read, and the bytes to write.  History:
\* whether the file agreed with the object when it was read, and the object has
\* not been written by anybody else since.
NoSync == [pc |-> "idle", batch |-> {}, todo |-> {}, conflicts |-> {},
           obj |-> Absent, attempt |-> 0, mine |-> {}, tag |-> Absent, bytes |-> {},
           agreed |-> FALSE]
SyncPc == {"idle", "next", "read", "entry", "stat", "base", "compare", "restat", "merge",
           "accept", "writeMerged", "put", "saveBase", "saveManifest", "dropLocal",
           "statDelete", "delete", "dropManifest", "dropBase"}

\* What refresh_remote knows: the listing, the changes to classify, the
\* decisions, and the decision in work.
NoDecision == [obj |-> Absent, act |-> "none", tag |-> Absent, bytes |-> {}, base |-> {}]
NoPoll == [pc |-> "idle", listing |-> [o \in Objects |-> Absent], todo |-> {},
           decided |-> {}, deferred |-> FALSE, now |-> NoDecision]
Acts   == {"none", "write", "merge", "state", "remove"}
PollPc == {"idle", "classify", "compare", "apply", "saveBase", "saveManifest",
           "dropManifest", "dropBase", "init", "initBase"}
Decision == [obj : Objects \cup {Absent}, act : Acts, tag : Maybe, bytes : Content,
             base : Content]

TypeOK ==
  /\ {remote, local, manifest, base} \subseteq [Objects -> Maybe]
  /\ cache \in [Objects -> SUBSET [tag : Content, bytes : Content]]
  /\ mode \in {"down", "starting", "up"}
  /\ dirty \subseteq Objects
  /\ conflicted \subseteq Objects
  /\ sync \in [pc : SyncPc, batch : SUBSET Objects, todo : SUBSET Objects,
               conflicts : SUBSET Objects, obj : Objects \cup {Absent},
               attempt : 0 .. MAX_PUT_RETRIES - 1, mine : Content, tag : Maybe,
               bytes : Content, agreed : BOOLEAN]
  /\ poll.pc \in PollPc
  /\ poll.listing \in [Objects -> Maybe]
  /\ poll.todo \subseteq Objects
  /\ poll.decided \subseteq Decision
  /\ poll.deferred \in BOOLEAN
  /\ poll.now \in Decision
  /\ issued \in Seq(Objects) /\ Len(issued) \leq MaxChanges
  /\ gone \subseteq Changes

\* A mount that just came up on a bucket of empty objects.
Init ==
  /\ remote = [o \in Objects |-> IF o \in Present THEN {} ELSE Absent]
  /\ local = remote
  /\ manifest = remote
  /\ base = remote
  /\ cache = [o \in Objects |-> {}]
  /\ mode = "up"
  /\ dirty = {}
  /\ conflicted = {}
  /\ sync = NoSync
  /\ poll = NoPoll
  /\ issued = <<>>
  /\ gone = {}

(***************************************************************************)
(* The application and the other programs.                                 *)
(***************************************************************************)
NewChange == Len(issued) + 1

\* A change is saved to the local file, or a new file is made of it.
Edit(o) ==
  /\ "edit" \in Operations
  /\ mode = "up"
  /\ Len(issued) < MaxChanges
  /\ issued' = Append(issued, o)
  /\ local' = [local EXCEPT ![o] = Bytes(@) \cup {NewChange}]
  /\ dirty' = dirty \cup {o}
  /\ UNCHANGED <<remote, manifest, base, cache, mode, conflicted, sync, poll, gone>>

Remove(o) ==
  /\ "remove" \in Operations
  /\ mode = "up"
  /\ local[o] # Absent
  /\ local' = [local EXCEPT ![o] = Absent]
  /\ gone' = gone \cup local[o]
  /\ dirty' = dirty \cup {o}
  /\ UNCHANGED <<remote, manifest, base, cache, mode, conflicted, sync, poll, issued>>

\* A conflict is resolved in favour of the object.
Resolve(o) ==
  /\ "resolve" \in Operations
  /\ mode = "up"
  /\ o \in conflicted
  /\ remote[o] # Absent
  /\ local' = [local EXCEPT ![o] = remote[o]]
  /\ gone' = gone \cup (Bytes(local[o]) \ remote[o])
  /\ dirty' = dirty \cup {o}
  /\ UNCHANGED <<remote, manifest, base, cache, mode, conflicted, sync, poll, issued>>

\* Somebody else adds a change, empties the object or deletes it.
ForeignPut(o, content) ==
  /\ Len(issued) < MaxChanges
  /\ issued' = Append(issued, o)
  /\ remote' = [remote EXCEPT ![o] = content]
  /\ gone' = gone \cup (Bytes(remote[o]) \ Bytes(content)) \cup
               IF NewChange \in Bytes(content) THEN {} ELSE {NewChange}
  /\ sync' = [sync EXCEPT !.agreed = @ /\ sync.obj # o]
  /\ UNCHANGED <<local, manifest, base, cache, mode, dirty, conflicted, poll>>

Foreign(o) ==
  \/ "foreign" \in Operations /\ ForeignPut(o, Bytes(remote[o]) \cup {NewChange})
  \/ "revert" \in Operations /\ remote[o] \notin {{}, Absent} /\ ForeignPut(o, {})
  \/ "delete" \in Operations /\ remote[o] # Absent /\ ForeignPut(o, Absent)

(***************************************************************************)
(* What sync and refresh share.                                            *)
(***************************************************************************)
Known(o, tag) == {e \in cache[o] : e.tag = tag}
Remember(o, tag, bytes) ==
  IF Cached THEN [cache EXCEPT ![o] = {e \in @ : e.tag # tag} \cup
                                      {[tag |-> tag, bytes |-> bytes]}]
            ELSE cache

\* read_object_cached: what the cache has for the ETag, or what the object
\* is now, which is then kept under the ETag that was asked for.
ReadObject(o, tag, bytes) ==
  \/ /\ \E e \in Known(o, tag) : bytes = e.bytes
     /\ UNCHANGED cache
  \/ /\ Known(o, tag) = {}
     /\ remote[o] # Absent
     /\ bytes = remote[o]
     /\ cache' = Remember(o, tag, bytes)

\* The object is gone, or the call fails.
ReadFails(o, tag) == Known(o, tag) = {}

\* Mutant: the same change on both sides is merged like any other.
DecideForgetsEqual(o, b, mine, theirs) ==
  IF o \notin Text THEN {[act |-> "conflict", bytes |-> {}]}
  ELSE IF b = theirs THEN {[act |-> "upload", bytes |-> mine]}
  ELSE IF b = mine THEN {[act |-> "accept", bytes |-> theirs]}
  ELSE {[act |-> "conflict", bytes |-> {}],
        [act |-> "merge",
         bytes |-> (mine \cap theirs) \cup (mine \ b) \cup (theirs \ b)]}

\* Mutant: objects that are not text are merged as well.
DecideAnyBytes(o, b, mine, theirs) ==
  IF b = theirs
    THEN {[act |-> IF mine = theirs THEN "synced" ELSE "upload", bytes |-> mine]}
  ELSE IF b = mine THEN {[act |-> "accept", bytes |-> theirs]}
  ELSE {[act |-> "merge",
         bytes |-> (mine \cap theirs) \cup (mine \ b) \cup (theirs \ b)]}

\* decode_utf8_text and decide_text_merge.  Changes to the same lines, which
\* the merge cannot reconcile, are a matter of choice.
Decide(o, b, mine, theirs) ==
  IF o \notin Text THEN {[act |-> "conflict", bytes |-> {}]}
  ELSE IF b = theirs
    THEN {[act |-> IF mine = theirs THEN "synced" ELSE "upload", bytes |-> mine]}
  ELSE IF b = mine THEN {[act |-> "accept", bytes |-> theirs]}
  ELSE IF mine = theirs THEN {[act |-> "synced", bytes |-> mine]}
  ELSE {[act |-> "conflict", bytes |-> {}],
        [act |-> "merge",
         bytes |-> (mine \cap theirs) \cup (mine \ b) \cup (theirs \ b)]}

(***************************************************************************)
(* sync_dirty.                                                             *)
(***************************************************************************)
At(pc) == mode = "up" /\ sync.pc = pc
Object == sync.obj
Go(pc) == sync' = [sync EXCEPT !.pc = pc]

\* The object is done with; with a conflict, it is reported at the end.
Between(conflict) ==
  sync' = [NoSync EXCEPT !.pc = "next", !.batch = sync.batch,
                         !.todo = sync.todo \ {Object},
                         !.conflicts = sync.conflicts \cup
                                       IF conflict THEN {Object} ELSE {}]
Done     == Between(FALSE)
Conflict == Between(TRUE)

\* Offline, or an error: the engine keeps the whole batch.
Fail ==
  /\ sync' = NoSync
  /\ dirty' = dirty \cup sync.batch

SyncBegin ==
  /\ At("idle")
  /\ dirty # {}
  /\ sync' = [NoSync EXCEPT !.pc = "next", !.batch = dirty, !.todo = dirty]
  /\ conflicted' = conflicted \ dirty
  /\ dirty' = {}
  /\ UNCHANGED <<stores, mode, poll, issued, gone>>

\* sync_one: upload what exists, delete what does not and was known.
SyncNext(o) ==
  /\ At("next")
  /\ o \in sync.todo
  /\ LET here == [sync EXCEPT !.obj = o] IN
       \/ /\ local[o] # Absent
          /\ sync' = [here EXCEPT !.pc = "read"]
       \/ /\ local[o] = Absent /\ manifest[o] # Absent
          /\ sync' = [here EXCEPT !.pc = "statDelete", !.tag = manifest[o]]
       \/ /\ local[o] = Absent /\ manifest[o] = Absent
          /\ sync' = [sync EXCEPT !.todo = @ \ {o}]
  /\ UNCHANGED <<stores, mode, dirty, conflicted, poll, issued, gone>>

\* upload_or_merge_once reads the file, then the entry of the manifest,
SyncRead ==
  /\ At("read")
  /\ \/ /\ local[Object] # Absent
        /\ sync' = [sync EXCEPT !.pc = "entry", !.mine = local[Object],
                                !.agreed = local[Object] = remote[Object]]
        /\ UNCHANGED dirty
     \/ local[Object] = Absent /\ Fail
  /\ UNCHANGED <<stores, mode, conflicted, poll, issued, gone>>

SyncEntry ==
  /\ At("entry")
  /\ sync' = [sync EXCEPT !.pc = "stat", !.tag = manifest[Object]]
  /\ UNCHANGED <<stores, mode, dirty, conflicted, poll, issued, gone>>

\* Mutant: the upload relies on the ETag of stat and forgets the manifest.
SyncStatForgetsManifest ==
  /\ At("stat")
  /\ sync' = [sync EXCEPT !.pc = "put", !.tag = remote[Object], !.bytes = sync.mine]
  /\ UNCHANGED <<stores, mode, dirty, conflicted, poll, issued, gone>>

\* and then asks the store for the state of the object.
SyncStat ==
  /\ At("stat")
  /\ LET known == sync.tag
         found == remote[Object] IN
       \/ Fail
       \/ /\ known # Absent /\ found # known
          /\ sync' = [sync EXCEPT !.pc = "base", !.tag = found]
          /\ UNCHANGED dirty
       \/ /\ known = Absent /\ found # Absent
          /\ sync' = [sync EXCEPT !.pc = "compare", !.tag = found]
          /\ UNCHANGED dirty
       \/ /\ known = found
          /\ sync' = [sync EXCEPT !.pc = "put", !.bytes = sync.mine]
          /\ UNCHANGED dirty
  /\ UNCHANGED <<stores, mode, conflicted, poll, issued, gone>>

\* The base is loaded for the merge with the object that changed, or to see
\* whether the file changed too where the object is gone.
SyncBase ==
  /\ At("base")
  /\ LET known == Bytes(base[Object]) IN
       IF sync.tag # Absent THEN sync' = [sync EXCEPT !.pc = "merge", !.bytes = known]
       ELSE IF known = sync.mine THEN Go("dropLocal")
       ELSE Conflict
  /\ UNCHANGED <<stores, mode, dirty, conflicted, poll, issued, gone>>

\* An object unknown to the manifest is adopted if it has the same bytes.
SyncCompare ==
  /\ At("compare")
  /\ \/ /\ \E theirs \in Content :
             /\ ReadObject(Object, sync.tag, theirs)
             /\ IF theirs = sync.mine THEN Go("restat") ELSE Conflict
        /\ UNCHANGED dirty
     \/ ReadFails(Object, sync.tag) /\ Fail /\ UNCHANGED cache
  /\ UNCHANGED <<remote, local, manifest, base, mode, conflicted, poll, issued, gone>>

SyncRestat ==
  /\ At("restat")
  /\ \/ /\ remote[Object] # Absent
        /\ sync' = [sync EXCEPT !.pc = "saveBase", !.tag = remote[Object],
                                !.bytes = sync.mine]
        /\ UNCHANGED dirty
     \/ Fail
  /\ UNCHANGED <<stores, mode, conflicted, poll, issued, gone>>

\* merge_remote_drift.
SyncMerge ==
  /\ At("merge")
  /\ \/ /\ \E theirs \in Content :
             /\ ReadObject(Object, sync.tag, theirs)
             /\ \E d \in Decide(Object, sync.bytes, sync.mine, theirs) :
                  \/ d.act = "conflict" /\ Conflict
                  \/ d.act = "upload" /\ sync' = [sync EXCEPT !.pc = "put", !.bytes = d.bytes]
                  \/ d.act = "merge"  /\ sync' = [sync EXCEPT !.pc = "writeMerged",
                                                              !.bytes = d.bytes]
                  \/ d.act = "accept" /\ sync' = [sync EXCEPT !.pc = "accept",
                                                              !.bytes = d.bytes]
                  \/ d.act = "synced" /\ sync' = [sync EXCEPT !.pc = "saveBase",
                                                              !.bytes = d.bytes]
        /\ UNCHANGED dirty
     \/ ReadFails(Object, sync.tag) /\ Fail /\ UNCHANGED cache
  /\ UNCHANGED <<remote, local, manifest, base, mode, conflicted, poll, issued, gone>>

\* The merged or the accepted text replaces the file, whatever it holds now.
SyncWriteLocal ==
  /\ \/ At("writeMerged") /\ Go("put")
     \/ At("accept") /\ Go("saveBase")
  /\ local' = [local EXCEPT ![Object] = sync.bytes]
  /\ UNCHANGED <<remote, manifest, base, cache, mode, dirty, conflicted, poll, issued, gone>>

\* Mutant: the third failed precondition is retried too.
RetryOnceMore ==
  \/ sync.attempt < MAX_PUT_RETRIES
     /\ sync' = [sync EXCEPT !.pc = "read", !.attempt = @ + 1]
  \/ sync.attempt = MAX_PUT_RETRIES /\ Conflict

\* upload_or_merge after a failed precondition.
Retry ==
  \/ sync.attempt + 1 < MAX_PUT_RETRIES
     /\ sync' = [NoSync EXCEPT !.pc = "read", !.batch = sync.batch, !.todo = sync.todo,
                               !.conflicts = sync.conflicts, !.obj = Object,
                               !.attempt = sync.attempt + 1]
  \/ sync.attempt + 1 = MAX_PUT_RETRIES /\ Conflict

\* put_create_and_record and put_update_and_record: If-None-Match where the
\* object is believed absent, If-Match otherwise.  The answer may be lost.
SyncPut ==
  /\ At("put")
  /\ \/ /\ remote[Object] = sync.tag
        /\ remote' = [remote EXCEPT ![Object] = sync.bytes]
        /\ \/ /\ sync' = [sync EXCEPT !.pc = "saveBase", !.tag = sync.bytes]
              /\ cache' = Remember(Object, sync.bytes, sync.bytes)
              /\ UNCHANGED dirty
           \/ "lose" \in Operations /\ Fail /\ UNCHANGED cache
     \/ remote[Object] # sync.tag /\ Retry /\ UNCHANGED <<remote, cache, dirty>>
     \/ Fail /\ UNCHANGED <<remote, cache>>
  /\ UNCHANGED <<local, manifest, base, mode, conflicted, poll, issued, gone>>

\* save_synced_state: the base, then the manifest.
SyncSaveBase ==
  /\ At("saveBase")
  /\ base' = [base EXCEPT ![Object] = sync.bytes]
  /\ Go("saveManifest")
  /\ UNCHANGED <<remote, local, manifest, cache, mode, dirty, conflicted, poll, issued, gone>>

SyncSaveManifest ==
  /\ At("saveManifest")
  /\ manifest' = [manifest EXCEPT ![Object] = sync.tag]
  /\ Done
  /\ UNCHANGED <<remote, local, base, cache, mode, dirty, conflicted, poll, issued, gone>>

\* delete_remote: compare the whole state, of which a put, a listing and a
\* stat need not report the same for one ETag, then delete what is there.
SyncStatDelete ==
  /\ At("statDelete")
  /\ \/ /\ (remote[Object] = sync.tag /\ Go("delete")) \/ Conflict
        /\ UNCHANGED dirty
     \/ Fail
  /\ UNCHANGED <<stores, mode, conflicted, poll, issued, gone>>

SyncDelete ==
  /\ At("delete")
  /\ \/ /\ remote' = [remote EXCEPT ![Object] = Absent]
        /\ \/ Go("dropManifest") /\ UNCHANGED dirty
           \/ "lose" \in Operations /\ Fail
     \/ Fail /\ UNCHANGED remote
  /\ UNCHANGED <<local, manifest, base, cache, mode, conflicted, poll, issued, gone>>

\* handle_remote_delete_during_upload removes the file first.
SyncDropLocal ==
  /\ At("dropLocal")
  /\ local' = [local EXCEPT ![Object] = Absent]
  /\ Go("dropManifest")
  /\ UNCHANGED <<remote, manifest, base, cache, mode, dirty, conflicted, poll, issued, gone>>

SyncDropManifest ==
  /\ At("dropManifest")
  /\ manifest' = [manifest EXCEPT ![Object] = Absent]
  /\ Go("dropBase")
  /\ UNCHANGED <<remote, local, base, cache, mode, dirty, conflicted, poll, issued, gone>>

SyncDropBase ==
  /\ At("dropBase")
  /\ base' = [base EXCEPT ![Object] = Absent]
  /\ Done
  /\ UNCHANGED <<remote, local, manifest, cache, mode, dirty, conflicted, poll, issued, gone>>

\* Success cleans the batch, Conflict keeps the conflicting files protected.
SyncEnd ==
  /\ At("next")
  /\ sync.todo = {}
  /\ sync' = NoSync
  /\ conflicted' = conflicted \cup sync.conflicts
  /\ UNCHANGED <<stores, mode, dirty, poll, issued, gone>>

(***************************************************************************)
(* refresh_remote.                                                         *)
(***************************************************************************)
Polling(pc) == mode = "up" /\ poll.pc = pc
Protected   == dirty \cup sync.batch \cup conflicted

\* Mutant: entries without an object are overlooked.
DriftedModifiedOnly == {o \in Objects : remote[o] # Absent /\ remote[o] # manifest[o]}

\* diff_remote: objects whose state is not that of the manifest, and entries
\* of the manifest without an object.
Drifted == {o \in Objects : remote[o] # manifest[o]}

\* The changes are deferred if one of them touches a protected file.
RefreshBegin ==
  /\ "refresh" \in Operations
  /\ Polling("idle")
  /\ Drifted # {}
  /\ Drifted \cap Protected = {}
  /\ poll' = [NoPoll EXCEPT !.pc = "classify", !.listing = remote, !.todo = Drifted]
  /\ UNCHANGED <<stores, mode, dirty, conflicted, sync, issued, gone>>

Decided(act, o, tag, bytes, b) ==
  poll' = [poll EXCEPT !.pc = "classify", !.todo = @ \ {o}, !.now = NoDecision,
             !.decided = @ \cup {[obj |-> o, act |-> act, tag |-> tag, bytes |-> bytes,
                                  base |-> b]}]
Deferred(o) ==
  poll' = [poll EXCEPT !.pc = "classify", !.todo = @ \ {o}, !.now = NoDecision,
                       !.deferred = TRUE]

ClassifyRead(o) ==
  /\ Polling("classify")
  /\ o \in poll.todo
  /\ poll.listing[o] # Absent
  /\ \E theirs \in Content :
       /\ ReadObject(o, poll.listing[o], theirs)
       /\ poll' = [poll EXCEPT !.pc = "compare",
                     !.now = [NoDecision EXCEPT !.obj = o, !.bytes = theirs]]
  /\ UNCHANGED <<remote, local, manifest, base, mode, dirty, conflicted, sync, issued, gone>>

ClassifyFails(o) ==
  /\ Polling("classify")
  /\ o \in poll.todo
  /\ poll.listing[o] # Absent
  /\ ReadFails(o, poll.listing[o])
  /\ poll' = NoPoll
  /\ UNCHANGED <<stores, mode, dirty, conflicted, sync, issued, gone>>

Unedited(o) == local[o] = Absent \/ (base[o] # Absent /\ local[o] = base[o])

ClassifyModified ==
  /\ Polling("compare")
  /\ LET o == poll.now.obj
         tag == poll.listing[o]
         theirs == poll.now.bytes IN
       \/ Unedited(o) /\ Decided("write", o, tag, theirs, theirs)
       \/ /\ ~ Unedited(o)
          /\ \E d \in Decide(o, Bytes(base[o]), Bytes(local[o]), theirs) :
               \/ d.act = "conflict" /\ Deferred(o)
               \/ d.act = "accept" /\ Decided("write", o, tag, theirs, theirs)
               \/ d.act = "merge" /\ Decided("merge", o, tag, d.bytes, theirs)
               \/ d.act \in {"upload", "synced"} /\ Decided("state", o, tag, {}, {})
  /\ UNCHANGED <<stores, mode, dirty, conflicted, sync, issued, gone>>

ClassifyDeleted(o) ==
  /\ Polling("classify")
  /\ o \in poll.todo
  /\ poll.listing[o] = Absent
  /\ IF Unedited(o) THEN Decided("remove", o, Absent, {}, {}) ELSE Deferred(o)
  /\ UNCHANGED <<stores, mode, dirty, conflicted, sync, issued, gone>>

\* One conflict defers everything.
Classified ==
  /\ Polling("classify")
  /\ poll.todo = {}
  /\ poll' = IF poll.deferred THEN NoPoll ELSE [poll EXCEPT !.pc = "apply"]
  /\ UNCHANGED <<stores, mode, dirty, conflicted, sync, issued, gone>>

\* A decision is carried out, whatever happened to the file since.
Apply(d) ==
  /\ Polling("apply")
  /\ d \in poll.decided
  /\ \/ /\ d.act \in {"write", "merge"}
        /\ local' = [local EXCEPT ![d.obj] = d.bytes]
        /\ poll' = [poll EXCEPT !.pc = "saveBase", !.now = d]
     \/ /\ d.act = "state"
        /\ poll' = [poll EXCEPT !.pc = "saveManifest", !.now = d]
        /\ UNCHANGED local
     \/ /\ d.act = "remove"
        /\ local' = [local EXCEPT ![d.obj] = Absent]
        /\ poll' = [poll EXCEPT !.pc = "dropManifest", !.now = d]
  /\ UNCHANGED <<remote, manifest, base, cache, mode, dirty, conflicted, sync, issued, gone>>

Applied == poll' = [poll EXCEPT !.pc = "apply", !.now = NoDecision,
                                !.decided = @ \ {poll.now}]

ApplyBase ==
  /\ \/ /\ Polling("saveBase")
        /\ base' = [base EXCEPT ![poll.now.obj] = poll.now.base]
        /\ poll' = [poll EXCEPT !.pc = "saveManifest"]
     \/ /\ Polling("dropBase")
        /\ base' = [base EXCEPT ![poll.now.obj] = Absent]
        /\ Applied
  /\ UNCHANGED <<remote, local, manifest, cache, mode, dirty, conflicted, sync, issued, gone>>

ApplyManifest ==
  /\ \/ Polling("saveManifest") /\ Applied
     \/ Polling("dropManifest") /\ poll' = [poll EXCEPT !.pc = "dropBase"]
  /\ manifest' = [manifest EXCEPT ![poll.now.obj] = poll.now.tag]
  /\ UNCHANGED <<remote, local, base, cache, mode, dirty, conflicted, sync, issued, gone>>

RefreshEnd ==
  /\ Polling("apply")
  /\ poll.decided = {}
  /\ poll' = NoPoll
  /\ UNCHANGED <<stores, mode, dirty, conflicted, sync, issued, gone>>

(***************************************************************************)
(* A crash, and initialize when the mount is started again.                *)
(***************************************************************************)
Crash ==
  /\ "crash" \in Operations
  /\ mode # "down"
  /\ mode' = "down"
  /\ dirty' = {}
  /\ conflicted' = {}
  /\ sync' = NoSync
  /\ poll' = NoPoll
  /\ UNCHANGED <<stores, issued, gone>>

\* Without the remote the mount starts on what is local, unless the manifest
\* is empty; then it does not start.
InitBegin ==
  /\ mode = "down"
  /\ \/ /\ mode' = "starting"
        /\ poll' = [NoPoll EXCEPT !.pc = "init", !.listing = remote,
                                  !.todo = {o \in Objects : remote[o] # Absent}]
     \/ /\ \E o \in Objects : manifest[o] # Absent
        /\ mode' = "up"
        /\ UNCHANGED poll
  /\ UNCHANGED <<stores, dirty, conflicted, sync, issued, gone>>

\* materialize_remote: each object is read and written over the local file;
\* what was edited and not uploaded before the restart is gone.
InitWrite(o) ==
  /\ mode = "starting" /\ poll.pc = "init"
  /\ o \in poll.todo
  /\ \/ \E theirs \in Content :
          /\ ReadObject(o, poll.listing[o], theirs)
          /\ local' = [local EXCEPT ![o] = theirs]
          /\ poll' = [poll EXCEPT !.pc = "initBase",
                        !.now = [NoDecision EXCEPT !.obj = o, !.bytes = theirs]]
          /\ gone' = gone \cup (Bytes(local[o]) \ theirs)
          /\ UNCHANGED mode
     \/ /\ ReadFails(o, poll.listing[o])
        /\ mode' = "down"
        /\ poll' = NoPoll
        /\ UNCHANGED <<local, cache, gone>>
  /\ UNCHANGED <<remote, manifest, base, dirty, conflicted, sync, issued>>

InitBase ==
  /\ mode = "starting" /\ poll.pc = "initBase"
  /\ base' = [base EXCEPT ![poll.now.obj] = poll.now.bytes]
  /\ poll' = [poll EXCEPT !.pc = "init", !.todo = @ \ {poll.now.obj}, !.now = NoDecision]
  /\ UNCHANGED <<remote, local, manifest, cache, mode, dirty, conflicted, sync, issued, gone>>

InitEnd ==
  /\ mode = "starting" /\ poll.pc = "init"
  /\ poll.todo = {}
  /\ manifest' = poll.listing
  /\ mode' = "up"
  /\ poll' = NoPoll
  /\ UNCHANGED <<remote, local, base, cache, dirty, conflicted, sync, issued, gone>>

Sync ==
  \/ SyncBegin \/ (\E o \in Objects : SyncNext(o)) \/ SyncEnd
  \/ SyncRead \/ SyncEntry \/ SyncStat \/ SyncBase \/ SyncCompare \/ SyncRestat \/ SyncMerge \/ SyncWriteLocal
  \/ SyncPut \/ SyncSaveBase \/ SyncSaveManifest
  \/ SyncStatDelete \/ SyncDelete \/ SyncDropLocal \/ SyncDropManifest \/ SyncDropBase

Refresh ==
  \/ RefreshBegin \/ Classified \/ ClassifyModified \/ RefreshEnd
  \/ \E o \in Objects : ClassifyRead(o) \/ ClassifyFails(o) \/ ClassifyDeleted(o)
  \/ \E d \in poll.decided : Apply(d)
  \/ ApplyBase \/ ApplyManifest

Initialize == InitBegin \/ (\E o \in Objects : InitWrite(o)) \/ InitBase \/ InitEnd

Next ==
  \/ \E o \in Objects : Edit(o) \/ Remove(o) \/ Resolve(o) \/ Foreign(o)
  \/ Sync
  \/ Refresh
  \/ Crash
  \/ Initialize

Spec == Init /\ [][Next]_vars

\* A call that could have succeeded fails: the sync or the poll is given up.
SyncFails ==
  /\ sync.pc \notin {"idle", "next", "read"}
  /\ sync.pc \in {"compare", "restat", "merge"} => remote[Object] # Absent
  /\ sync' = NoSync
PollFails == \E o \in Objects : ClassifyFails(o)

\* The engine goes on syncing and polling, and some time the mount stays up
\* and the store answers.
FairSpec ==
  /\ Spec
  /\ WF_vars(Sync) /\ WF_vars(Refresh) /\ WF_vars(Initialize)
  /\ <>[](mode = "up")
  /\ <>[][~ SyncFails /\ ~ PollFails]_vars

--------------------------------------------------------------------------------
(***************************************************************************)
(* "Concurrent remote updates can never be silently overwritten"           *)
(* (README.md:144): what disappears from the bucket was removed by         *)
(* somebody who knew it.                                                   *)
(***************************************************************************)
NothingClobbered ==
  [][\A o \in Objects : Bytes(remote[o]) \ Bytes(remote'[o]) \subseteq gone']_vars

(***************************************************************************)
(* "Binary objects on S3 surface as explicit conflicts instead of          *)
(* clobbering" (README.md:144): between syncs, a change anybody made to an *)
(* object that is not text is in the bucket or in the local directory,     *)
(* unless somebody removed it who knew it or a restart replaced the file.  *)
(***************************************************************************)
EditsKept ==
  sync = NoSync /\ poll = NoPoll =>
    \A w \in DOMAIN issued :
      LET o == issued[w] IN
        o \notin Text => w \in gone \cup Bytes(remote[o]) \cup Bytes(local[o])

(***************************************************************************)
(* "The user must overwrite with the desired side and run sync again"      *)
(* (mount-s3.md:65): a text that equals its object when the sync reads it  *)
(* is not reported as a conflict, unless the object is written before the  *)
(* sync has an answer.                                                     *)
(***************************************************************************)
AgreementIsNoConflict ==
  [][\A o \in Text : o \in sync'.conflicts \ sync.conflicts => ~ sync.agreed]_vars

(***************************************************************************)
(* A directory nobody edits follows the bucket: once the others stop       *)
(* changing it, each file has the content of its object.                   *)
(***************************************************************************)
LocalFollowsRemote == <>[](\A o \in Objects : local[o] = remote[o])
================================================================================
