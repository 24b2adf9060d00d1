---------------------------- MODULE PersistentCache ----------------------------
(***************************************************************************)
(* omnifuse-core/src/persistent_cache.rs: blobs on disk, shared by every   *)
(* process of the user.  A key is an (instance, path, version); its bytes  *)
(* should be determined by the version, but two writers may disagree.      *)
(* Blobs have size 1.  Each call of the file system is a step, and a       *)
(* process may die between any two of them.                                *)
(***************************************************************************)
EXTENDS Naturals, Sequences, FiniteSets, SequencesExt

CONSTANTS Processes,
          Keys,
          Bytes,        \* what writers store
          MaxBlobs,     \* max_bytes
          Interval,     \* EVICTION_PUT_INTERVAL
          MaxPuts,      \* bound on the puts
          MaxCrashes    \* bound on the processes that die

ASSUME CacheAssumption ==
  /\ MaxBlobs \in Nat /\ MaxPuts \in Nat /\ MaxCrashes \in Nat
  /\ Interval \in Nat \ {0}

VARIABLES
  marker,    \* .omnifuse-cache-version: "absent", "torn", "old" or "v1"
  old,       \* whether files of an older schema are left
  blobs,     \* published blobs: their bytes by key
  lru,       \* keys of the published blobs by modification time, oldest first
  tmps,      \* temporary files, each named after the put that made it
  proc,      \* each process: "off", the steps of open, or "up"
  putter,    \* the put each process works on
  counter,   \* put_counter of each process, modulo the interval
  evictor,   \* the eviction of each process, if eviction_in_flight is set
  bounds,    \* puts and crashes so far
  issued,    \* history: bytes that were put under each key
  fresh      \* history: processes since whose open nothing was published,
             \* and whose walk has not failed

disk == <<marker, old, blobs, lru, tmps>>
vars == <<disk, proc, putter, counter, evictor, bounds, issued, fresh>>

Visible == DOMAIN blobs
TmpNames == {f.put : f \in tmps}
Partial == "partial"
NoPut == [step |-> "none"]
NoEviction == [step |-> "none"]

Init ==
  /\ \/ marker = "absent" /\ old = FALSE
     \/ marker \in {"absent", "torn", "old"} /\ old = TRUE
  /\ blobs = <<>>
  /\ lru = <<>>
  /\ tmps = {}
  /\ proc = [p \in Processes |-> [at |-> "off"]]
  /\ putter = [p \in Processes |-> NoPut]
  /\ counter = [p \in Processes |-> 0]
  /\ evictor = [p \in Processes |-> NoEviction]
  /\ bounds = [puts |-> 0, crashes |-> 0]
  /\ issued = [k \in Keys |-> {}]
  /\ fresh = {}

Up(p) == proc[p].at = "up"

-------------------------------------------------------------------------------
(* Directory operations.                                                   *)

Without(k) == RemoveFirst(lru, k)

Touch(k) == lru' = Append(Without(k), k)

Publish(k, b) ==
  /\ blobs' = [x \in Visible \cup {k} |-> IF x = k THEN b ELSE blobs[x]]
  /\ Touch(k)

Drop(k) ==
  /\ blobs' = [x \in Visible \ {k} |-> blobs[x]]
  /\ lru' = Without(k)

(* Whatever changes the blobs disturbs the evictions, but its own.         *)
Disturb(others) ==
  evictor' = [q \in Processes |->
                IF q \in others /\ evictor[q].step = "removing"
                THEN [evictor[q] EXCEPT !.undisturbed = FALSE] ELSE evictor[q]]

-------------------------------------------------------------------------------
(* open: ensure_schema, then an eviction.  The marker is read, on any      *)
(* mismatch everything but the marker is removed entry by entry, and only  *)
(* then the marker is written.                                             *)

(* Mutant: the marker is written before the wipe.                        *)
OpenCheckMarksFirst(p) ==
  /\ proc[p].at = "off"
  /\ marker' = "v1"
  /\ proc' = [proc EXCEPT ![p] =
       IF marker = "v1" THEN [at |-> "opened"]
       ELSE [at |-> "wiping", old |-> old, keys |-> Visible, tmps |-> TmpNames]]
  /\ UNCHANGED <<old, blobs, lru, tmps, putter, counter, evictor, bounds, issued, fresh>>

OpenCheck(p) ==
  /\ proc[p].at = "off"
  /\ proc' = [proc EXCEPT ![p] =
       IF marker = "v1" THEN [at |-> "opened"]
       ELSE [at |-> "wiping", old |-> old, keys |-> Visible, tmps |-> TmpNames]]
  /\ UNCHANGED <<disk, putter, counter, evictor, bounds, issued, fresh>>

(* One entry of reset_cache_root, or of the remove_dir_all below it.       *)
WipeEntry(p) ==
  LET o == proc[p]
  IN  /\ o.at = "wiping"
      /\ \/ /\ o.old
            /\ old' = FALSE
            /\ proc' = [proc EXCEPT ![p].old = FALSE]
            /\ UNCHANGED <<blobs, lru, tmps, evictor>>
         \/ \E k \in o.keys :
              /\ Drop(k)
              /\ Disturb(Processes \ {p})
              /\ proc' = [proc EXCEPT ![p].keys = @ \ {k}]
              /\ UNCHANGED <<old, tmps>>
         \/ \E n \in o.tmps :
              /\ tmps' = {f \in tmps : f.put # n}
              /\ proc' = [proc EXCEPT ![p].tmps = @ \ {n}]
              /\ UNCHANGED <<old, blobs, lru, evictor>>
      /\ UNCHANGED <<marker, putter, counter, bounds, issued, fresh>>

(* Somebody else removed an entry of the listing, or added one to a        *)
(* directory that was to be removed: open returns the error.               *)
WipeFails(p) ==
  LET o == proc[p]
  IN  /\ o.at = "wiping"
      /\ \/ o.old /\ ~old
         \/ \E k \in o.keys : k \notin Visible
         \/ \E n \in o.tmps : n \notin TmpNames
         \/ Visible \ o.keys # {} \/ TmpNames \ o.tmps # {}
      /\ proc' = [proc EXCEPT ![p] = [at |-> "off"]]
      /\ UNCHANGED <<disk, putter, counter, evictor, bounds, issued, fresh>>

(* fs::write of the marker: truncated, then written.                       *)
TruncateMarker(p) ==
  LET o == proc[p]
  IN  /\ o.at = "wiping" /\ ~o.old /\ o.keys = {} /\ o.tmps = {}
      /\ marker' = "torn"
      /\ proc' = [proc EXCEPT ![p] = [at |-> "marking"]]
      /\ UNCHANGED <<old, blobs, lru, tmps, putter, counter, evictor, bounds, issued, fresh>>

WriteMarker(p) ==
  /\ proc[p].at = "marking"
  /\ marker' = "v1"
  /\ proc' = [proc EXCEPT ![p] = [at |-> "opened"]]
  /\ UNCHANGED <<old, blobs, lru, tmps, putter, counter, evictor, bounds, issued, fresh>>

(* spawn_eviction_if_needed: at most one eviction of a process at a time.  *)
SpawnEviction(p) ==
  evictor' = [evictor EXCEPT ![p] =
                IF @.step = "none" THEN [step |-> "collect"] ELSE @]

(* Mutant: open starts no eviction.                                      *)
OpenDoneWithoutEviction(p) ==
  /\ proc[p].at = "opened"
  /\ proc' = [proc EXCEPT ![p] = [at |-> "up"]]
  /\ fresh' = fresh \cup {p}
  /\ UNCHANGED <<disk, putter, counter, evictor, bounds, issued>>

OpenDone(p) ==
  /\ proc[p].at = "opened"
  /\ SpawnEviction(p)
  /\ proc' = [proc EXCEPT ![p] = [at |-> "up"]]
  /\ fresh' = fresh \cup {p}
  /\ UNCHANGED <<disk, putter, counter, bounds, issued>>

-------------------------------------------------------------------------------
(* put: write_blob_atomic, then the counter.                               *)

PutBegin(p, k, b) ==
  /\ Up(p) /\ putter[p] = NoPut
  /\ bounds.puts < MaxPuts
  /\ bounds' = [bounds EXCEPT !.puts = @ + 1]
  /\ issued' = [issued EXCEPT ![k] = @ \cup {b}]
  /\ putter' = [putter EXCEPT ![p] =
       [step |-> "exists", put |-> bounds.puts, key |-> k, bytes |-> b]]
  /\ UNCHANGED <<disk, proc, counter, evictor, fresh>>

(* A blob that is there is kept, whatever its bytes, and touched.          *)
PutExists(p) ==
  LET w == putter[p]
  IN  /\ w.step = "exists"
      /\ IF w.key \in Visible
         THEN /\ Touch(w.key)
              /\ Disturb(Processes)
              /\ putter' = [putter EXCEPT ![p].step = "count"]
         ELSE /\ putter' = [putter EXCEPT ![p].step = "create"]
              /\ UNCHANGED <<lru, evictor>>
      /\ UNCHANGED <<marker, old, blobs, tmps, proc, counter, bounds, issued, fresh>>

(* Mutant: the blob is written in its place.                             *)
PutCreateInPlace(p) ==
  LET w == putter[p]
  IN  /\ w.step = "create"
      /\ Publish(w.key, Partial)
      /\ putter' = [putter EXCEPT ![p].step = "fill"]
      /\ UNCHANGED <<marker, old, tmps, proc, counter, evictor, bounds, issued, fresh>>

(* fs::write of the temporary file: created, then filled.                  *)
PutCreateTmp(p) ==
  LET w == putter[p]
  IN  /\ w.step = "create"
      /\ tmps' = tmps \cup {[put |-> w.put, key |-> w.key, bytes |-> Partial]}
      /\ putter' = [putter EXCEPT ![p].step = "fill"]
      /\ UNCHANGED <<marker, old, blobs, lru, proc, counter, evictor, bounds, issued, fresh>>

(* A file that was wiped meanwhile is filled, but has no name any more.    *)
PutFillTmp(p) ==
  LET w == putter[p]
  IN  /\ w.step = "fill"
      /\ tmps' = {IF f.put = w.put THEN [f EXCEPT !.bytes = w.bytes] ELSE f : f \in tmps}
      /\ putter' = [putter EXCEPT ![p].step = "rename"]
      /\ UNCHANGED <<marker, old, blobs, lru, proc, counter, evictor, bounds, issued, fresh>>

(* The rename replaces a blob somebody else published meanwhile.  When it  *)
(* fails the put fails, unless the blob is there.                          *)
PutRename(p) ==
  LET w == putter[p]
      named == {f \in tmps : f.put = w.put}
  IN  /\ w.step = "rename"
      /\ \/ \E f \in named :
              /\ tmps' = tmps \ {f}
              /\ Publish(w.key, f.bytes)
              /\ Disturb(Processes)
              /\ fresh' = {}
              /\ putter' = [putter EXCEPT ![p].step = "count"]
         \/ /\ named = {}
            /\ putter' = [putter EXCEPT ![p] =
                 IF w.key \in Visible THEN [w EXCEPT !.step = "count"] ELSE NoPut]
            /\ UNCHANGED <<tmps, blobs, lru, evictor, fresh>>
      /\ UNCHANGED <<marker, old, proc, counter, bounds, issued>>

PutCount(p) ==
  /\ putter[p].step = "count"
  /\ putter' = [putter EXCEPT ![p] = NoPut]
  /\ counter' = [counter EXCEPT ![p] = (@ + 1) % Interval]
  /\ IF counter'[p] = 0 THEN SpawnEviction(p) ELSE UNCHANGED evictor
  /\ UNCHANGED <<disk, proc, bounds, issued, fresh>>

(* get of a blob that is there: it moves to the end of the order.          *)
GetTouch(p, k) ==
  /\ Up(p) /\ k \in Visible
  /\ Touch(k)
  /\ lru' # lru
  /\ Disturb(Processes)
  /\ UNCHANGED <<marker, old, blobs, tmps, proc, putter, counter, bounds, issued, fresh>>

-------------------------------------------------------------------------------
(* evict_to_budget: a walk over the blobs, then removal by age.            *)

EvictCollect(p) ==
  /\ evictor[p].step = "collect"
  /\ evictor' = [evictor EXCEPT ![p] =
       IF Len(lru) <= MaxBlobs THEN NoEviction
       ELSE [step |-> "removing", files |-> lru, over |-> Len(lru) - MaxBlobs,
             undisturbed |-> TRUE]]
  /\ UNCHANGED <<disk, proc, putter, counter, bounds, issued, fresh>>

(* The walk ends in an error at a directory another process is wiping.     *)
EvictFails(p) ==
  /\ evictor[p].step = "collect"
  /\ \E q \in Processes : proc[q].at = "wiping"
  /\ evictor' = [evictor EXCEPT ![p] = NoEviction]
  /\ fresh' = fresh \ {p}
  /\ UNCHANGED <<disk, proc, putter, counter, bounds, issued>>

(* Mutant: the newest blobs go first.                                    *)
EvictNewest(p) ==
  LET e == evictor[p]
      k == Last(e.files)
  IN  /\ e.step = "removing" /\ e.over > 0 /\ e.files # <<>>
      /\ IF k \in Visible THEN Drop(k) ELSE UNCHANGED <<blobs, lru>>
      /\ evictor' = [evictor EXCEPT ![p].files = Front(@), ![p].over = @ - 1]
      /\ UNCHANGED <<marker, old, tmps, proc, putter, counter, bounds, issued, fresh>>

(* A file that is gone is skipped and does not count as removed.           *)
EvictRemove(p) ==
  LET e == evictor[p]
      k == Head(e.files)
  IN  /\ e.step = "removing" /\ e.over > 0 /\ e.files # <<>>
      /\ IF k \in Visible THEN Drop(k) ELSE UNCHANGED <<blobs, lru>>
      /\ evictor' = [q \in Processes |->
           IF q = p
           THEN [e EXCEPT !.files = Tail(@), !.over = IF k \in Visible THEN @ - 1 ELSE @]
           ELSE IF evictor[q].step = "removing" /\ k \in Visible
           THEN [evictor[q] EXCEPT !.undisturbed = FALSE] ELSE evictor[q]]
      /\ UNCHANGED <<marker, old, tmps, proc, putter, counter, bounds, issued, fresh>>

EvictEnd(p) ==
  LET e == evictor[p]
  IN  /\ e.step = "removing" /\ (e.over = 0 \/ e.files = <<>>)
      /\ evictor' = [evictor EXCEPT ![p] = NoEviction]
      /\ UNCHANGED <<disk, proc, putter, counter, bounds, issued, fresh>>

-------------------------------------------------------------------------------
Die(p) ==
  /\ proc' = [proc EXCEPT ![p] = [at |-> "off"]]
  /\ putter' = [putter EXCEPT ![p] = NoPut]
  /\ counter' = [counter EXCEPT ![p] = 0]
  /\ evictor' = [evictor EXCEPT ![p] = NoEviction]
  /\ fresh' = fresh \ {p}
  /\ UNCHANGED <<disk, issued>>

Crash(p) ==
  /\ proc[p].at # "off"
  /\ bounds.crashes < MaxCrashes
  /\ bounds' = [bounds EXCEPT !.crashes = @ + 1]
  /\ Die(p)

Opening(p) ==
  WipeEntry(p) \/ WipeFails(p) \/ TruncateMarker(p) \/ WriteMarker(p) \/ OpenDone(p)
Put(p) == PutExists(p) \/ PutCreateTmp(p) \/ PutFillTmp(p) \/ PutRename(p) \/ PutCount(p)
Evict(p) == EvictCollect(p) \/ EvictFails(p) \/ EvictRemove(p) \/ EvictEnd(p)

Next ==
  \E p \in Processes :
    \/ OpenCheck(p) \/ Opening(p)
    \/ \E k \in Keys, b \in Bytes : PutBegin(p, k, b)
    \/ Put(p)
    \/ \E k \in Keys : GetTouch(p, k)
    \/ Evict(p)
    \/ Crash(p)

Spec == Init /\ [][Next]_vars /\ \A p \in Processes : WF_vars(Evict(p))

-------------------------------------------------------------------------------
TypeOK ==
  /\ marker \in {"absent", "torn", "old", "v1"} /\ old \in BOOLEAN
  /\ blobs \in [Visible -> Bytes \cup {Partial}] /\ Visible \subseteq Keys
  /\ tmps \subseteq [put : Nat, key : Keys, bytes : Bytes \cup {Partial}]
  /\ proc \in [Processes -> [at : {"off", "opened", "marking", "up"}] \cup
                 [at : {"wiping"}, old : BOOLEAN, keys : SUBSET Keys, tmps : SUBSET Nat]]
  /\ putter \in [Processes -> {NoPut} \cup
                   [step : {"exists", "create", "fill", "rename", "count"},
                    put : Nat, key : Keys, bytes : Bytes]]
  /\ counter \in [Processes -> 0..(Interval - 1)]
  /\ bounds \in [puts : 0..MaxPuts, crashes : 0..MaxCrashes]
  /\ issued \in [Keys -> SUBSET Bytes]

(* A published blob holds, in full, bytes somebody put under its key,      *)
(* whichever process died or wiped the directory, and when.                *)
BlobsAreWhole == \A k \in Visible : blobs[k] \in issued[k]

(* "On schema mismatch the directory is wiped": once the marker names the  *)
(* current schema nothing of an older one is left, also when a process     *)
(* died within the wipe or two of them opened the cache at the same time.  *)
MarkerMeansWiped == marker = "v1" => ~old

(* LRU evicts when the budget is exceeded: an eviction nobody interfered   *)
(* with removes the least recently used blob, and only while the blobs are *)
(* more than the budget allows.                                            *)
EvictsOldestOverBudget ==
  [][\A p \in Processes :
       /\ evictor[p].step = "removing" /\ evictor[p].undisturbed
       /\ EvictRemove(p) /\ Visible' # Visible
       => Cardinality(Visible) > MaxBlobs /\ Visible' = Visible \ {Head(lru)}]_vars

(* open "kicks off an eviction pass to bring on-disk usage under the       *)
(* budget, for example after a crashed previous run": it does, unless      *)
(* something is published, the process dies, or its walk meets a wipe.     *)
OpenTrims ==
  \A p \in Processes : p \in fresh ~> (p \notin fresh \/ Cardinality(Visible) <= MaxBlobs)
===============================================================================
