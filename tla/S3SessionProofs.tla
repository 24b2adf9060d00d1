---------------------------- MODULE S3SessionProofs ----------------------------
(***************************************************************************)
(* Proofs about the S3 backend: for any set of objects, any number of      *)
(* changes and of tries, with and without the cache.                       *)
(***************************************************************************)
EXTENDS S3Session, TLAPS

(***************************************************************************)
(* Types.  An object is only read under an ETag the store has given.       *)
(***************************************************************************)
StoreType ==
  /\ remote \in [Objects -> Maybe] /\ local \in [Objects -> Maybe]
  /\ manifest \in [Objects -> Maybe] /\ base \in [Objects -> Maybe]
  /\ cache \in [Objects -> SUBSET [tag : Content, bytes : Content]]

SyncType ==
  sync \in [pc : SyncPc, batch : SUBSET Objects, todo : SUBSET Objects,
            conflicts : SUBSET Objects, obj : Objects \cup {Absent},
            attempt : 0 .. MAX_PUT_RETRIES - 1, mine : Content, tag : Maybe,
            bytes : Content, agreed : BOOLEAN]

PollType ==
  poll \in [pc : PollPc, listing : [Objects -> Maybe], todo : SUBSET Objects,
            decided : SUBSET Decision, deferred : BOOLEAN, now : Decision]

RestType ==
  /\ mode \in {"down", "starting", "up"}
  /\ dirty \subseteq Objects /\ conflicted \subseteq Objects
  /\ issued \in Seq(Objects) /\ Len(issued) \leq MaxChanges
  /\ gone \subseteq Changes

TagsKnown ==
  /\ sync.pc \notin {"idle", "next"} => sync.obj \in Objects
  /\ sync.pc \in {"compare", "merge"} => sync.tag # Absent
  /\ poll.pc \in {"init", "initBase"} => \A o \in poll.todo : poll.listing[o] # Absent
  /\ poll.pc = "compare" => poll.now.obj \in Objects

TInv == StoreType /\ SyncType /\ PollType /\ RestType /\ TagsKnown

LEMMA TypeImplied == TInv => TypeOK
BY DEF TInv, StoreType, SyncType, PollType, RestType, TypeOK

LEMMA NoSyncType == NoSync \in [pc : SyncPc, batch : SUBSET Objects, todo : SUBSET Objects,
                                conflicts : SUBSET Objects, obj : Objects \cup {Absent},
                                attempt : 0 .. MAX_PUT_RETRIES - 1, mine : Content,
                                tag : Maybe, bytes : Content, agreed : BOOLEAN]
BY S3SessionAssumption DEF NoSync, SyncPc, Content, Maybe

LEMMA NoPollType == NoPoll \in [pc : PollPc, listing : [Objects -> Maybe],
                                todo : SUBSET Objects, decided : SUBSET Decision,
                                deferred : BOOLEAN, now : Decision]
BY DEF NoPoll, NoDecision, PollPc, Decision, Acts, Content, Maybe

LEMMA TypeInit == Init => TInv
<1>. SUFFICES ASSUME Init PROVE TInv
  OBVIOUS
<1>1. StoreType
  BY DEF Init, StoreType, Maybe, Content
<1>2. SyncType
  BY NoSyncType DEF Init, SyncType
<1>3. PollType
  BY NoPollType DEF Init, PollType
<1>4. RestType
  BY S3SessionAssumption DEF Init, RestType
<1>5. TagsKnown
  BY DEF Init, TagsKnown, NoSync, NoPoll
<1>. QED
  BY <1>1, <1>2, <1>3, <1>4, <1>5 DEF TInv

LEMMA BytesType == ASSUME NEW c \in Maybe PROVE Bytes(c) \in Content
BY DEF Bytes, Maybe, Content

LEMMA DecideType ==
  ASSUME NEW o, NEW b \in Content, NEW mine \in Content, NEW theirs \in Content,
         NEW d \in Decide(o, b, mine, theirs)
  PROVE  /\ d.act \in {"conflict", "upload", "synced", "accept", "merge"}
         /\ d.bytes \in Content
BY DEF Decide, Content

LEMMA RememberType ==
  ASSUME StoreType, NEW o, NEW tag \in Content, NEW bytes \in Content
  PROVE  Remember(o, tag, bytes) \in [Objects -> SUBSET [tag : Content, bytes : Content]]
<1>. DEFINE kept == {e \in cache[o] : e.tag # tag} \cup {[tag |-> tag, bytes |-> bytes]}
<1>1. Remember(o, tag, bytes) = IF Cached THEN [cache EXCEPT ![o] = kept] ELSE cache
  BY DEF Remember
<1>2. ASSUME o \in Objects PROVE kept \in SUBSET [tag : Content, bytes : Content]
  BY <1>2 DEF StoreType
<1>. QED
  BY <1>1, <1>2 DEF StoreType

LEMMA ReadType ==
  ASSUME StoreType, NEW o \in Objects \cup {Absent}, NEW tag \in Content,
         NEW bytes \in Content, ReadObject(o, tag, bytes)
  PROVE  cache' \in [Objects -> SUBSET [tag : Content, bytes : Content]]
<1>1. CASE UNCHANGED cache
  BY <1>1 DEF StoreType
<1>2. CASE cache' = Remember(o, tag, bytes)
  BY <1>2, RememberType
<1>. QED
  BY <1>1, <1>2 DEF ReadObject

(* A write by another program costs a sync at most what it agreed on.      *)
LEMMA UserSync ==
  ASSUME SyncType, NEW o \in Objects, Edit(o) \/ Remove(o) \/ Resolve(o) \/ Foreign(o)
  PROVE  /\ SyncType'
         /\ UNCHANGED <<sync.pc, sync.obj, sync.mine, sync.tag, sync.bytes, sync.conflicts>>
         /\ sync'.agreed => sync.agreed
<1>1. CASE UNCHANGED sync
  BY <1>1 DEF SyncType
<1>2. ASSUME sync' = [sync EXCEPT !.agreed = @ /\ sync.obj # o]
      PROVE  /\ SyncType'
             /\ UNCHANGED <<sync.pc, sync.obj, sync.mine, sync.tag, sync.bytes, sync.conflicts>>
             /\ sync'.agreed => sync.agreed
  BY <1>2 DEF SyncType
<1>. QED
  BY <1>1, <1>2 DEF Edit, Remove, Resolve, Foreign, ForeignPut

LEMMA UserTypes ==
  ASSUME TInv, NEW o \in Objects, Edit(o) \/ Remove(o) \/ Resolve(o) \/ Foreign(o)
  PROVE  TInv'
<1>. USE DEF TInv
<1>1. UNCHANGED <<manifest, base, cache, mode, conflicted, poll>>
  BY DEF Edit, Remove, Resolve, Foreign, ForeignPut
<1>2. SyncType' /\ PollType' /\ TagsKnown'
  <2>1. SyncType' /\ UNCHANGED <<sync.pc, sync.obj, sync.tag>>
    BY UserSync
  <2>. QED
    BY <1>1, <2>1 DEF PollType, TagsKnown
<1>3. ASSUME Len(issued) < MaxChanges PROVE NewChange \in Changes
  BY <1>3, S3SessionAssumption DEF RestType, NewChange, Changes
<1>4. remote[o] \in Maybe /\ local[o] \in Maybe
      /\ Bytes(remote[o]) \in Content /\ Bytes(local[o]) \in Content
  BY BytesType DEF StoreType
<1>5. ASSUME Edit(o) PROVE StoreType' /\ RestType'
  <2>1. Bytes(local[o]) \cup {NewChange} \in Maybe
    BY <1>3, <1>4, <1>5 DEF Edit, Content, Maybe
  <2>. QED
    BY <1>1, <1>5, <2>1, S3SessionAssumption DEF Edit, StoreType, RestType
<1>6. ASSUME Remove(o) PROVE StoreType' /\ RestType'
  BY <1>1, <1>4, <1>6 DEF Remove, StoreType, RestType, Maybe, Content
<1>7. ASSUME Resolve(o) PROVE StoreType' /\ RestType'
  BY <1>1, <1>4, <1>7 DEF Resolve, StoreType, RestType, Maybe, Content
<1>8. ASSUME NEW c \in Maybe, ForeignPut(o, c) PROVE StoreType' /\ RestType'
  BY <1>1, <1>3, <1>4, <1>8, S3SessionAssumption DEF ForeignPut, StoreType, RestType, Content
<1>9. ASSUME Foreign(o) PROVE StoreType' /\ RestType'
  <2>1. ASSUME Len(issued) < MaxChanges PROVE Bytes(remote[o]) \cup {NewChange} \in Maybe
    BY <1>3, <1>4, <2>1 DEF Content, Maybe
  <2>. QED
    BY <1>8, <1>9, <2>1 DEF Foreign, Content, Maybe, ForeignPut
<1>. QED
  BY <1>2, <1>5, <1>6, <1>7, <1>9

LEMMA BetweenType == ASSUME SyncType, sync.obj \in Objects, NEW c \in BOOLEAN, Between(c)
                     PROVE  SyncType' /\ sync'.pc = "next"
<1>. DEFINE more == IF c THEN {Object} ELSE {}
<1>1. sync' = [pc |-> "next", batch |-> sync.batch, todo |-> sync.todo \ {Object},
               conflicts |-> sync.conflicts \cup more, obj |-> Absent, attempt |-> 0,
               mine |-> {}, tag |-> Absent, bytes |-> {}, agreed |-> FALSE]
  BY DEF Between, NoSync
<1>2. more \subseteq Objects
  BY DEF Object
<1>. HIDE DEF more
<1>3. sync.batch \subseteq Objects /\ sync.todo \subseteq Objects /\ sync.conflicts \subseteq Objects
  BY DEF SyncType
<1>. QED
  BY <1>1, <1>2, <1>3, S3SessionAssumption DEF SyncType, SyncPc, Content, Maybe

LEMMA FailType == ASSUME SyncType, dirty \subseteq Objects, Fail 
                  PROVE  SyncType' /\ sync'.pc = "idle" /\ dirty' \subseteq Objects
BY NoSyncType DEF SyncType, Fail, NoSync

LEMMA SyncTypes == ASSUME TInv, Sync PROVE TInv'
<1>. USE DEF TInv
<1>1. UNCHANGED <<mode, poll, issued, gone>>
  BY DEF Sync, SyncBegin, SyncNext, SyncEnd, SyncRead, SyncEntry, SyncStat, SyncBase, SyncCompare,
         SyncRestat, SyncMerge, SyncWriteLocal, SyncPut, SyncSaveBase, SyncSaveManifest,
         SyncStatDelete, SyncDelete, SyncDropLocal, SyncDropManifest, SyncDropBase
<1>2. /\ PollType' /\ (poll'.pc \in {"init", "initBase"} => \A o \in poll'.todo : poll'.listing[o] # Absent)
      /\ poll'.pc = "compare" => poll'.now.obj \in Objects
  BY <1>1 DEF PollType, TagsKnown
<1>3. ASSUME dirty' \subseteq Objects, conflicted' \subseteq Objects PROVE RestType'
  BY <1>1, <1>3 DEF RestType
<1>4. ASSUME UNCHANGED stores PROVE StoreType'
  BY <1>4 DEF stores, StoreType
<1>5. sync.pc \in SyncPc /\ sync.obj \in Objects \cup {Absent} /\ sync.bytes \in Content
      /\ sync.tag \in Maybe /\ sync.mine \in Content
  BY DEF SyncType
<1>6. dirty \subseteq Objects /\ conflicted \subseteq Objects
  BY DEF RestType
<1>. DEFINE TagKnown == /\ sync.pc \notin {"idle", "next"} => sync.obj \in Objects
                        /\ sync.pc \in {"compare", "merge"} => sync.tag # Absent
            Typed == /\ StoreType' /\ SyncType' /\ TagKnown'
                     /\ dirty' \subseteq Objects /\ conflicted' \subseteq Objects
<1>7. ASSUME Typed PROVE TInv'
  BY <1>2, <1>3, <1>7 DEF TagsKnown
<1>8. ASSUME sync.pc \notin {"idle", "next"} PROVE sync.obj \in Objects
  BY <1>8 DEF TagsKnown
<1>9. ASSUME Fail PROVE SyncType' /\ TagKnown' /\ dirty' \subseteq Objects
  BY <1>6, <1>9, FailType
<1>10. ASSUME NEW c \in BOOLEAN, Between(c), sync.pc \notin {"idle", "next"}
       PROVE  SyncType' /\ TagKnown'
  BY <1>8, <1>10, BetweenType
<1>11. ASSUME NEW pc \in SyncPc \ {"compare", "merge"}, Go(pc), sync.pc \notin {"idle", "next"}
       PROVE  SyncType' /\ TagKnown'
  BY <1>8, <1>11 DEF Go, SyncType
<1>. HIDE DEF TagKnown
<1>12. ASSUME SyncBegin PROVE Typed
  <2>0. sync' = [pc |-> "next", batch |-> dirty, todo |-> dirty, conflicts |-> {},
                 obj |-> Absent, attempt |-> 0, mine |-> {}, tag |-> Absent, bytes |-> {},
                 agreed |-> FALSE]
    BY <1>12 DEF SyncBegin, NoSync
  <2>1. SyncType' /\ TagKnown'
    BY <1>6, <2>0, S3SessionAssumption DEF SyncType, SyncPc, TagKnown, Content, Maybe
  <2>. QED
    BY <1>4, <1>6, <1>12, <2>1 DEF SyncBegin
<1>13. ASSUME NEW o \in Objects, SyncNext(o) PROVE Typed
  <2>1. ASSUME sync' = [sync EXCEPT !.obj = o, !.pc = "read"] PROVE SyncType' /\ TagKnown'
    BY <2>1 DEF SyncType, SyncPc, TagKnown
  <2>2. ASSUME sync' = [sync EXCEPT !.obj = o, !.pc = "statDelete", !.tag = manifest[o]] PROVE SyncType' /\ TagKnown'
    BY <2>2 DEF SyncType, SyncPc, TagKnown, StoreType
  <2>3. ASSUME sync' = [sync EXCEPT !.todo = @ \ {o}] PROVE SyncType' /\ TagKnown'
    BY <1>8, <1>13, <2>3 DEF SyncNext, At, SyncType, TagKnown
  <2>4. SyncType' /\ TagKnown'
    BY <1>13, <2>1, <2>2, <2>3 DEF SyncNext
  <2>. QED
    BY <1>4, <1>6, <1>13, <2>4 DEF SyncNext
<1>14. ASSUME SyncEnd PROVE Typed
  <2>1. SyncType' /\ TagKnown'
    BY <1>14, NoSyncType DEF SyncEnd, SyncType, TagKnown, NoSync
  <2>. QED
    BY <1>4, <1>6, <1>14, <2>1 DEF SyncEnd, SyncType
<1>15. ASSUME SyncRead PROVE Typed
  <2>1. SyncType' /\ TagKnown' /\ dirty' \subseteq Objects
    BY <1>6, <1>8, <1>9, <1>15 DEF SyncRead, SyncType, SyncPc, StoreType, At, TagKnown, Object, Maybe
  <2>. QED
    BY <1>4, <1>6, <1>15, <2>1 DEF SyncRead
<1>16. ASSUME SyncEntry PROVE Typed
  <2>1. SyncType' /\ TagKnown'
    BY <1>8, <1>16 DEF SyncEntry, SyncType, SyncPc, StoreType, At, TagKnown, Object
  <2>. QED
    BY <1>4, <1>6, <1>16, <2>1 DEF SyncEntry
<1>17. ASSUME SyncStat PROVE Typed
  <2>1. SyncType' /\ TagKnown' /\ dirty' \subseteq Objects
    BY <1>6, <1>8, <1>9, <1>17 DEF SyncStat, SyncType, SyncPc, StoreType, At, TagKnown, Object
  <2>. QED
    BY <1>4, <1>6, <1>17, <2>1 DEF SyncStat
<1>18. ASSUME SyncBase PROVE Typed
  <2>0. ASSUME Go("dropLocal") PROVE SyncType' /\ TagKnown'
    BY <1>11, <1>18, <2>0 DEF SyncBase, At, SyncPc
  <2>1. ASSUME Conflict PROVE SyncType' /\ TagKnown'
    BY <1>10, <1>18, <2>1 DEF SyncBase, At, Conflict
  <2>2. ASSUME sync.tag # Absent /\ sync' = [sync EXCEPT !.pc = "merge", !.bytes = Bytes(base[Object])] PROVE SyncType' /\ TagKnown'
    <3>1. Bytes(base[Object]) \in Content
      BY <1>8, <1>18, BytesType DEF SyncBase, At, Object, StoreType
    <3>. QED
      BY <1>8, <1>18, <2>2, <3>1 DEF SyncBase, At, SyncType, SyncPc, TagKnown
  <2>3. SyncType' /\ TagKnown'
    BY <1>18, <2>0, <2>1, <2>2 DEF SyncBase
  <2>. QED
    BY <1>4, <1>6, <1>18, <2>3 DEF SyncBase
<1>19. ASSUME SyncCompare PROVE Typed
  <2>1. sync.obj \in Objects /\ sync.tag \in Content /\ sync.pc = "compare"
    BY <1>5, <1>8, <1>19 DEF SyncCompare, At, TagsKnown, Maybe
  <2>2. StoreType'
    BY <1>19, <2>1, ReadType DEF SyncCompare, Object, StoreType
  <2>3. SyncType' /\ TagKnown' /\ dirty' \subseteq Objects
    <3>1. ASSUME Go("restat") PROVE SyncType' /\ TagKnown'
      BY <1>11, <2>1, <3>1 DEF SyncPc
    <3>2. ASSUME Conflict PROVE SyncType' /\ TagKnown'
      BY <1>10, <2>1, <3>2 DEF Conflict
    <3>. QED
      BY <1>6, <1>9, <1>19, <3>1, <3>2 DEF SyncCompare
  <2>. QED
    BY <1>6, <1>19, <2>2, <2>3 DEF SyncCompare
<1>20. ASSUME SyncRestat PROVE Typed
  <2>1. SyncType' /\ TagKnown' /\ dirty' \subseteq Objects
    BY <1>6, <1>8, <1>9, <1>20 DEF SyncRestat, SyncType, SyncPc, StoreType, At, TagKnown, Object
  <2>. QED
    BY <1>4, <1>6, <1>20, <2>1 DEF SyncRestat
<1>21. ASSUME SyncMerge PROVE Typed
  <2>1. sync.obj \in Objects /\ sync.tag \in Content /\ sync.pc = "merge"
    BY <1>5, <1>8, <1>21 DEF SyncMerge, At, TagsKnown, Maybe
  <2>2. StoreType'
    BY <1>21, <2>1, ReadType DEF SyncMerge, Object, StoreType
  <2>3. ASSUME NEW pc \in SyncPc \ {"compare", "merge"}, NEW bytes \in Content,
               sync' = [sync EXCEPT !.pc = pc, !.bytes = bytes]
        PROVE  SyncType' /\ TagKnown'
    BY <2>1, <2>3 DEF SyncType, TagKnown
  <2>4. ASSUME NEW theirs \in Content, NEW d \in Decide(Object, sync.bytes, sync.mine, theirs),
               \/ d.act = "conflict" /\ Conflict
               \/ d.act = "upload" /\ sync' = [sync EXCEPT !.pc = "put", !.bytes = d.bytes]
               \/ d.act = "merge"  /\ sync' = [sync EXCEPT !.pc = "writeMerged", !.bytes = d.bytes]
               \/ d.act = "accept" /\ sync' = [sync EXCEPT !.pc = "accept", !.bytes = d.bytes]
               \/ d.act = "synced" /\ sync' = [sync EXCEPT !.pc = "saveBase", !.bytes = d.bytes]
        PROVE  SyncType' /\ TagKnown'
    <3>1. d.bytes \in Content
      BY <1>5, <2>4, DecideType
    <3>2. {"put", "writeMerged", "accept", "saveBase"} \subseteq SyncPc \ {"compare", "merge"}
      BY DEF SyncPc
    <3>3. ASSUME Conflict PROVE SyncType' /\ TagKnown'
      BY <1>10, <2>1, <3>3 DEF Conflict
    <3>. QED
      BY <2>3, <2>4, <3>1, <3>2, <3>3
  <2>5. SyncType' /\ TagKnown' /\ dirty' \subseteq Objects
    BY <1>6, <1>9, <1>21, <2>4 DEF SyncMerge
  <2>. QED
    BY <1>6, <1>21, <2>2, <2>5 DEF SyncMerge
<1>22. ASSUME SyncWriteLocal PROVE Typed
  <2>1. SyncType' /\ TagKnown'
    BY <1>11, <1>22 DEF SyncWriteLocal, At, SyncPc
  <2>2. StoreType'
    BY <1>5, <1>22 DEF SyncWriteLocal, StoreType, Maybe
  <2>. QED
    BY <1>6, <1>22, <2>1, <2>2 DEF SyncWriteLocal
<1>23. ASSUME SyncPut PROVE Typed
  <2>1. sync.obj \in Objects /\ sync.pc = "put" /\ sync.bytes \in Maybe
    BY <1>5, <1>8, <1>23 DEF SyncPut, At, Maybe
  <2>2. StoreType'
    <3>1. Remember(Object, sync.bytes, sync.bytes) \in [Objects -> SUBSET [tag : Content, bytes : Content]]
      BY <1>5, RememberType
    <3>. QED
      BY <1>23, <2>1, <3>1 DEF SyncPut, StoreType, Object
  <2>3. ASSUME Retry PROVE SyncType' /\ TagKnown'
    <3>1. ASSUME sync.attempt + 1 < MAX_PUT_RETRIES,
                 sync' = [pc |-> "read", batch |-> sync.batch, todo |-> sync.todo,
                          conflicts |-> sync.conflicts, obj |-> sync.obj,
                          attempt |-> sync.attempt + 1, mine |-> {}, tag |-> Absent,
                          bytes |-> {}, agreed |-> FALSE]
          PROVE  SyncType' /\ TagKnown'
      <4>1. sync.attempt + 1 \in 0 .. MAX_PUT_RETRIES - 1
        BY <3>1, S3SessionAssumption DEF SyncType
      <4>. HIDE <3>1
      <4>. QED
        BY <2>1, <3>1, <4>1 DEF SyncType, SyncPc, TagKnown, Content, Maybe
    <3>2. ASSUME Conflict PROVE SyncType' /\ TagKnown'
      BY <1>10, <2>1, <3>2 DEF Conflict
    <3>. QED
      BY <2>3, <3>1, <3>2 DEF Retry, NoSync, Object
  <2>4. ASSUME sync' = [sync EXCEPT !.pc = "saveBase", !.tag = sync.bytes]
        PROVE  SyncType' /\ TagKnown'
    BY <2>1, <2>4 DEF SyncType, SyncPc, TagKnown
  <2>5. SyncType' /\ TagKnown' /\ dirty' \subseteq Objects
    BY <1>6, <1>9, <1>23, <2>3, <2>4 DEF SyncPut
  <2>. QED
    BY <1>6, <1>23, <2>2, <2>5 DEF SyncPut
<1>24. ASSUME SyncSaveBase \/ SyncDropLocal \/ SyncDropManifest \/ SyncSaveManifest \/ SyncDropBase
       PROVE  Typed
  <2>1. SyncType' /\ TagKnown'
    <3>1. sync.pc \notin {"idle", "next"}
      BY <1>24 DEF SyncSaveBase, SyncDropLocal, SyncDropManifest, SyncSaveManifest, SyncDropBase, At
    <3>2. {"saveManifest", "dropManifest", "dropBase"} \subseteq SyncPc \ {"compare", "merge"}
      BY DEF SyncPc
    <3>. QED
      BY <1>10, <1>11, <1>24, <3>1, <3>2 DEF SyncSaveBase, SyncDropLocal, SyncDropManifest, SyncSaveManifest, SyncDropBase, Done
  <2>2. StoreType'
    BY <1>5, <1>24 DEF SyncSaveBase, SyncDropLocal, SyncDropManifest, SyncSaveManifest, SyncDropBase, StoreType, Maybe
  <2>. QED
    BY <1>6, <1>24, <2>1, <2>2 DEF SyncSaveBase, SyncDropLocal, SyncDropManifest, SyncSaveManifest, SyncDropBase
<1>25. ASSUME SyncStatDelete \/ SyncDelete PROVE Typed
  <2>1. SyncType' /\ TagKnown' /\ dirty' \subseteq Objects
    <3>1. sync.pc \notin {"idle", "next"}
      BY <1>25 DEF SyncStatDelete, SyncDelete, At
    <3>2. {"delete", "dropManifest"} \subseteq SyncPc \ {"compare", "merge"}
      BY DEF SyncPc
    <3>. QED
      BY <1>6, <1>9, <1>10, <1>11, <1>25, <3>1, <3>2 DEF SyncStatDelete, SyncDelete, Conflict
  <2>2. StoreType'
    BY <1>4, <1>25 DEF SyncStatDelete, SyncDelete, StoreType, Maybe
  <2>. QED
    BY <1>6, <1>25, <2>1, <2>2 DEF SyncStatDelete, SyncDelete
<1>. QED
  BY <1>7, <1>12, <1>13, <1>14, <1>15, <1>16, <1>17, <1>18, <1>19, <1>20, <1>21, <1>22, <1>23,
     <1>24, <1>25
  DEF Sync

LEMMA RefreshTypes == ASSUME TInv, Refresh PROVE TInv'
<1>. USE DEF TInv
<1>1. UNCHANGED <<mode, dirty, conflicted, sync, issued, gone>>
  BY DEF Refresh, RefreshBegin, Classified, ClassifyModified, RefreshEnd, ClassifyRead,
         ClassifyFails, ClassifyDeleted, Apply, ApplyBase, ApplyManifest, stores
<1>2. RestType' /\ SyncType'
  BY <1>1 DEF RestType, SyncType
<1>3. /\ sync'.pc \notin {"idle", "next"} => sync'.obj \in Objects
      /\ sync'.pc \in {"compare", "merge"} => sync'.tag # Absent
  BY <1>1 DEF TagsKnown
<1>4. ASSUME StoreType', PollType', poll'.pc \notin {"init", "initBase", "compare"} PROVE TInv'
  BY <1>2, <1>3, <1>4 DEF TagsKnown
<1>5. ASSUME UNCHANGED stores PROVE StoreType'
  BY <1>5 DEF stores, StoreType
<1>6. NoDecision \in Decision
  BY DEF NoDecision, Decision, Acts, Content, Maybe
<1>7. poll' = NoPoll => PollType' /\ poll'.pc \notin {"init", "initBase", "compare"}
  BY NoPollType DEF PollType, NoPoll
<1>8. ASSUME RefreshBegin PROVE TInv'
  <2>1. poll' = [pc |-> "classify", listing |-> remote, todo |-> Drifted, decided |-> {},
                 deferred |-> FALSE, now |-> NoDecision]
    BY <1>8 DEF RefreshBegin, NoPoll
  <2>2. PollType' /\ poll'.pc \notin {"init", "initBase", "compare"}
    BY <1>6, <2>1 DEF PollType, PollPc, StoreType, Drifted
  <2>. QED
    BY <1>4, <1>5, <1>8, <2>2 DEF RefreshBegin
<1>9. ASSUME Classified \/ RefreshEnd PROVE TInv'
  <2>1. PollType' /\ poll'.pc \notin {"init", "initBase", "compare"}
    BY <1>7, <1>9 DEF Classified, RefreshEnd, PollType, PollPc
  <2>. QED
    BY <1>4, <1>5, <1>9, <2>1 DEF Classified, RefreshEnd
<1>10. ASSUME NEW o \in Objects, ClassifyRead(o) PROVE TInv'
  <2>1. poll.listing[o] \in Content
    BY <1>10 DEF ClassifyRead, PollType, Maybe
  <2>2. PICK theirs \in Content :
          /\ ReadObject(o, poll.listing[o], theirs)
          /\ poll' = [poll EXCEPT !.pc = "compare",
                        !.now = [NoDecision EXCEPT !.obj = o, !.bytes = theirs]]
    BY <1>10 DEF ClassifyRead
  <2>3. [NoDecision EXCEPT !.obj = o, !.bytes = theirs] \in Decision
    BY DEF NoDecision, Decision, Acts, Content, Maybe
  <2>4. PollType' /\ poll'.pc = "compare" /\ poll'.now.obj = o
    BY <2>2, <2>3 DEF PollType, PollPc, NoDecision
  <2>5. StoreType'
    BY <1>10, <2>1, <2>2, ReadType DEF ClassifyRead, StoreType
  <2>. QED
    BY <1>2, <1>3, <2>4, <2>5 DEF TagsKnown
<1>11. ASSUME NEW o \in Objects, ClassifyFails(o) PROVE TInv'
  BY <1>4, <1>5, <1>7, <1>11 DEF ClassifyFails
<1>12. ASSUME NEW o \in Objects \cup {Absent}, NEW act \in Acts, NEW tag \in Maybe,
              NEW bytes \in Content, NEW b \in Content, Decided(act, o, tag, bytes, b)
       PROVE  PollType' /\ poll'.pc \notin {"init", "initBase", "compare"}
  <2>1. [obj |-> o, act |-> act, tag |-> tag, bytes |-> bytes, base |-> b] \in Decision
    BY DEF Decision
  <2>2. PICK x \in Decision :
          poll' = [poll EXCEPT !.pc = "classify", !.todo = @ \ {o}, !.now = NoDecision,
                               !.decided = @ \cup {x}]
    BY <1>12, <2>1 DEF Decided
  <2>. QED
    BY <1>6, <2>2 DEF PollType, PollPc
<1>13. ASSUME NEW o, Deferred(o) PROVE PollType' /\ poll'.pc \notin {"init", "initBase", "compare"}
  BY <1>6, <1>13 DEF Deferred, PollType, PollPc
<1>14. ASSUME ClassifyModified PROVE TInv'
  <2>. DEFINE o == poll.now.obj
              theirs == poll.now.bytes
  <2>1. o \in Objects /\ theirs \in Content /\ poll.listing[o] \in Maybe
    BY <1>14 DEF ClassifyModified, Polling, TagsKnown, PollType, Decision
  <2>2. /\ Bytes(base[o]) \in Content /\ Bytes(local[o]) \in Content /\ {} \in Content
        /\ {"write", "merge", "state"} \subseteq Acts
    BY <2>1, BytesType DEF StoreType, Content, Acts
  <2>3. \/ Decided("write", o, poll.listing[o], theirs, theirs)
        \/ \E d \in Decide(o, Bytes(base[o]), Bytes(local[o]), theirs) :
             \/ Deferred(o)
             \/ Decided("write", o, poll.listing[o], theirs, theirs)
             \/ Decided("merge", o, poll.listing[o], d.bytes, theirs)
             \/ Decided("state", o, poll.listing[o], {}, {})
    BY <1>14 DEF ClassifyModified
  <2>4. PollType' /\ poll'.pc \notin {"init", "initBase", "compare"}
    BY <1>12, <1>13, <2>1, <2>2, <2>3, DecideType
  <2>. QED
    BY <1>4, <1>5, <1>14, <2>4 DEF ClassifyModified
<1>15. ASSUME NEW o \in Objects, ClassifyDeleted(o) PROVE TInv'
  <2>1. Absent \in Maybe /\ {} \in Content /\ "remove" \in Acts
    BY DEF Maybe, Content, Acts
  <2>2. PollType' /\ poll'.pc \notin {"init", "initBase", "compare"}
    BY <1>12, <1>13, <1>15, <2>1 DEF ClassifyDeleted
  <2>. QED
    BY <1>4, <1>5, <1>15, <2>2 DEF ClassifyDeleted
<1>16. ASSUME NEW d \in poll.decided, Apply(d) PROVE TInv'
  <2>1. d \in Decision
    BY <1>16 DEF PollType
  <2>2. PollType' /\ poll'.pc \notin {"init", "initBase", "compare"}
    BY <1>16, <2>1 DEF Apply, PollType, PollPc
  <2>3. StoreType'
    BY <1>16, <2>1 DEF Apply, StoreType, Decision, Maybe
  <2>. QED
    BY <1>4, <2>2, <2>3
<1>17. ASSUME ApplyBase \/ ApplyManifest PROVE TInv'
  <2>1. poll.now \in Decision
    BY DEF PollType
  <2>2. PollType' /\ poll'.pc \notin {"init", "initBase", "compare"}
    BY <1>6, <1>17 DEF ApplyBase, ApplyManifest, Applied, PollType, PollPc
  <2>3. StoreType'
    BY <1>17, <2>1 DEF ApplyBase, ApplyManifest, StoreType, Decision, Maybe
  <2>. QED
    BY <1>4, <2>2, <2>3
<1>. QED
  BY <1>8, <1>9, <1>10, <1>11, <1>14, <1>15, <1>16, <1>17 DEF Refresh

LEMMA InitializeTypes == ASSUME TInv, Initialize PROVE TInv'
<1>. USE DEF TInv
<1>1. UNCHANGED <<dirty, conflicted, sync, issued>>
  BY DEF Initialize, InitBegin, InitWrite, InitBase, InitEnd, stores
<1>2. /\ SyncType'
      /\ sync'.pc \notin {"idle", "next"} => sync'.obj \in Objects
      /\ sync'.pc \in {"compare", "merge"} => sync'.tag # Absent
  BY <1>1 DEF SyncType, TagsKnown
<1>3. NoDecision \in Decision
  BY DEF NoDecision, Decision, Acts, Content, Maybe
<1>4. poll' = NoPoll => PollType' /\ poll'.pc = "idle"
  BY NoPollType DEF PollType, NoPoll
<1>5. ASSUME InitBegin PROVE TInv'
  <2>1. StoreType' /\ RestType'
    BY <1>1, <1>5 DEF InitBegin, StoreType, RestType, stores
  <2>2. ASSUME UNCHANGED poll PROVE PollType' /\ TagsKnown'
    BY <1>2, <2>2 DEF PollType, TagsKnown
  <2>3. ASSUME poll' = [NoPoll EXCEPT !.pc = "init", !.listing = remote,
                          !.todo = {o \in Objects : remote[o] # Absent}]
        PROVE  PollType' /\ TagsKnown'
    <3>1. poll' = [pc |-> "init", listing |-> remote, decided |-> {}, deferred |-> FALSE,
                   now |-> NoDecision, todo |-> {o \in Objects : remote[o] # Absent}]
      BY <2>3 DEF NoPoll
    <3>. QED
      BY <1>2, <1>3, <3>1 DEF PollType, PollPc, TagsKnown, StoreType
  <2>. QED
    BY <1>2, <1>5, <2>1, <2>2, <2>3 DEF InitBegin
<1>6. ASSUME NEW o \in Objects, InitWrite(o) PROVE TInv'
  <2>1. /\ poll.pc = "init" /\ o \in poll.todo /\ poll.listing[o] \in Content
        /\ \A x \in poll.todo : poll.listing[x] # Absent
    BY <1>6 DEF InitWrite, TagsKnown, PollType, Maybe
  <2>2. UNCHANGED <<remote, manifest, base>> /\ mode' \in {"down", "starting", "up"}
    BY <1>6 DEF InitWrite, RestType
  <2>3. ASSUME poll' = NoPoll, UNCHANGED <<local, cache, gone>> PROVE TInv'
    BY <1>1, <1>2, <1>4, <2>2, <2>3 DEF StoreType, RestType, TagsKnown
  <2>4. ASSUME NEW theirs \in Content, ReadObject(o, poll.listing[o], theirs),
               local' = [local EXCEPT ![o] = theirs],
               poll' = [poll EXCEPT !.pc = "initBase",
                          !.now = [NoDecision EXCEPT !.obj = o, !.bytes = theirs]],
               gone' = gone \cup (Bytes(local[o]) \ theirs)
        PROVE  TInv'
    <3>1. [NoDecision EXCEPT !.obj = o, !.bytes = theirs] \in Decision
      BY DEF NoDecision, Decision, Acts, Content, Maybe
    <3>2. PollType' /\ poll'.pc = "initBase"
      BY <2>4, <3>1 DEF PollType, PollPc
    <3>3. StoreType'
      BY <2>1, <2>2, <2>4, ReadType DEF StoreType, Maybe
    <3>4. Bytes(local[o]) \in Content
      BY BytesType DEF StoreType
    <3>5. RestType'
      BY <1>1, <2>2, <2>4, <3>4 DEF RestType, Content
    <3>6. \A x \in poll'.todo : poll'.listing[x] # Absent
      BY <2>1, <2>4 DEF PollType
    <3>. QED
      BY <1>2, <3>2, <3>3, <3>5, <3>6 DEF TagsKnown
  <2>. QED
    BY <1>6, <2>3, <2>4 DEF InitWrite
<1>7. ASSUME InitBase PROVE TInv'
  <2>1. poll.now.bytes \in Content
    BY DEF PollType, Decision
  <2>2. StoreType' /\ RestType'
    BY <1>1, <1>7, <2>1 DEF InitBase, StoreType, RestType, Maybe
  <2>3. PollType' /\ poll'.pc = "init" /\ (\A o \in poll'.todo : poll'.listing[o] # Absent)
    BY <1>3, <1>7 DEF InitBase, PollType, PollPc, TagsKnown
  <2>. QED
    BY <1>2, <2>2, <2>3 DEF TagsKnown
<1>8. ASSUME InitEnd PROVE TInv'
  BY <1>1, <1>2, <1>4, <1>8 DEF InitEnd, StoreType, RestType, TagsKnown, PollType
<1>. QED
  BY <1>5, <1>6, <1>7, <1>8 DEF Initialize

LEMMA TypeStep == TInv /\ [Next]_vars => TInv'
<1>. SUFFICES ASSUME TInv, [Next]_vars PROVE TInv'
  OBVIOUS
<1>1. CASE UNCHANGED vars
  BY <1>1 DEF vars, TInv, StoreType, SyncType, PollType, RestType, TagsKnown
<1>2. CASE Crash
  BY <1>2, NoSyncType, NoPollType
  DEF Crash, stores, TInv, StoreType, SyncType, PollType, RestType, TagsKnown, NoSync, NoPoll
<1>. QED
  BY <1>1, <1>2, UserTypes, SyncTypes, RefreshTypes, InitializeTypes DEF Next

(* The state has its type, with at most MAX_PUT_RETRIES tries for an       *)
(* object (upload_or_merge), for any store and any sequence of calls.      *)
THEOREM S3TypeCorrect == Spec => []TypeOK
<1>1. Spec => []TInv
  BY TypeInit, TypeStep, PTL DEF Spec
<1>. QED
  BY <1>1, TypeImplied, PTL

(***************************************************************************)
(* A sync against a bucket of objects that exist, written by others and    *)
(* by users who resolve conflicts, with crashes and lost answers: the      *)
(* operations of the run that checks NothingClobbered and EditsKept.  With *)
(* any of the other three, and with names both sides create, the two do    *)
(* not hold.                                                               *)
(***************************************************************************)
OnlySyncs ==
  /\ Present = Objects
  /\ Operations \cap {"remove", "delete", "refresh"} = {}

(* What content c of o had is in the file, or in the bucket, or was        *)
(* removed by somebody who knew it.                                        *)
InFile(o, c) == c \subseteq local[o] \cup gone
InBucket(o, c) == c \subseteq remote[o] \cup gone

NothingAbsent ==
  \A o \in Objects : {remote[o], local[o], manifest[o], base[o]} \subseteq Content

Phases ==
  /\ sync.pc \in {"idle", "next", "read", "entry", "stat", "base", "merge", "accept",
                  "writeMerged", "put", "saveBase", "saveManifest"}
  /\ poll.pc \in {"idle", "init", "initBase"}
  /\ mode # "up" => sync.pc = "idle"
  /\ mode # "starting" => poll.pc = "idle"

(* The manifest and the base are behind both sides.                        *)
Records ==
  \A o \in Objects : \A c \in {manifest[o], base[o]} : InFile(o, c) /\ InBucket(o, c)

(* The bytes kept for an ETag are those of its version or of a later one.  *)
CacheKnows ==
  \A o \in Objects : \A e \in cache[o] :
    e.tag \subseteq e.bytes \cup gone /\ InBucket(o, e.bytes)

(* What a sync has read and not yet used: the ETag it will compare belongs *)
(* to a version that what it will write contains.                          *)
SyncKnows ==
  LET o == sync.obj
      old == manifest[o] \cup base[o]
  IN  /\ sync.pc \in {"entry", "stat", "base", "merge"} =>
           InFile(o, sync.mine) /\ old \subseteq sync.mine \cup gone
      /\ sync.pc = "stat" => sync.tag = manifest[o]
      /\ sync.pc \in {"base", "merge", "put", "writeMerged", "accept"} =>
           sync.tag \in Content /\ InBucket(o, sync.tag)
      /\ sync.pc \in {"base", "merge"} => old \subseteq sync.tag \cup gone
      /\ sync.pc = "merge" => sync.bytes = base[o]
      /\ sync.pc \in {"put", "writeMerged", "accept"} =>
           sync.tag \cup old \subseteq sync.bytes \cup gone
      /\ sync.pc \in {"writeMerged", "accept"} => o \in Text
      /\ sync.pc \in {"put", "saveBase"} => InFile(o, sync.bytes)
      /\ sync.pc \in {"accept", "saveBase"} => InBucket(o, sync.bytes)
      /\ sync.pc \in {"saveBase", "saveManifest"} =>
           sync.tag \in Content /\ InFile(o, sync.tag) /\ InBucket(o, sync.tag)
      /\ sync.pc = "accept" => sync.tag \subseteq sync.bytes \cup gone

InitKnows ==
  poll.pc \in {"init", "initBase"} =>
    /\ \A o \in Objects : poll.listing[o] \in Content /\ InBucket(o, poll.listing[o])
    /\ \A o \in Objects \ poll.todo : InFile(o, poll.listing[o])
    /\ poll.pc = "initBase" =>
         LET o == poll.now.obj
         IN  /\ o \in Objects
             /\ InFile(o, poll.now.bytes) /\ InBucket(o, poll.now.bytes)
             /\ InFile(o, poll.listing[o])

BinaryKept ==
  \A w \in DOMAIN issued : issued[w] \notin Text =>
    w \in gone \cup remote[issued[w]] \cup local[issued[w]]

SInv == NothingAbsent /\ Phases /\ Records /\ CacheKnows /\ SyncKnows /\ InitKnows /\ BinaryKept

LEMMA BytesId == ASSUME NEW c \in Content PROVE Bytes(c) = c /\ c # Absent
BY S3SessionAssumption DEF Bytes, Content, Changes

LEMMA SInit == OnlySyncs /\ Init => SInv
<1>. SUFFICES ASSUME OnlySyncs, Init PROVE SInv
  OBVIOUS
<1>1. \A o \in Objects : remote[o] = {} /\ local[o] = {} /\ manifest[o] = {} /\ base[o] = {}
  BY DEF OnlySyncs, Init
<1>2. NothingAbsent /\ Records
  BY <1>1 DEF NothingAbsent, Records, InFile, InBucket, Content
<1>3. sync.pc = "idle" /\ poll.pc = "idle"
  BY DEF Init, NoSync, NoPoll
<1>4. Phases /\ SyncKnows /\ InitKnows
  BY <1>3 DEF Phases, SyncKnows, InitKnows, Init
<1>5. CacheKnows /\ BinaryKept
  BY DEF Init, CacheKnows, BinaryKept
<1>. QED
  BY <1>2, <1>4, <1>5 DEF SInv

(* What somebody removed stays removed; what is in the bucket stays there  *)
(* or was removed.                                                         *)
BucketGrows ==
  /\ gone \subseteq gone'
  /\ \A o \in Objects : remote[o] \subseteq remote'[o] \cup gone'

FileGrows == \A o \in Objects : local[o] \subseteq local'[o] \cup gone'

LEMMA BucketKeeps ==
  ASSUME BucketGrows, NEW o \in Objects, NEW c, InBucket(o, c) PROVE InBucket(o, c)'
BY DEF BucketGrows, InBucket

LEMMA FileKeeps ==
  ASSUME gone \subseteq gone', FileGrows, NEW o \in Objects, NEW c, InFile(o, c)
  PROVE  InFile(o, c)'
BY DEF FileGrows, InFile

(* Where both only grow, nothing that was recorded or read is disturbed.   *)
LEMMA RecordsUndisturbed ==
  ASSUME SInv, BucketGrows, FileGrows, UNCHANGED <<manifest, base, cache>>
  PROVE  Records' /\ CacheKnows'
<1>1. gone \subseteq gone'
  BY DEF BucketGrows
<1>2. Records'
  BY <1>1, BucketKeeps, FileKeeps DEF SInv, Records
<1>3. CacheKnows'
  BY <1>1, BucketKeeps DEF SInv, CacheKnows
<1>. QED
  BY <1>2, <1>3

LEMMA CallsUndisturbed ==
  ASSUME TInv, SInv, BucketGrows, FileGrows, UNCHANGED <<manifest, base, poll, mode>>,
         UNCHANGED <<sync.pc, sync.obj, sync.mine, sync.tag, sync.bytes>>
  PROVE  Phases' /\ SyncKnows' /\ InitKnows'
<1>1. gone \subseteq gone'
  BY DEF BucketGrows
<1>2. Phases'
  BY DEF SInv, Phases
<1>3. SyncKnows'
  <2>1. CASE sync.pc \in {"idle", "next", "read"}
    BY <2>1 DEF SyncKnows
  <2>2. CASE sync.pc \notin {"idle", "next", "read"}
    <3>. DEFINE o == sync.obj
    <3>1. o \in Objects
      BY <2>2 DEF TInv, TagsKnown
    <3>2. \A c : (InFile(o, c) => InFile(o, c)') /\ (InBucket(o, c) => InBucket(o, c)')
      BY <1>1, <3>1, BucketKeeps, FileKeeps
    <3>3. SyncKnows
      BY DEF SInv
    <3>. QED
      BY <1>1, <3>2, <3>3 DEF SyncKnows
  <2>. QED
    BY <2>1, <2>2
<1>4. InitKnows'
  BY <1>1, BucketKeeps, FileKeeps DEF SInv, InitKnows
<1>. QED
  BY <1>2, <1>3, <1>4

LEMMA UserKeeps ==
  ASSUME OnlySyncs, TInv, SInv, NEW o \in Objects,
         Edit(o) \/ Remove(o) \/ Resolve(o) \/ Foreign(o)
  PROVE  SInv' /\ BucketGrows
<1>1. ~Remove(o) /\ "delete" \notin Operations
  BY DEF Remove, OnlySyncs
<1>2. /\ remote[o] \in Content /\ local[o] \in Content
      /\ Bytes(remote[o]) = remote[o] /\ Bytes(local[o]) = local[o]
  BY BytesId DEF SInv, NothingAbsent
<1>3. ASSUME Len(issued) < MaxChanges
      PROVE  /\ NewChange \in Changes /\ NewChange \notin DOMAIN issued
             /\ \A x : DOMAIN Append(issued, x) = DOMAIN issued \cup {NewChange}
                      /\ Append(issued, x)[NewChange] = x
                      /\ \A w \in DOMAIN issued : Append(issued, x)[w] = issued[w]
  BY <1>3, S3SessionAssumption DEF TInv, RestType, NewChange, Changes
<1>4. /\ UNCHANGED <<manifest, base, cache, poll, mode>>
      /\ UNCHANGED <<sync.pc, sync.obj, sync.mine, sync.tag, sync.bytes>>
  BY <1>1, UserSync DEF Edit, Resolve, Foreign, ForeignPut, TInv
<1>5. ASSUME BucketGrows, FileGrows, NothingAbsent', BinaryKept' PROVE SInv'
  BY <1>4, <1>5, RecordsUndisturbed, CallsUndisturbed DEF SInv
<1>6. remote \in [Objects -> Maybe] /\ local \in [Objects -> Maybe]
  BY DEF TInv, StoreType
<1>7. ASSUME Edit(o) PROVE SInv' /\ BucketGrows
  <2>1. /\ Len(issued) < MaxChanges /\ UNCHANGED <<remote, gone>>
        /\ issued' = Append(issued, o)
        /\ local' = [local EXCEPT ![o] = local[o] \cup {NewChange}]
    BY <1>2, <1>7 DEF Edit
  <2>2. BucketGrows /\ FileGrows
    BY <1>6, <2>1 DEF BucketGrows, FileGrows
  <2>3. NothingAbsent'
    BY <1>2, <1>3, <1>4, <1>6, <2>1 DEF SInv, NothingAbsent, Content
  <2>4. BinaryKept'
    BY <1>3, <1>6, <2>1 DEF SInv, BinaryKept
  <2>. QED
    BY <1>5, <2>2, <2>3, <2>4
<1>8. ASSUME Resolve(o) PROVE SInv' /\ BucketGrows
  <2>1. /\ UNCHANGED <<remote, issued>>
        /\ local' = [local EXCEPT ![o] = remote[o]]
        /\ gone' = gone \cup (local[o] \ remote[o])
    BY <1>2, <1>8 DEF Resolve
  <2>2. BucketGrows /\ FileGrows
    BY <1>6, <2>1 DEF BucketGrows, FileGrows
  <2>3. NothingAbsent'
    BY <1>2, <1>4, <1>6, <2>1 DEF SInv, NothingAbsent
  <2>4. BinaryKept'
    BY <1>6, <2>1 DEF SInv, BinaryKept
  <2>. QED
    BY <1>5, <2>2, <2>3, <2>4
<1>9. ASSUME Foreign(o) PROVE SInv' /\ BucketGrows
  <2>1. ASSUME Len(issued) < MaxChanges
        PROVE  remote[o] \cup {NewChange} \in Content /\ {} \in Content
    BY <1>2, <1>3, <2>1 DEF Content
  <2>2. PICK c \in Content : ForeignPut(o, c)
    BY <1>1, <1>2, <1>9, <2>1 DEF Foreign, ForeignPut, Content
  <2>3. /\ Len(issued) < MaxChanges /\ UNCHANGED local
        /\ issued' = Append(issued, o) /\ remote' = [remote EXCEPT ![o] = c]
        /\ gone' = gone \cup (remote[o] \ c) \cup IF NewChange \in c THEN {} ELSE {NewChange}
    BY <1>2, <2>2, BytesId DEF ForeignPut
  <2>4. BucketGrows /\ FileGrows
    BY <1>6, <2>3 DEF BucketGrows, FileGrows
  <2>5. NothingAbsent'
    BY <1>2, <1>4, <1>6, <2>3 DEF SInv, NothingAbsent
  <2>6. BinaryKept'
    <3>1. NewChange \in gone' \cup remote'[o]
      BY <1>6, <2>3
    <3>. QED
      BY <1>3, <1>6, <2>3, <2>4, <3>1 DEF SInv, BinaryKept, BucketGrows, FileGrows
  <2>. QED
    BY <1>5, <2>4, <2>5, <2>6
<1>. QED
  BY <1>1, <1>7, <1>8, <1>9

LEMMA CrashKeeps == ASSUME TInv, SInv, Crash PROVE SInv' /\ BucketGrows
<1>1. /\ UNCHANGED <<remote, local, manifest, base, cache, issued, gone>>
      /\ sync'.pc = "idle" /\ poll'.pc = "idle"
  BY DEF Crash, stores, NoSync, NoPoll
<1>2. BucketGrows /\ FileGrows
  BY <1>1 DEF BucketGrows, FileGrows
<1>3. Records' /\ CacheKnows'
  BY <1>1, <1>2, RecordsUndisturbed
<1>4. Phases' /\ SyncKnows' /\ InitKnows'
  BY <1>1 DEF Phases, SyncKnows, InitKnows
<1>5. NothingAbsent' /\ BinaryKept'
  BY <1>1 DEF SInv, NothingAbsent, BinaryKept
<1>. QED
  BY <1>2, <1>3, <1>4, <1>5 DEF SInv

(* read_object_cached: the bytes are those of the ETag or of a later       *)
(* version, and the cache says so.                                         *)
LEMMA ReadKnows ==
  ASSUME TInv, SInv, NEW o \in Objects, NEW tag \in Content, NEW bytes \in Content,
         InBucket(o, tag), ReadObject(o, tag, bytes), UNCHANGED remote, gone \subseteq gone'
  PROVE  /\ tag \subseteq bytes \cup gone /\ InBucket(o, bytes)
         /\ CacheKnows'
<1>1. cache \in [Objects -> SUBSET [tag : Content, bytes : Content]]
  BY DEF TInv, StoreType
<1>2. CASE UNCHANGED cache /\ \E e \in Known(o, tag) : bytes = e.bytes
  BY <1>2 DEF SInv, CacheKnows, Known, InBucket
<1>3. CASE bytes = remote[o] /\ cache' = Remember(o, tag, bytes)
  <2>1. tag \subseteq bytes \cup gone /\ InBucket(o, bytes)
    BY <1>3 DEF InBucket
  <2>2. ASSUME NEW x \in Objects, NEW e \in cache'[x]
        PROVE  e \in cache[x] \/ (x = o /\ e = [tag |-> tag, bytes |-> bytes])
    BY <1>1, <1>3, <2>2 DEF Remember
  <2>. QED
    BY <2>1, <2>2 DEF SInv, CacheKnows, InBucket
<1>. QED
  BY <1>2, <1>3 DEF ReadObject

LEMMA InitializeKeeps == ASSUME TInv, SInv, Initialize PROVE SInv' /\ BucketGrows
<1>1. UNCHANGED <<remote, issued, sync>>
  BY DEF Initialize, InitBegin, InitWrite, InitBase, InitEnd, stores
<1>2. mode # "up" /\ sync.pc = "idle"
  BY DEF Initialize, InitBegin, InitWrite, InitBase, InitEnd, SInv, Phases
<1>3. SyncKnows'
  BY <1>1, <1>2 DEF SyncKnows
<1>4. /\ remote \in [Objects -> Maybe] /\ local \in [Objects -> Maybe]
      /\ manifest \in [Objects -> Maybe] /\ base \in [Objects -> Maybe]
  BY DEF TInv, StoreType
<1>5. \A o \in Objects : remote[o] \in Content /\ local[o] \in Content /\ remote[o] # Absent
                        /\ Bytes(local[o]) = local[o]
  BY BytesId DEF SInv, NothingAbsent
<1>6. ASSUME InitBegin PROVE SInv' /\ BucketGrows
  <2>1. UNCHANGED <<local, manifest, base, cache, gone>>
    BY <1>6 DEF InitBegin, stores
  <2>2. BucketGrows /\ FileGrows
    BY <1>1, <2>1 DEF BucketGrows, FileGrows
  <2>3. Records' /\ CacheKnows'
    BY <2>1, <2>2, RecordsUndisturbed
  <2>4. NothingAbsent' /\ BinaryKept'
    BY <1>1, <2>1 DEF SInv, NothingAbsent, BinaryKept
  <2>5. Phases' /\ InitKnows'
    <3>1. CASE mode' = "up" /\ UNCHANGED poll
      BY <1>1, <1>2, <1>6, <3>1 DEF InitBegin, SInv, Phases, InitKnows
    <3>2. CASE /\ mode' = "starting"
               /\ poll' = [NoPoll EXCEPT !.pc = "init", !.listing = remote,
                             !.todo = {o \in Objects : remote[o] # Absent}]
      <4>1. poll'.pc = "init" /\ poll'.listing = remote /\ Objects \ poll'.todo = {}
        BY <1>5, <3>2 DEF NoPoll
      <4>2. Phases'
        BY <1>1, <1>2, <3>2, <4>1 DEF Phases
      <4>. QED
        BY <1>1, <1>5, <4>1, <4>2 DEF InitKnows, InBucket
    <3>. QED
      BY <1>6, <3>1, <3>2 DEF InitBegin
  <2>. QED
    BY <1>3, <2>2, <2>3, <2>4, <2>5 DEF SInv
<1>7. ASSUME NEW o \in Objects, InitWrite(o) PROVE SInv' /\ BucketGrows
  <2>1. poll.pc = "init" /\ mode = "starting" /\ UNCHANGED <<manifest, base>>
    BY <1>7 DEF InitWrite
  <2>2. CASE mode' = "down" /\ poll' = NoPoll /\ UNCHANGED <<local, cache, gone>>
    <3>1. BucketGrows /\ FileGrows
      BY <1>1, <2>2 DEF BucketGrows, FileGrows
    <3>2. Records' /\ CacheKnows'
      BY <2>1, <2>2, <3>1, RecordsUndisturbed
    <3>3. NothingAbsent' /\ BinaryKept'
      BY <1>1, <2>1, <2>2 DEF SInv, NothingAbsent, BinaryKept
    <3>4. poll'.pc = "idle"
      BY <2>2 DEF NoPoll
    <3>5. Phases' /\ InitKnows'
      BY <1>1, <1>2, <3>4 DEF Phases, InitKnows
    <3>. QED
      BY <1>3, <3>1, <3>2, <3>3, <3>5 DEF SInv
  <2>3. ASSUME NEW theirs \in Content, ReadObject(o, poll.listing[o], theirs),
               local' = [local EXCEPT ![o] = theirs], UNCHANGED mode,
               poll' = [poll EXCEPT !.pc = "initBase",
                          !.now = [NoDecision EXCEPT !.obj = o, !.bytes = theirs]],
               gone' = gone \cup (Bytes(local[o]) \ theirs)
        PROVE  SInv' /\ BucketGrows
    <3>1. gone' = gone \cup (local[o] \ theirs)
      BY <1>5, <2>3
    <3>2. BucketGrows /\ FileGrows
      BY <1>1, <1>4, <2>3, <3>1 DEF BucketGrows, FileGrows
    <3>3. poll.listing[o] \in Content /\ InBucket(o, poll.listing[o])
      BY <2>1 DEF SInv, InitKnows
    <3>4. /\ poll.listing[o] \subseteq theirs \cup gone /\ InBucket(o, theirs) /\ CacheKnows'
      BY <1>1, <2>3, <3>1, <3>3, ReadKnows
    <3>5. Records'
      BY <2>1, <3>2, BucketKeeps, FileKeeps DEF BucketGrows, SInv, Records
    <3>6. NothingAbsent' /\ BinaryKept'
      BY <1>1, <1>4, <2>1, <2>3, <3>2 DEF SInv, NothingAbsent, BinaryKept, FileGrows, BucketGrows
    <3>7. poll'.pc = "initBase" /\ poll'.listing = poll.listing /\ poll'.todo = poll.todo
          /\ poll'.now.obj = o /\ poll'.now.bytes = theirs
      BY <2>3 DEF TInv, PollType, NoDecision
    <3>8. Phases'
      BY <1>1, <1>2, <2>1, <2>3, <3>7 DEF Phases
    <3>9. InitKnows'
      <4>1. InFile(o, theirs)' /\ InFile(o, poll.listing[o])'
        BY <1>4, <2>3, <3>1, <3>4 DEF InFile
      <4>2. \A x \in Objects : \A c : (InFile(x, c) => InFile(x, c)') /\ (InBucket(x, c) => InBucket(x, c)')
        BY <3>1, <3>2, BucketKeeps, FileKeeps
      <4>3. InitKnows
        BY DEF SInv
      <4>. QED
        BY <2>1, <3>4, <3>7, <4>1, <4>2, <4>3 DEF InitKnows
    <3>. QED
      BY <1>3, <3>2, <3>4, <3>5, <3>6, <3>8, <3>9 DEF SInv
  <2>. QED
    BY <1>7, <2>2, <2>3 DEF InitWrite
<1>8. ASSUME InitBase PROVE SInv' /\ BucketGrows
  <2>. DEFINE o == poll.now.obj
  <2>1. /\ mode = "starting" /\ poll.pc = "initBase"
        /\ UNCHANGED <<local, manifest, cache, gone, mode>>
        /\ base' = [base EXCEPT ![o] = poll.now.bytes]
    BY <1>8 DEF InitBase
  <2>2. poll'.pc = "init" /\ poll'.listing = poll.listing /\ poll'.todo = poll.todo \ {o}
    BY <1>8 DEF InitBase, TInv, PollType
  <2>3. /\ o \in Objects /\ InFile(o, poll.now.bytes) /\ InBucket(o, poll.now.bytes)
        /\ InFile(o, poll.listing[o])
    BY <2>1 DEF SInv, InitKnows
  <2>4. BucketGrows /\ FileGrows
    BY <1>1, <2>1 DEF BucketGrows, FileGrows
  <2>5. poll.now.bytes \in Content
    BY DEF TInv, PollType, Decision
  <2>6. NothingAbsent' /\ BinaryKept'
    BY <1>1, <1>4, <2>1, <2>3, <2>5 DEF SInv, NothingAbsent, BinaryKept
  <2>7. Records' /\ CacheKnows'
    BY <1>1, <1>4, <2>1, <2>3 DEF SInv, Records, CacheKnows, InFile, InBucket
  <2>8. Phases'
    BY <1>1, <1>2, <2>1, <2>2 DEF Phases
  <2>9. InitKnows'
    BY <1>1, <2>1, <2>2, <2>3 DEF SInv, InitKnows, InFile, InBucket
  <2>. QED
    BY <1>3, <2>4, <2>6, <2>7, <2>8, <2>9 DEF SInv
<1>9. ASSUME InitEnd PROVE SInv' /\ BucketGrows
  <2>1. /\ poll.pc = "init" /\ poll.todo = {} /\ mode' = "up" /\ manifest' = poll.listing
        /\ UNCHANGED <<local, base, cache, gone>>
    BY <1>9 DEF InitEnd
  <2>2. poll'.pc = "idle"
    BY <1>9 DEF InitEnd, NoPoll
  <2>3. BucketGrows /\ FileGrows
    BY <1>1, <2>1 DEF BucketGrows, FileGrows
  <2>4. \A o \in Objects : /\ poll.listing[o] \in Content
                          /\ InFile(o, poll.listing[o]) /\ InBucket(o, poll.listing[o])
    BY <2>1 DEF SInv, InitKnows
  <2>5. NothingAbsent' /\ BinaryKept'
    BY <1>1, <2>1, <2>4 DEF SInv, NothingAbsent, BinaryKept
  <2>6. Records' /\ CacheKnows'
    BY <1>1, <2>1, <2>4 DEF SInv, Records, CacheKnows, InFile, InBucket
  <2>7. Phases' /\ InitKnows'
    BY <1>1, <1>2, <2>1, <2>2 DEF Phases, InitKnows
  <2>. QED
    BY <1>3, <2>3, <2>5, <2>6, <2>7 DEF SInv
<1>. QED
  BY <1>6, <1>7, <1>8, <1>9 DEF Initialize

(* A step of sync_dirty that touches neither side nor what is recorded.    *)
LEMMA QuietKeeps ==
  ASSUME TInv, SInv, mode = "up", CacheKnows', SyncKnows',
         UNCHANGED <<remote, local, manifest, base, mode, poll, issued, gone>>,
         sync'.pc \in {"idle", "next", "read", "entry", "stat", "base", "merge", "accept",
                       "writeMerged", "put", "saveBase", "saveManifest"}
  PROVE  SInv' /\ BucketGrows
<1>1. BucketGrows
  BY DEF BucketGrows
<1>2. NothingAbsent' /\ BinaryKept'
  BY DEF SInv, NothingAbsent, BinaryKept
<1>3. Records'
  BY DEF SInv, Records, InFile, InBucket
<1>4. Phases' /\ InitKnows'
  BY DEF SInv, Phases, InitKnows
<1>. QED
  BY <1>1, <1>2, <1>3, <1>4 DEF SInv

(* Where the object in work is done with, nothing is known of it.          *)
LEMMA Released ==
  ASSUME NEW c \in BOOLEAN, Between(c) \/ Fail
  PROVE  sync'.pc \in {"idle", "next"} /\ SyncKnows'
<1>1. ASSUME Fail PROVE sync'.pc = "idle"
  BY <1>1 DEF Fail, NoSync
<1>2. ASSUME Between(c) PROVE sync'.pc = "next"
  <2>. DEFINE more == IF c THEN {Object} ELSE {}
  <2>1. sync' = [pc |-> "next", batch |-> sync.batch, todo |-> sync.todo \ {Object},
                 conflicts |-> sync.conflicts \cup more, obj |-> Absent, attempt |-> 0,
                 mine |-> {}, tag |-> Absent, bytes |-> {}, agreed |-> FALSE]
    BY <1>2 DEF Between, NoSync
  <2>. QED
    BY <2>1
<1>3. sync'.pc \in {"idle", "next"}
  BY <1>1, <1>2
<1>. QED
  BY <1>3 DEF SyncKnows

(* SyncKnows for the object of a call, in the state and in the next.       *)
LEMMA CallKnows ==
  ASSUME TInv, SInv, sync.pc \notin {"idle", "next", "read"}
  PROVE  /\ sync.obj \in Objects
         /\ {remote[sync.obj], local[sync.obj], manifest[sync.obj], base[sync.obj],
             sync.mine, sync.bytes} \subseteq Content
BY DEF TInv, TagsKnown, SyncType, SInv, NothingAbsent

(* decide_text_merge: what is uploaded or written contains both sides.     *)
LEMMA DecideKeeps ==
  ASSUME NEW o, NEW b, NEW mine, NEW theirs, NEW g, b \subseteq mine \cup g,
         NEW d \in Decide(o, b, mine, theirs)
  PROVE  /\ d.act = "upload" => d.bytes = mine /\ b = theirs
         /\ d.act = "synced" => d.bytes = mine /\ mine = theirs
         /\ d.act = "accept" => d.bytes = theirs /\ b = mine /\ o \in Text
         /\ d.act = "merge" =>
              /\ o \in Text /\ theirs \subseteq d.bytes \cup g
              /\ \A c : c \subseteq mine \cup g /\ c \subseteq theirs \cup g => c \subseteq d.bytes \cup g
<1>1. d.act \in {"conflict", "upload", "synced", "accept", "merge"}
  BY DEF Decide
<1>2. d.act = "upload" => d.bytes = mine /\ b = theirs
  BY DEF Decide
<1>3. d.act = "synced" => d.bytes = mine /\ mine = theirs
  BY DEF Decide
<1>4. d.act = "accept" => d.bytes = theirs /\ b = mine /\ o \in Text
  BY DEF Decide
<1>5. d.act = "merge" => o \in Text /\ d.bytes = (mine \cap theirs) \cup (mine \ b) \cup (theirs \ b)
  BY DEF Decide
<1>. QED
  BY <1>2, <1>3, <1>4, <1>5

LEMMA MergeKeeps == ASSUME TInv, SInv, SyncMerge PROVE SInv' /\ BucketGrows
<1>. DEFINE o == sync.obj
            old == manifest[o] \cup base[o]
<1>1. /\ mode = "up" /\ sync.pc = "merge"
      /\ UNCHANGED <<remote, local, manifest, base, mode, poll, issued, gone>>
  BY DEF SyncMerge, At
<1>2. /\ o \in Objects
      /\ {remote[o], local[o], manifest[o], base[o], sync.mine, sync.bytes} \subseteq Content
  BY <1>1, CallKnows
<1>3. /\ InFile(o, sync.mine) /\ old \subseteq sync.mine \cup gone
      /\ sync.tag \in Content /\ InBucket(o, sync.tag) /\ old \subseteq sync.tag \cup gone
      /\ sync.bytes = base[o]
  BY <1>1 DEF SInv, SyncKnows
<1>4. ASSUME ReadFails(Object, sync.tag) /\ Fail /\ UNCHANGED cache
      PROVE  SInv' /\ BucketGrows
  <2>1. CacheKnows'
    BY <1>1, <1>4 DEF SInv, CacheKnows, InBucket
  <2>. QED
    BY <1>1, <1>4, <2>1, QuietKeeps, Released
<1>5. ASSUME NEW theirs \in Content, ReadObject(o, sync.tag, theirs),
             NEW d \in Decide(o, sync.bytes, sync.mine, theirs),
             \/ d.act = "conflict" /\ Conflict
             \/ d.act = "upload" /\ sync' = [sync EXCEPT !.pc = "put", !.bytes = d.bytes]
             \/ d.act = "merge"  /\ sync' = [sync EXCEPT !.pc = "writeMerged", !.bytes = d.bytes]
             \/ d.act = "accept" /\ sync' = [sync EXCEPT !.pc = "accept", !.bytes = d.bytes]
             \/ d.act = "synced" /\ sync' = [sync EXCEPT !.pc = "saveBase", !.bytes = d.bytes]
      PROVE  SInv' /\ BucketGrows
  <2>1. sync.tag \subseteq theirs \cup gone /\ InBucket(o, theirs) /\ CacheKnows'
    BY <1>1, <1>2, <1>3, <1>5, ReadKnows
  <2>2. sync.bytes \subseteq sync.mine \cup gone /\ old \subseteq theirs \cup gone
    BY <1>3, <2>1
  <2>3. /\ d.act = "upload" => d.bytes = sync.mine /\ sync.bytes = theirs
        /\ d.act = "synced" => d.bytes = sync.mine /\ sync.mine = theirs
        /\ d.act = "accept" => d.bytes = theirs /\ sync.bytes = sync.mine /\ o \in Text
        /\ d.act = "merge" =>
              /\ o \in Text /\ theirs \subseteq d.bytes \cup gone
              /\ old \subseteq d.bytes \cup gone
    BY <1>3, <1>5, <2>2, DecideKeeps
  <2>4. CASE d.act = "conflict"
    BY <1>1, <1>5, <2>1, <2>4, QuietKeeps, Released DEF Conflict
  <2>6. CASE d.act = "upload"
    <3>1. sync'.pc = "put" /\ sync'.obj = o /\ sync'.bytes = sync.mine /\ sync'.tag = sync.tag
      <4>1. sync' = [sync EXCEPT !.pc = "put", !.bytes = d.bytes]
        BY <1>5, <2>6
      <4>. QED
        BY <2>3, <2>6, <4>1 DEF TInv, SyncType
    <3>2. sync.tag \cup old \subseteq sync.mine \cup gone
      BY <1>3, <2>1, <2>3, <2>6
    <3>3. SyncKnows'
      BY <1>1, <1>3, <3>1, <3>2 DEF SyncKnows, InFile, InBucket
    <3>. QED
      BY <1>1, <2>1, <3>1, <3>3, QuietKeeps
  <2>7. CASE d.act = "merge"
    <3>1. sync'.pc = "writeMerged" /\ sync'.obj = o /\ sync'.bytes = d.bytes /\ sync'.tag = sync.tag
      <4>1. sync' = [sync EXCEPT !.pc = "writeMerged", !.bytes = d.bytes]
        BY <1>5, <2>7
      <4>. QED
        BY <2>3, <2>7, <4>1 DEF TInv, SyncType
    <3>2. sync.tag \cup old \subseteq d.bytes \cup gone /\ o \in Text
      BY <1>3, <2>1, <2>3, <2>7
    <3>3. SyncKnows'
      BY <1>1, <1>3, <3>1, <3>2 DEF SyncKnows, InFile, InBucket
    <3>. QED
      BY <1>1, <2>1, <3>1, <3>3, QuietKeeps
  <2>8. CASE d.act = "accept"
    <3>1. sync'.pc = "accept" /\ sync'.obj = o /\ sync'.bytes = theirs /\ sync'.tag = sync.tag
      <4>1. sync' = [sync EXCEPT !.pc = "accept", !.bytes = d.bytes]
        BY <1>5, <2>8
      <4>. QED
        BY <2>3, <2>8, <4>1 DEF TInv, SyncType
    <3>2. sync.tag \cup old \subseteq theirs \cup gone /\ o \in Text
      BY <2>1, <2>2, <2>3, <2>8
    <3>3. SyncKnows'
      BY <1>1, <1>3, <2>1, <3>1, <3>2 DEF SyncKnows, InFile, InBucket
    <3>. QED
      BY <1>1, <2>1, <3>1, <3>3, QuietKeeps
  <2>9. CASE d.act = "synced"
    <3>1. sync'.pc = "saveBase" /\ sync'.obj = o /\ sync'.bytes = theirs /\ sync'.tag = sync.tag
      <4>1. sync' = [sync EXCEPT !.pc = "saveBase", !.bytes = d.bytes]
        BY <1>5, <2>9
      <4>. QED
        BY <2>3, <2>9, <4>1 DEF TInv, SyncType
    <3>2. InFile(o, theirs) /\ InFile(o, sync.tag)
      BY <1>3, <2>1, <2>3, <2>9 DEF InFile
    <3>3. SyncKnows'
      BY <1>1, <1>3, <2>1, <3>1, <3>2 DEF SyncKnows, InFile, InBucket
    <3>. QED
      BY <1>1, <2>1, <3>1, <3>3, QuietKeeps
  <2>. QED
    BY <1>5, <2>4, <2>6, <2>7, <2>8, <2>9
<1>. QED
  BY <1>4, <1>5 DEF SyncMerge, Object

(* The steps of sync_dirty before the merge, with the decision to put.     *)
LEMMA ReadingKeeps ==
  ASSUME TInv, SInv,
         \/ SyncBegin \/ SyncEnd \/ (\E o \in Objects : SyncNext(o))
         \/ SyncRead \/ SyncEntry \/ SyncStat \/ SyncBase
  PROVE  SInv' /\ BucketGrows
<1>. DEFINE o == sync.obj
            old == manifest[o] \cup base[o]
            Kept == SInv' /\ BucketGrows
<1>1. mode = "up" /\ UNCHANGED <<stores, mode, poll, issued, gone>>
  BY DEF SyncBegin, SyncEnd, SyncNext, SyncRead, SyncEntry, SyncStat, SyncBase, At
<1>2. UNCHANGED <<remote, local, manifest, base, cache, mode, poll, issued, gone>>
  BY <1>1 DEF stores
<1>3. CacheKnows'
  BY <1>2 DEF SInv, CacheKnows, InBucket
<1>4. ASSUME SyncKnows',
             sync'.pc \in {"idle", "next", "read", "entry", "stat", "base", "merge", "put"}
      PROVE  Kept
  BY <1>1, <1>2, <1>3, <1>4, QuietKeeps
<1>5. ASSUME sync'.pc \in {"idle", "next", "read"} PROVE Kept
  BY <1>4, <1>5 DEF SyncKnows
<1>6. ASSUME Fail \/ Conflict PROVE Kept
  <2>1. sync'.pc \in {"idle", "next"} /\ SyncKnows'
    BY <1>6, Released DEF Conflict
  <2>. QED
    BY <1>5, <2>1
<1>. HIDE DEF Kept
<1>7. \A x \in Objects : local[x] # Absent /\ Bytes(base[x]) = base[x] /\ remote[x] # Absent
                        /\ manifest[x] # Absent
  BY BytesId DEF SInv, NothingAbsent
<1>8. ASSUME SyncBegin \/ SyncEnd PROVE Kept
  <2>1. ASSUME SyncBegin PROVE sync'.pc = "next"
    <3>1. sync' = [pc |-> "next", batch |-> dirty, todo |-> dirty, conflicts |-> {},
                   obj |-> Absent, attempt |-> 0, mine |-> {}, tag |-> Absent, bytes |-> {},
                 agreed |-> FALSE]
      BY <2>1 DEF SyncBegin, NoSync
    <3>. QED
      BY <3>1
  <2>2. ASSUME SyncEnd PROVE sync'.pc = "idle"
    BY <2>2 DEF SyncEnd, NoSync
  <2>. QED
    BY <1>5, <1>8, <2>1, <2>2
<1>9. ASSUME NEW x \in Objects, SyncNext(x) PROVE Kept
  <2>1. sync' = [sync EXCEPT !.obj = x, !.pc = "read"]
    BY <1>7, <1>9 DEF SyncNext
  <2>2. sync'.pc = "read"
    BY <2>1 DEF TInv, SyncType
  <2>. QED
    BY <1>5, <2>2
<1>10. ASSUME SyncRead PROVE Kept
  <2>1. o \in Objects /\ sync.pc = "read"
    BY <1>10 DEF SyncRead, At, TInv, TagsKnown
  <2>2. ASSUME sync' = [sync EXCEPT !.pc = "entry", !.mine = local[Object],
                                    !.agreed = local[Object] = remote[Object]]
        PROVE  Kept
    <3>1. sync'.pc = "entry" /\ sync'.obj = o /\ sync'.mine = local[o]
      BY <2>2 DEF Object, TInv, SyncType
    <3>2. InFile(o, local[o]) /\ old \subseteq local[o] \cup gone
      BY <2>1 DEF SInv, Records, InFile
    <3>3. SyncKnows'
      BY <1>2, <3>1, <3>2 DEF SyncKnows, InFile, InBucket
    <3>. QED
      BY <1>4, <3>1, <3>3
  <2>. QED
    BY <1>6, <1>10, <2>2 DEF SyncRead
<1>11. ASSUME SyncEntry PROVE Kept
  <2>1. sync.pc = "entry" /\ sync' = [sync EXCEPT !.pc = "stat", !.tag = manifest[o]]
    BY <1>11 DEF SyncEntry, At, Object
  <2>2. sync'.pc = "stat" /\ sync'.obj = o /\ sync'.mine = sync.mine /\ sync'.tag = manifest[o]
    BY <2>1 DEF TInv, SyncType
  <2>3. SyncKnows'
    BY <1>2, <2>1, <2>2 DEF SInv, SyncKnows, InFile, InBucket
  <2>. QED
    BY <1>4, <2>2, <2>3
<1>12. ASSUME SyncStat PROVE Kept
  <2>1. sync.pc = "stat"
    BY <1>12 DEF SyncStat, At
  <2>2. o \in Objects /\ {remote[o], manifest[o]} \subseteq Content
    BY <2>1, CallKnows
  <2>3. /\ InFile(o, sync.mine) /\ old \subseteq sync.mine \cup gone /\ sync.tag = manifest[o]
        /\ old \subseteq remote[o] \cup gone
    BY <2>1, <2>2 DEF SInv, SyncKnows, Records, InBucket
  <2>4. ASSUME sync' = [sync EXCEPT !.pc = "base", !.tag = remote[Object]] PROVE Kept
    <3>1. sync'.pc = "base" /\ sync'.obj = o /\ sync'.mine = sync.mine /\ sync'.tag = remote[o]
      BY <2>4 DEF Object, TInv, SyncType
    <3>2. SyncKnows'
      BY <1>2, <2>2, <2>3, <3>1 DEF SyncKnows, InFile, InBucket
    <3>. QED
      BY <1>4, <3>1, <3>2
  <2>5. ASSUME sync' = [sync EXCEPT !.pc = "put", !.bytes = sync.mine], sync.tag = remote[o]
        PROVE  Kept
    <3>1. /\ sync'.pc = "put" /\ sync'.obj = o /\ sync'.bytes = sync.mine
          /\ sync'.tag = manifest[o]
      BY <2>3, <2>5 DEF TInv, SyncType
    <3>2. SyncKnows'
      BY <1>2, <2>2, <2>3, <2>5, <3>1 DEF SyncKnows, InFile, InBucket
    <3>. QED
      BY <1>4, <3>1, <3>2
  <2>. QED
    BY <1>6, <1>7, <1>12, <2>2, <2>3, <2>4, <2>5 DEF SyncStat, Object
<1>13. ASSUME SyncBase PROVE Kept
  <2>1. sync.pc = "base"
    BY <1>13 DEF SyncBase, At
  <2>2. o \in Objects /\ base[o] \in Content /\ sync.tag \in Content
    BY <2>1, CallKnows DEF SInv, SyncKnows
  <2>3. sync' = [sync EXCEPT !.pc = "merge", !.bytes = base[o]]
    BY <1>7, <1>13, <2>2, BytesId DEF SyncBase, Object
  <2>4. /\ sync'.pc = "merge" /\ sync'.obj = o /\ sync'.mine = sync.mine
        /\ sync'.tag = sync.tag /\ sync'.bytes = base[o]
    BY <2>3 DEF TInv, SyncType
  <2>5. SyncKnows'
    BY <1>2, <2>1, <2>2, <2>4 DEF SInv, SyncKnows, InFile, InBucket
  <2>. QED
    BY <1>4, <2>4, <2>5
<1>. QED
  BY <1>8, <1>9, <1>10, <1>11, <1>12, <1>13 DEF Kept

(* Only a text is written over a file, and the text contains all that the  *)
(* manifest, the base and the ETag to compare stand for.                   *)
LEMMA WriteKeeps == ASSUME TInv, SInv, SyncWriteLocal PROVE SInv' /\ BucketGrows
<1>. DEFINE o == sync.obj
            old == manifest[o] \cup base[o]
<1>1. /\ sync.pc \in {"writeMerged", "accept"} /\ mode = "up"
      /\ local' = [local EXCEPT ![o] = sync.bytes]
      /\ UNCHANGED <<remote, manifest, base, cache, mode, poll, issued, gone>>
      /\ sync' = [sync EXCEPT !.pc = IF sync.pc = "accept" THEN "saveBase" ELSE "put"]
  BY DEF SyncWriteLocal, At, Go, Object
<1>2. o \in Objects /\ sync.bytes \in Content
  BY <1>1, CallKnows
<1>3. /\ sync.tag \in Content /\ InBucket(o, sync.tag) /\ o \in Text
      /\ sync.tag \cup old \subseteq sync.bytes \cup gone
      /\ sync.pc = "accept" => InBucket(o, sync.bytes)
  BY <1>1 DEF SInv, SyncKnows
<1>4. /\ local'[o] = sync.bytes
      /\ \A x \in Objects : x # o => local'[x] = local[x]
  BY <1>1, <1>2 DEF TInv, StoreType
<1>5. BucketGrows
  BY <1>1 DEF BucketGrows
<1>6. NothingAbsent'
  BY <1>1, <1>2, <1>4 DEF SInv, NothingAbsent
<1>7. BinaryKept'
  <2>1. \A w \in DOMAIN issued : issued[w] \in Objects
    BY DEF TInv, RestType
  <2>. QED
    BY <1>1, <1>3, <1>4, <2>1 DEF SInv, BinaryKept
<1>8. Records' /\ CacheKnows'
  BY <1>1, <1>3, <1>4 DEF SInv, Records, CacheKnows, InFile, InBucket
<1>9. /\ sync'.pc = IF sync.pc = "accept" THEN "saveBase" ELSE "put"
      /\ sync'.obj = o /\ sync'.bytes = sync.bytes /\ sync'.tag = sync.tag
  BY <1>1 DEF TInv, SyncType
<1>10. Phases' /\ InitKnows'
  BY <1>1, <1>9 DEF SInv, Phases, InitKnows
<1>11. SyncKnows'
  <2>1. InFile(o, sync.bytes)' /\ InFile(o, sync.tag)'
    BY <1>1, <1>3, <1>4 DEF InFile
  <2>2. InBucket(o, sync.tag)' /\ (sync.pc = "accept" => InBucket(o, sync.bytes)')
    BY <1>1, <1>3 DEF InBucket
  <2>. QED
    BY <1>1, <1>3, <1>9, <2>1, <2>2 DEF SyncKnows
<1>. QED
  BY <1>5, <1>6, <1>7, <1>8, <1>10, <1>11 DEF SInv

(* A put replaces the version with the ETag it compares; what it writes    *)
(* contains that version.                                                  *)
LEMMA PutKeeps == ASSUME TInv, SInv, SyncPut PROVE SInv' /\ BucketGrows
<1>. DEFINE o == sync.obj
            old == manifest[o] \cup base[o]
<1>1. /\ sync.pc = "put" /\ mode = "up"
      /\ UNCHANGED <<local, manifest, base, mode, poll, issued, gone>>
  BY DEF SyncPut, At
<1>2. o \in Objects /\ sync.bytes \in Content
  BY <1>1, CallKnows
<1>3. sync.tag \cup old \subseteq sync.bytes \cup gone /\ InFile(o, sync.bytes)
  BY <1>1 DEF SInv, SyncKnows
<1>4. ASSUME UNCHANGED <<remote, cache>>, sync'.pc \in {"idle", "next", "read"}
      PROVE  SInv' /\ BucketGrows
  <2>1. CacheKnows' /\ SyncKnows'
    BY <1>1, <1>4 DEF SInv, CacheKnows, InBucket, SyncKnows
  <2>. QED
    BY <1>1, <1>4, <2>1, QuietKeeps
<1>5. ASSUME Retry, UNCHANGED <<remote, cache>> PROVE SInv' /\ BucketGrows
  <2>1. ASSUME sync' = [pc |-> "read", batch |-> sync.batch, todo |-> sync.todo,
                        conflicts |-> sync.conflicts, obj |-> sync.obj,
                        attempt |-> sync.attempt + 1, mine |-> {}, tag |-> Absent,
                        bytes |-> {}, agreed |-> FALSE]
        PROVE  sync'.pc = "read"
    BY <2>1
  <2>2. sync'.pc \in {"idle", "next", "read"}
    BY <1>5, <2>1, Released DEF Retry, Conflict, NoSync, Object
  <2>. QED
    BY <1>4, <1>5, <2>2
<1>6. ASSUME remote[o] = sync.tag, remote' = [remote EXCEPT ![o] = sync.bytes],
             CacheKnows', SyncKnows', sync'.pc \in {"idle", "saveBase"}
      PROVE  SInv' /\ BucketGrows
  <2>1. BucketGrows /\ FileGrows
    BY <1>1, <1>2, <1>3, <1>6 DEF TInv, StoreType, BucketGrows, FileGrows
  <2>2. NothingAbsent'
    BY <1>1, <1>2, <1>6 DEF TInv, StoreType, SInv, NothingAbsent
  <2>3. BinaryKept'
    <3>1. \A w \in DOMAIN issued : issued[w] \in Objects
      BY DEF TInv, RestType
    <3>. QED
      BY <1>1, <2>1, <3>1 DEF SInv, BinaryKept, BucketGrows
  <2>4. Records'
    BY <1>1, <2>1, BucketKeeps, FileKeeps DEF SInv, Records, BucketGrows
  <2>5. Phases' /\ InitKnows'
    BY <1>1, <1>6 DEF SInv, Phases, InitKnows
  <2>. QED
    BY <1>6, <2>1, <2>2, <2>3, <2>4, <2>5 DEF SInv
<1>7. ASSUME remote[o] = sync.tag, remote' = [remote EXCEPT ![o] = sync.bytes]
      PROVE  /\ BucketGrows /\ remote'[o] = sync.bytes
             /\ \A x \in Objects : \A e \in cache[x] : InBucket(x, e.bytes)'
  <2>1. BucketGrows /\ remote'[o] = sync.bytes
    BY <1>1, <1>2, <1>3, <1>7 DEF TInv, StoreType, BucketGrows
  <2>. QED
    BY <2>1, BucketKeeps DEF SInv, CacheKnows
<1>8. ASSUME remote[o] = sync.tag, remote' = [remote EXCEPT ![o] = sync.bytes],
             Fail, UNCHANGED cache
      PROVE  SInv' /\ BucketGrows
  <2>1. CacheKnows'
    BY <1>1, <1>7, <1>8 DEF SInv, CacheKnows
  <2>2. sync'.pc = "idle" /\ SyncKnows'
    BY <1>8, Released DEF Fail, NoSync
  <2>. QED
    BY <1>6, <1>8, <2>1, <2>2
<1>9. ASSUME remote[o] = sync.tag, remote' = [remote EXCEPT ![o] = sync.bytes],
             sync' = [sync EXCEPT !.pc = "saveBase", !.tag = sync.bytes],
             cache' = Remember(o, sync.bytes, sync.bytes)
      PROVE  SInv' /\ BucketGrows
  <2>1. ASSUME NEW x \in Objects, NEW e \in cache'[x]
        PROVE  e \in cache[x] \/ (x = o /\ e = [tag |-> sync.bytes, bytes |-> sync.bytes])
    BY <1>9, <2>1 DEF Remember, TInv, StoreType
  <2>2. InBucket(o, sync.bytes)'
    BY <1>7, <1>9 DEF InBucket
  <2>3. CacheKnows'
    BY <1>1, <1>7, <1>9, <2>1, <2>2 DEF SInv, CacheKnows
  <2>4. sync'.pc = "saveBase" /\ sync'.obj = o /\ sync'.bytes = sync.bytes
        /\ sync'.tag = sync.bytes
    BY <1>9 DEF TInv, SyncType
  <2>5. SyncKnows'
    BY <1>1, <1>2, <1>3, <2>2, <2>4 DEF SyncKnows, InFile
  <2>. QED
    BY <1>6, <1>9, <2>3, <2>4, <2>5
<1>10. ASSUME Fail, UNCHANGED <<remote, cache>> PROVE SInv' /\ BucketGrows
  <2>1. sync'.pc = "idle"
    BY <1>10 DEF Fail, NoSync
  <2>. QED
    BY <1>4, <1>10, <2>1
<1>. QED
  BY <1>5, <1>8, <1>9, <1>10 DEF SyncPut, Object

(* save_synced_state: the base and the entry are behind both sides.        *)
LEMMA SaveKeeps == ASSUME TInv, SInv, SyncSaveBase \/ SyncSaveManifest
                   PROVE  SInv' /\ BucketGrows
<1>. DEFINE o == sync.obj
<1>1. /\ sync.pc \in {"saveBase", "saveManifest"} /\ mode = "up"
      /\ UNCHANGED <<remote, local, cache, mode, poll, issued, gone>>
  BY DEF SyncSaveBase, SyncSaveManifest, At
<1>2. o \in Objects /\ sync.bytes \in Content
  BY <1>1, CallKnows
<1>3. /\ sync.tag \in Content /\ InFile(o, sync.tag) /\ InBucket(o, sync.tag)
      /\ sync.pc = "saveBase" => InFile(o, sync.bytes) /\ InBucket(o, sync.bytes)
  BY <1>1 DEF SInv, SyncKnows
<1>4. BucketGrows
  BY <1>1 DEF BucketGrows
<1>5. CacheKnows' /\ BinaryKept'
  BY <1>1 DEF SInv, CacheKnows, BinaryKept, InBucket
<1>6. manifest \in [Objects -> Maybe] /\ base \in [Objects -> Maybe]
  BY DEF TInv, StoreType
<1>7. ASSUME SyncSaveBase
      PROVE  NothingAbsent' /\ Records' /\ SyncKnows' /\ sync'.pc = "saveManifest"
  <2>1. sync.pc = "saveBase" /\ base' = [base EXCEPT ![o] = sync.bytes] /\ UNCHANGED manifest
    BY <1>7 DEF SyncSaveBase, At, Object
  <2>2. sync'.pc = "saveManifest" /\ sync'.obj = o /\ sync'.tag = sync.tag
    BY <1>7 DEF SyncSaveBase, Go, TInv, SyncType
  <2>3. NothingAbsent' /\ Records'
    BY <1>1, <1>2, <1>3, <1>6, <2>1 DEF SInv, NothingAbsent, Records, InFile, InBucket
  <2>4. SyncKnows'
    BY <1>1, <1>3, <2>2 DEF SyncKnows, InFile, InBucket
  <2>. QED
    BY <2>2, <2>3, <2>4
<1>8. ASSUME SyncSaveManifest
      PROVE  NothingAbsent' /\ Records' /\ SyncKnows' /\ sync'.pc \in {"idle", "next"}
  <2>1. manifest' = [manifest EXCEPT ![o] = sync.tag] /\ UNCHANGED base /\ Done
    BY <1>8 DEF SyncSaveManifest, Object
  <2>2. NothingAbsent' /\ Records'
    BY <1>1, <1>2, <1>3, <1>6, <2>1 DEF SInv, NothingAbsent, Records, InFile, InBucket
  <2>. QED
    BY <2>1, <2>2, Released DEF Done
<1>9. Phases' /\ InitKnows'
  BY <1>1, <1>7, <1>8 DEF SInv, Phases, InitKnows
<1>. QED
  BY <1>4, <1>5, <1>7, <1>8, <1>9 DEF SInv

LEMMA SyncKeeps == ASSUME TInv, SInv, Sync PROVE SInv' /\ BucketGrows
<1>1. ~SyncCompare /\ ~SyncRestat /\ ~SyncStatDelete /\ ~SyncDelete
      /\ ~SyncDropLocal /\ ~SyncDropManifest /\ ~SyncDropBase
  BY DEF SInv, Phases, SyncCompare, SyncRestat, SyncStatDelete, SyncDelete, SyncDropLocal,
         SyncDropManifest, SyncDropBase, At
<1>. QED
  BY <1>1, ReadingKeeps, MergeKeeps, WriteKeeps, PutKeeps, SaveKeeps DEF Sync

(* Nothing is polled: refresh is not among the operations.                 *)
LEMMA NoRefresh == ASSUME OnlySyncs, SInv PROVE ~Refresh
BY DEF OnlySyncs, SInv, Phases, Refresh, RefreshBegin, Classified, ClassifyModified, RefreshEnd,
       ClassifyRead, ClassifyFails, ClassifyDeleted, Apply, ApplyBase, ApplyManifest, Polling

LEMMA SStep == OnlySyncs /\ TInv /\ SInv /\ [Next]_vars => SInv' /\ BucketGrows
<1>. SUFFICES ASSUME OnlySyncs, TInv, SInv, [Next]_vars PROVE SInv' /\ BucketGrows
  OBVIOUS
<1>1. CASE UNCHANGED vars
  <2>1. /\ UNCHANGED <<remote, local, manifest, base, cache, mode>>
        /\ UNCHANGED <<dirty, conflicted, sync, poll, issued, gone>>
    BY <1>1 DEF vars
  <2>2. BucketGrows /\ FileGrows
    BY <2>1 DEF BucketGrows, FileGrows
  <2>. QED
    BY <2>1, <2>2, RecordsUndisturbed, CallsUndisturbed DEF SInv, NothingAbsent, BinaryKept
<1>. QED
  BY <1>1, UserKeeps, SyncKeeps, NoRefresh, CrashKeeps, InitializeKeeps DEF Next

(* "Concurrent remote updates can never be silently overwritten"           *)
(* (README.md:144): whatever other programs write and whenever, in a       *)
(* bucket of any size and with any number of lost answers, failed          *)
(* preconditions, crashes and restarts, a sync takes out of the bucket     *)
(* only what somebody removed who knew it.                                 *)
THEOREM NothingOverwritten == OnlySyncs /\ Spec => NothingClobbered
<1>1. ASSUME OnlySyncs PROVE Spec => [](TInv /\ SInv)
  BY <1>1, TypeInit, TypeStep, SInit, SStep, PTL DEF Spec
<1>2. ASSUME OnlySyncs, TInv, SInv, TInv', [Next]_vars
      PROVE  \A o \in Objects : Bytes(remote[o]) \ Bytes(remote'[o]) \subseteq gone'
  <2>1. SInv' /\ BucketGrows
    BY <1>2, SStep
  <2>2. \A o \in Objects : Bytes(remote[o]) = remote[o] /\ Bytes(remote'[o]) = remote'[o]
    BY <1>2, <2>1, BytesId DEF SInv, NothingAbsent
  <2>. QED
    BY <2>1, <2>2 DEF BucketGrows
<1>3. ASSUME OnlySyncs PROVE Spec => NothingClobbered
  BY <1>1, <1>2, <1>3, PTL DEF Spec, NothingClobbered
<1>. QED
  BY <1>3

(* "Binary objects on S3 surface as explicit conflicts instead of          *)
(* clobbering" (README.md:144), under the same operations: an edit of an   *)
(* object that is not text is in the bucket or in the file between syncs,  *)
(* unless somebody removed it who knew it.                                 *)
THEOREM BinaryEditsKept == OnlySyncs /\ Spec => []EditsKept
<1>1. TInv /\ SInv => EditsKept
  <2>. SUFFICES ASSUME TInv, SInv PROVE EditsKept
    OBVIOUS
  <2>1. \A o \in Objects : Bytes(remote[o]) = remote[o] /\ Bytes(local[o]) = local[o]
    BY BytesId DEF SInv, NothingAbsent
  <2>2. \A w \in DOMAIN issued : issued[w] \in Objects
    BY DEF TInv, RestType
  <2>. QED
    BY <2>1, <2>2 DEF SInv, BinaryKept, EditsKept
<1>2. ASSUME OnlySyncs PROVE Spec => []EditsKept
  BY <1>1, <1>2, TypeInit, TypeStep, SInit, SStep, PTL DEF Spec
<1>. QED
  BY <1>2

(***************************************************************************)
(* What is agreed on is no conflict.  Without a cache the bytes a sync     *)
(* reads are those of the object, so the sync that agreed with the object  *)
(* finds it equal at every later step.                                     *)
(***************************************************************************)
NoBytes == \A o \in Objects : cache[o] = {}

Agreed ==
  sync.agreed =>
    /\ sync.pc \notin {"idle", "next", "read", "writeMerged", "statDelete", "delete"}
    /\ sync.pc \in {"entry", "stat", "base", "compare", "merge"} =>
         sync.mine = remote[sync.obj]
    /\ sync.pc \in {"base", "compare", "merge", "put"} => sync.tag = remote[sync.obj]

Answered ==
  \A o \in Text : o \in sync'.conflicts \ sync.conflicts => ~ sync.agreed

(* read_object_cached without a cache: the object as it is.                *)
LEMMA ReadsObject ==
  ASSUME ~ Cached, NoBytes, NEW o \in Objects, NEW tag, NEW bytes, ReadObject(o, tag, bytes)
  PROVE  bytes = remote[o] /\ UNCHANGED cache
BY DEF NoBytes, ReadObject, Known, Remember

LEMMA BytesStayAway ==
  ASSUME ~ Cached, TInv, NoBytes, [Next]_vars PROVE NoBytes'
<1>1. ASSUME NEW o, NEW tag, NEW bytes, ReadObject(o, tag, bytes) PROVE UNCHANGED cache
  BY <1>1 DEF ReadObject, Remember
<1>2. ASSUME NEW o \in Objects, Edit(o) \/ Remove(o) \/ Resolve(o) \/ Foreign(o) PROVE UNCHANGED cache
  BY <1>2 DEF Edit, Remove, Resolve, Foreign, ForeignPut
<1>3. ASSUME Sync PROVE UNCHANGED cache
  <2>1. SyncCompare => UNCHANGED cache
    BY <1>1 DEF SyncCompare
  <2>2. SyncMerge => UNCHANGED cache
    BY <1>1 DEF SyncMerge
  <2>3. SyncPut => UNCHANGED cache
    BY DEF SyncPut, Remember
  <2>. QED
    BY <1>3, <2>1, <2>2, <2>3
    DEF Sync, stores, SyncBegin, SyncNext, SyncEnd, SyncRead, SyncEntry, SyncStat, SyncBase,
        SyncRestat, SyncWriteLocal, SyncSaveBase, SyncSaveManifest, SyncStatDelete, SyncDelete,
        SyncDropLocal, SyncDropManifest, SyncDropBase
<1>4. ASSUME Refresh PROVE UNCHANGED cache
  <2>1. \A o \in Objects : ClassifyRead(o) => UNCHANGED cache
    BY <1>1 DEF ClassifyRead
  <2>. QED
    BY <1>4, <2>1 DEF Refresh, stores, RefreshBegin, Classified, ClassifyModified, RefreshEnd,
                      ClassifyFails, ClassifyDeleted, Apply, ApplyBase, ApplyManifest
<1>5. ASSUME Crash \/ Initialize PROVE UNCHANGED cache
  <2>1. \A o \in Objects : InitWrite(o) => UNCHANGED cache
    BY <1>1 DEF InitWrite
  <2>. QED
    BY <1>5, <2>1 DEF Crash, Initialize, stores, InitBegin, InitBase, InitEnd
<1>6. UNCHANGED cache
  BY <1>2, <1>3, <1>4, <1>5 DEF Next, vars
<1>. QED
  BY <1>6 DEF NoBytes

(* Where the object in work is given up, nothing is agreed on any more.    *)
LEMMA GivenUp ==
  ASSUME Fail \/ Retry \/ (\E c \in BOOLEAN : Between(c))
  PROVE  ~ sync'.agreed
<1>1. ASSUME Fail PROVE ~ sync'.agreed
  BY <1>1 DEF Fail, NoSync
<1>2. ASSUME NEW c \in BOOLEAN, Between(c) PROVE ~ sync'.agreed
  <2>. DEFINE more == sync.conflicts \cup IF c THEN {Object} ELSE {}
  <2>1. sync' = [pc |-> "next", batch |-> sync.batch, todo |-> sync.todo \ {Object},
                 conflicts |-> more, obj |-> Absent, attempt |-> 0,
                 mine |-> {}, tag |-> Absent, bytes |-> {}, agreed |-> FALSE]
    BY <1>2 DEF Between, NoSync
  <2>. HIDE DEF more
  <2>. QED
    BY <2>1
<1>3. ASSUME Retry PROVE ~ sync'.agreed
  <2>1. ASSUME sync' = [pc |-> "read", batch |-> sync.batch, todo |-> sync.todo,
                        conflicts |-> sync.conflicts, obj |-> sync.obj,
                        attempt |-> sync.attempt + 1, mine |-> {}, tag |-> Absent,
                        bytes |-> {}, agreed |-> FALSE]
        PROVE  ~ sync'.agreed
    BY <2>1
  <2>. QED
    BY <1>2, <1>3, <2>1 DEF Retry, Conflict, NoSync, Object
<1>. QED
  BY <1>1, <1>2, <1>3

(* Somebody else: only a write to the object in work disturbs it.          *)
LEMMA OthersAgree ==
  ASSUME TInv, Agreed, NEW o \in Objects, Edit(o) \/ Remove(o) \/ Resolve(o) \/ Foreign(o)
  PROVE  Agreed' /\ Answered
<1>1. /\ UNCHANGED <<sync.pc, sync.obj, sync.mine, sync.tag, sync.bytes, sync.conflicts>>
      /\ sync'.agreed => sync.agreed
  BY UserSync DEF TInv
<1>2. Answered
  BY <1>1 DEF Answered
<1>3. ASSUME UNCHANGED remote PROVE Agreed'
  BY <1>1, <1>3 DEF Agreed
<1>4. ASSUME NEW c, ForeignPut(o, c) PROVE Agreed'
  <2>1. remote' = [remote EXCEPT ![o] = c] /\ sync' = [sync EXCEPT !.agreed = @ /\ sync.obj # o]
    BY <1>4 DEF ForeignPut
  <2>2. sync'.agreed => sync.obj # o
    BY <2>1 DEF TInv, SyncType
  <2>3. sync.obj # o => remote'[sync.obj] = remote[sync.obj]
    BY <2>1 DEF TInv, StoreType
  <2>. QED
    BY <1>1, <2>2, <2>3 DEF Agreed
<1>. QED
  BY <1>2, <1>3, <1>4 DEF Edit, Remove, Resolve, Foreign

LEMMA SyncAgrees ==
  ASSUME ~ Cached, TInv, NoBytes, Agreed, Sync PROVE Agreed' /\ Answered
<1>. DEFINE o == sync.obj
            Good == Agreed' /\ Answered
<1>1. ASSUME ~ sync'.agreed, ~ sync.agreed PROVE Good
  BY <1>1 DEF Agreed, Answered
<1>2. ASSUME ~ sync'.agreed, sync'.conflicts = sync.conflicts PROVE Good
  BY <1>2 DEF Agreed, Answered
<1>3. ASSUME Fail PROVE Good
  <2>1. ~ sync'.agreed /\ sync'.conflicts = {}
    BY <1>3 DEF Fail, NoSync
  <2>. QED
    BY <2>1 DEF Agreed, Answered
<1>4. ASSUME Done PROVE Good
  <2>1. sync' = [pc |-> "next", batch |-> sync.batch, todo |-> sync.todo \ {o},
                 conflicts |-> sync.conflicts, obj |-> Absent, attempt |-> 0,
                 mine |-> {}, tag |-> Absent, bytes |-> {}, agreed |-> FALSE]
    BY <1>4 DEF Done, Between, NoSync, Object
  <2>2. ~ sync'.agreed /\ sync'.conflicts = sync.conflicts
    BY <2>1
  <2>. QED
    BY <1>2, <2>2
<1>5. ASSUME Conflict \/ Retry, ~ sync.agreed PROVE Good
  BY <1>1, <1>5, GivenUp DEF Conflict
<1>6. ASSUME UNCHANGED <<remote, sync.obj, sync.mine, sync.agreed, sync.conflicts>>,
             sync.agreed => Agreed'
      PROVE  Good
  BY <1>6 DEF Agreed, Answered
<1>7. ASSUME NEW pc \in {"accept", "saveBase", "saveManifest", "dropManifest", "dropBase"}, NEW tag, NEW bytes,
             sync' = [sync EXCEPT !.pc = pc, !.tag = tag, !.bytes = bytes]
      PROVE  Good
  <2>1. /\ sync'.pc = pc /\ UNCHANGED <<sync.agreed, sync.conflicts>>
    BY <1>7 DEF TInv, SyncType
  <2>. QED
    BY <2>1 DEF Agreed, Answered
<1>8. sync.agreed => sync.pc \notin {"idle", "next", "read", "writeMerged", "statDelete", "delete"}
  BY DEF Agreed
<1>9. sync.pc \notin {"idle", "next"} => o \in Objects
  BY DEF TInv, TagsKnown
<1>10. sync.mine # Absent
  BY BytesId DEF TInv, SyncType
<1>. HIDE DEF Good
<1>11. ASSUME SyncBegin \/ SyncEnd \/ (\E x \in Objects : SyncNext(x)) PROVE Good
  <2>1. ~ sync.agreed
    BY <1>8, <1>11 DEF SyncBegin, SyncEnd, SyncNext, At
  <2>2. ASSUME SyncBegin PROVE ~ sync'.agreed
    <3>1. sync' = [pc |-> "next", batch |-> dirty, todo |-> dirty, conflicts |-> {},
                   obj |-> Absent, attempt |-> 0, mine |-> {}, tag |-> Absent, bytes |-> {},
                   agreed |-> FALSE]
      BY <2>2 DEF SyncBegin, NoSync
    <3>. QED
      BY <3>1
  <2>3. ASSUME SyncEnd PROVE ~ sync'.agreed
    BY <2>3 DEF SyncEnd, NoSync
  <2>4. ASSUME NEW x \in Objects, SyncNext(x) PROVE ~ sync'.agreed
    BY <2>1, <2>4 DEF SyncNext, TInv, SyncType
  <2>. QED
    BY <1>1, <1>11, <2>1, <2>2, <2>3, <2>4
<1>12. ASSUME SyncRead PROVE Good
  <2>1. sync.pc = "read" /\ ~ sync.agreed /\ UNCHANGED remote
    BY <1>8, <1>12 DEF SyncRead, At, stores
  <2>2. ASSUME sync' = [sync EXCEPT !.pc = "entry", !.mine = local[Object],
                                    !.agreed = local[Object] = remote[Object]]
        PROVE  Good
    <3>1. /\ sync'.pc = "entry" /\ sync'.obj = o /\ sync'.mine = local[o]
          /\ sync'.agreed = (local[o] = remote[o])
      BY <2>2 DEF Object, TInv, SyncType
    <3>. QED
      BY <2>1, <3>1 DEF Good, Agreed, Answered
  <2>. QED
    BY <1>3, <1>12, <2>2 DEF SyncRead
<1>13. ASSUME SyncEntry PROVE Good
  <2>1. sync.pc = "entry" /\ sync' = [sync EXCEPT !.pc = "stat", !.tag = manifest[o]] /\ UNCHANGED remote
    BY <1>13 DEF SyncEntry, At, Object, stores
  <2>2. sync'.pc = "stat" /\ UNCHANGED <<sync.obj, sync.mine, sync.agreed, sync.conflicts>>
    BY <2>1 DEF TInv, SyncType
  <2>. QED
    BY <1>6, <2>1, <2>2 DEF Agreed
<1>14. ASSUME SyncStat PROVE Good
  <2>1. sync.pc = "stat" /\ UNCHANGED remote
    BY <1>14 DEF SyncStat, At, stores
  <2>2. ASSUME NEW pc \in {"base", "compare"}, sync' = [sync EXCEPT !.pc = pc, !.tag = remote[o]]
        PROVE  Good
    <3>1. sync'.pc = pc /\ sync'.tag = remote[o]
          /\ UNCHANGED <<sync.obj, sync.mine, sync.agreed, sync.conflicts>>
      BY <2>2 DEF TInv, SyncType
    <3>. QED
      BY <1>6, <2>1, <3>1 DEF Agreed
  <2>3. ASSUME sync' = [sync EXCEPT !.pc = "put", !.bytes = sync.mine], sync.tag = remote[o]
        PROVE  Good
    <3>1. sync'.pc = "put" /\ sync'.tag = remote[o]
          /\ UNCHANGED <<sync.obj, sync.mine, sync.agreed, sync.conflicts>>
      BY <2>3 DEF TInv, SyncType
    <3>. QED
      BY <1>6, <2>1, <3>1 DEF Agreed
  <2>. QED
    BY <1>3, <1>14, <2>2, <2>3 DEF SyncStat, Object
<1>15. ASSUME SyncBase PROVE Good
  <2>1. sync.pc = "base" /\ UNCHANGED remote
    BY <1>15 DEF SyncBase, At, stores
  <2>2. sync.agreed => sync.mine = remote[o] /\ sync.tag = remote[o] /\ sync.tag # Absent
    BY <1>10, <2>1 DEF Agreed
  <2>3. ASSUME sync' = [sync EXCEPT !.pc = "merge", !.bytes = Bytes(base[o])] PROVE Good
    <3>1. sync'.pc = "merge"
          /\ UNCHANGED <<sync.obj, sync.mine, sync.tag, sync.agreed, sync.conflicts>>
      BY <2>3 DEF TInv, SyncType
    <3>. QED
      BY <1>6, <2>1, <2>2, <3>1 DEF Agreed
  <2>4. ASSUME Go("dropLocal"), sync.tag = Absent PROVE Good
    <3>1. ~ sync.agreed /\ ~ sync'.agreed
      BY <2>2, <2>4 DEF Go, TInv, SyncType
    <3>. QED
      BY <1>1, <3>1
  <2>. QED
    BY <1>5, <1>15, <2>2, <2>3, <2>4 DEF SyncBase, Object
<1>16. ASSUME SyncCompare PROVE Good
  <2>1. sync.pc = "compare" /\ UNCHANGED remote
    BY <1>16 DEF SyncCompare, At
  <2>2. sync.agreed => sync.mine = remote[o] /\ sync.tag = remote[o]
    BY <2>1 DEF Agreed
  <2>3. ASSUME NEW theirs, ReadObject(o, sync.tag, theirs) PROVE theirs = remote[o]
    BY <1>9, <2>1, <2>3, ReadsObject
  <2>4. ASSUME Go("restat") PROVE Good
    <3>1. sync'.pc = "restat" /\ UNCHANGED <<sync.obj, sync.mine, sync.agreed, sync.conflicts>>
      BY <2>4 DEF Go, TInv, SyncType
    <3>. QED
      BY <1>6, <2>1, <3>1 DEF Agreed
  <2>. QED
    BY <1>3, <1>5, <1>16, <2>2, <2>3, <2>4 DEF SyncCompare, Object
<1>17. ASSUME SyncRestat PROVE Good
  BY <1>3, <1>7, <1>17 DEF SyncRestat
<1>18. ASSUME SyncMerge PROVE Good
  <2>1. sync.pc = "merge" /\ UNCHANGED remote
    BY <1>18 DEF SyncMerge, At
  <2>2. sync.agreed => sync.mine = remote[o]
    BY <2>1 DEF Agreed
  <2>3. ASSUME NEW theirs, ReadObject(o, sync.tag, theirs) PROVE theirs = remote[o]
    BY <1>9, <2>1, <2>3, ReadsObject
  <2>4. ASSUME NEW d \in Decide(o, sync.bytes, sync.mine, remote[o]),
               \/ d.act = "conflict" /\ Conflict
               \/ d.act = "upload" /\ sync' = [sync EXCEPT !.pc = "put", !.bytes = d.bytes]
               \/ d.act = "merge"  /\ sync' = [sync EXCEPT !.pc = "writeMerged", !.bytes = d.bytes]
               \/ d.act = "accept" /\ sync' = [sync EXCEPT !.pc = "accept", !.bytes = d.bytes]
               \/ d.act = "synced" /\ sync' = [sync EXCEPT !.pc = "saveBase", !.bytes = d.bytes]
        PROVE  Good
    <3>1. ASSUME sync.agreed, o \in Text PROVE d.act \in {"synced", "accept"}
      BY <2>2, <2>4, <3>1 DEF Decide
    <3>2. o \notin Text => d.act = "conflict"
      BY <2>4 DEF Decide
    <3>3. ASSUME Conflict, d.act = "conflict" PROVE Good
      <4>1. CASE o \in Text /\ sync.agreed
        BY <3>1, <3>3, <4>1
      <4>2. CASE ~ sync.agreed
        BY <1>5, <3>3, <4>2
      <4>3. CASE o \notin Text
        <5>1. sync' = [pc |-> "next", batch |-> sync.batch, todo |-> sync.todo \ {o},
                       conflicts |-> sync.conflicts \cup {o}, obj |-> Absent, attempt |-> 0,
                       mine |-> {}, tag |-> Absent, bytes |-> {}, agreed |-> FALSE]
          BY <3>3 DEF Conflict, Between, NoSync, Object
        <5>2. ~ sync'.agreed /\ sync'.conflicts = sync.conflicts \cup {o}
          BY <5>1
        <5>. QED
          BY <4>3, <5>2 DEF Good, Agreed, Answered
      <4>. QED
        BY <4>1, <4>2, <4>3
    <3>4. ASSUME NEW pc \in {"put", "writeMerged"}, NEW bytes, ~ sync.agreed,
                 sync' = [sync EXCEPT !.pc = pc, !.bytes = bytes]
          PROVE  Good
      <4>1. ~ sync'.agreed
        BY <3>4 DEF TInv, SyncType
      <4>. QED
        BY <1>1, <3>4, <4>1
    <3>5. ASSUME NEW pc \in {"accept", "saveBase"}, NEW bytes,
                 sync' = [sync EXCEPT !.pc = pc, !.bytes = bytes]
          PROVE  Good
      <4>1. sync'.pc = pc /\ UNCHANGED <<sync.agreed, sync.conflicts>>
        BY <3>5 DEF TInv, SyncType
      <4>. QED
        BY <4>1 DEF Good, Agreed, Answered
    <3>. QED
      BY <2>4, <3>1, <3>2, <3>3, <3>4, <3>5
  <2>. QED
    BY <1>3, <1>18, <2>3, <2>4 DEF SyncMerge, Object
<1>19. ASSUME SyncWriteLocal PROVE Good
  <2>1. ASSUME At("writeMerged"), Go("put") PROVE Good
    <3>1. ~ sync.agreed /\ ~ sync'.agreed
      BY <1>8, <2>1 DEF At, Go, TInv, SyncType
    <3>. QED
      BY <1>1, <3>1
  <2>2. ASSUME Go("saveBase") PROVE Good
    <3>1. sync'.pc = "saveBase" /\ UNCHANGED <<sync.agreed, sync.conflicts>>
      BY <2>2 DEF Go, TInv, SyncType
    <3>. QED
      BY <3>1 DEF Good, Agreed, Answered
  <2>. QED
    BY <1>19, <2>1, <2>2 DEF SyncWriteLocal
<1>20. ASSUME SyncPut PROVE Good
  <2>1. sync.pc = "put"
    BY <1>20 DEF SyncPut, At
  <2>2. sync.agreed => sync.tag = remote[o]
    BY <2>1 DEF Agreed
  <2>3. ASSUME sync' = [sync EXCEPT !.pc = "saveBase", !.tag = sync.bytes] PROVE Good
    <3>1. sync'.pc = "saveBase" /\ UNCHANGED <<sync.agreed, sync.conflicts>>
      BY <2>3 DEF TInv, SyncType
    <3>. QED
      BY <3>1 DEF Good, Agreed, Answered
  <2>. QED
    BY <1>3, <1>5, <1>20, <2>2, <2>3 DEF SyncPut, Object
<1>21. ASSUME SyncSaveBase \/ SyncDropLocal \/ SyncDropManifest PROVE Good
  <2>1. ASSUME NEW pc \in {"saveManifest", "dropManifest", "dropBase"}, Go(pc) PROVE Good
    <3>1. sync'.pc = pc /\ UNCHANGED <<sync.agreed, sync.conflicts>>
      BY <2>1 DEF Go, TInv, SyncType
    <3>. QED
      BY <3>1 DEF Good, Agreed, Answered
  <2>. QED
    BY <1>21, <2>1 DEF SyncSaveBase, SyncDropLocal, SyncDropManifest
<1>22. ASSUME SyncSaveManifest \/ SyncDropBase PROVE Good
  BY <1>4, <1>22 DEF SyncSaveManifest, SyncDropBase
<1>23. ASSUME SyncStatDelete \/ SyncDelete PROVE Good
  <2>1. ~ sync.agreed
    BY <1>8, <1>23 DEF SyncStatDelete, SyncDelete, At
  <2>2. ASSUME NEW pc \in {"delete", "dropManifest"}, Go(pc) PROVE Good
    <3>1. ~ sync'.agreed
      BY <2>1, <2>2 DEF Go, TInv, SyncType
    <3>. QED
      BY <1>1, <2>1, <3>1
  <2>. QED
    BY <1>3, <1>5, <1>23, <2>1, <2>2 DEF SyncStatDelete, SyncDelete
<1>. QED
  BY <1>11, <1>12, <1>13, <1>14, <1>15, <1>16, <1>17, <1>18, <1>19, <1>20, <1>21, <1>22, <1>23
  DEF Sync, Good

LEMMA AStep ==
  ASSUME ~ Cached, TInv, NoBytes, Agreed, [Next]_vars PROVE Agreed' /\ Answered
<1>1. CASE UNCHANGED <<remote, sync>>
  BY <1>1 DEF Agreed, Answered
<1>2. CASE Crash
  <2>1. ~ sync'.agreed /\ sync'.conflicts = {}
    BY <1>2 DEF Crash, NoSync
  <2>. QED
    BY <2>1 DEF Agreed, Answered
<1>3. ASSUME Refresh PROVE UNCHANGED <<remote, sync>>
  BY <1>3 DEF Refresh, RefreshBegin, Classified, ClassifyModified, RefreshEnd, ClassifyRead,
              ClassifyFails, ClassifyDeleted, Apply, ApplyBase, ApplyManifest, stores
<1>4. ASSUME Initialize PROVE UNCHANGED <<remote, sync>>
  BY <1>4 DEF Initialize, InitBegin, InitWrite, InitBase, InitEnd, stores
<1>. QED
  BY <1>1, <1>2, <1>3, <1>4, OthersAgree, SyncAgrees DEF Next, vars

(* "The user must overwrite with the desired side and run sync again"      *)
(* (mount-s3.md:65), without a cache: whatever others do and whatever else *)
(* the program does, a text the sync read equal to its object is not       *)
(* reported as a conflict before somebody writes the object again.         *)
THEOREM AgreedIsNoConflict == ~ Cached /\ Spec => AgreementIsNoConflict
<1>1. Init => NoBytes /\ Agreed
  BY DEF Init, NoSync, NoBytes, Agreed
<1>2. ASSUME ~ Cached, TInv, NoBytes, Agreed, [Next]_vars
      PROVE  NoBytes' /\ Agreed' /\ Answered
  BY <1>2, BytesStayAway, AStep
<1>3. ASSUME ~ Cached PROVE Spec => [](TInv /\ NoBytes /\ Agreed)
  BY <1>1, <1>2, <1>3, TypeInit, TypeStep, PTL DEF Spec
<1>4. ASSUME ~ Cached PROVE Spec => AgreementIsNoConflict
  BY <1>2, <1>3, <1>4, PTL DEF Spec, AgreementIsNoConflict, Answered
<1>. QED
  BY <1>4
================================================================================
