------------------------- MODULE PersistentCacheProofs -------------------------
(***************************************************************************)
(* Proofs about the persistent cache, for every set of processes and keys, *)
(* every budget and any number of puts and crashes.                        *)
(***************************************************************************)
EXTENDS PersistentCache, TLAPS, FiniteSetTheorems, FunctionTheorems, SequenceTheorems

PutSteps == {"exists", "create", "fill", "rename", "count"}
Working(p) == putter[p].step \in PutSteps

(***************************************************************************)
(* Types.                                                                  *)
(***************************************************************************)
LEMMA TypeInit == Init => TypeOK
<1>. SUFFICES ASSUME Init PROVE TypeOK
  OBVIOUS
<1>1. Visible = {}
  BY DEF Init, Visible
<1>2. blobs \in [Visible -> Bytes \cup {Partial}]
  BY <1>1 DEF Init, Visible
<1>3. /\ proc \in [Processes -> [at : {"off", "opened", "marking", "up"}]]
      /\ putter \in [Processes -> {NoPut}]
      /\ counter \in [Processes -> 0..(Interval - 1)]
      /\ bounds \in [puts : 0..MaxPuts, crashes : 0..MaxCrashes]
      /\ issued \in [Keys -> SUBSET Bytes]
  BY CacheAssumption DEF Init
<1>4. marker \in {"absent", "torn", "old", "v1"} /\ old \in BOOLEAN /\ tmps = {}
  BY DEF Init
<1>. QED
  BY <1>1, <1>2, <1>3, <1>4 DEF TypeOK

LEMMA DropTypes ==
  ASSUME TypeOK, NEW k, Drop(k)
  PROVE  /\ blobs' \in [Visible' -> Bytes \cup {Partial}]
         /\ Visible' = Visible \ {k}
         /\ \A x \in Visible' : blobs'[x] = blobs[x]
BY DEF TypeOK, Drop, Visible

LEMMA PublishTypes ==
  ASSUME TypeOK, NEW k \in Keys, NEW b \in Bytes \cup {Partial}, Publish(k, b)
  PROVE  /\ blobs' \in [Visible' -> Bytes \cup {Partial}]
         /\ Visible' = Visible \cup {k}
         /\ blobs'[k] = b
         /\ \A x \in Visible : x # k => blobs'[x] = blobs[x]
BY DEF TypeOK, Publish, Visible

LEMMA TypeStep == TypeOK /\ [Next]_vars => TypeOK'
<1>. SUFFICES ASSUME TypeOK, [Next]_vars PROVE TypeOK'
  OBVIOUS
<1>. USE CacheAssumption
<1>1. CASE UNCHANGED vars
  BY <1>1 DEF vars, disk, TypeOK, Visible
<1>2. ASSUME NEW p \in Processes, OpenCheck(p) PROVE TypeOK'
  <2>1. TmpNames \in SUBSET Nat
    BY DEF TypeOK, TmpNames
  <2>2. proc' \in [Processes -> [at : {"off", "opened", "marking", "up"}] \cup
                 [at : {"wiping"}, old : BOOLEAN, keys : SUBSET Keys, tmps : SUBSET Nat]]
    BY <1>2, <2>1 DEF OpenCheck, TypeOK
  <2>. QED
    BY <1>2, <2>2 DEF OpenCheck, disk, TypeOK, Visible
<1>3. ASSUME NEW p \in Processes, WipeEntry(p) PROVE TypeOK'
  <2>. DEFINE Dying == [at : {"wiping"}, old : BOOLEAN, keys : SUBSET Keys, tmps : SUBSET Nat]
  <2>1. proc[p] \in Dying
    BY <1>3 DEF WipeEntry, TypeOK
  <2>2. proc' \in [Processes -> [at : {"off", "opened", "marking", "up"}] \cup Dying]
    <3>1. CASE proc' = [proc EXCEPT ![p].old = FALSE]
      BY <2>1, <3>1 DEF TypeOK
    <3>2. ASSUME NEW k, proc' = [proc EXCEPT ![p].keys = @ \ {k}]
          PROVE  proc' \in [Processes -> [at : {"off", "opened", "marking", "up"}] \cup Dying]
      BY <2>1, <3>2 DEF TypeOK
    <3>3. ASSUME NEW n, proc' = [proc EXCEPT ![p].tmps = @ \ {n}]
          PROVE  proc' \in [Processes -> [at : {"off", "opened", "marking", "up"}] \cup Dying]
      BY <2>1, <3>3 DEF TypeOK
    <3>. QED
      BY <1>3, <3>1, <3>2, <3>3 DEF WipeEntry
  <2>3. blobs' \in [Visible' -> Bytes \cup {Partial}] /\ Visible' \subseteq Keys
    <3>1. CASE blobs' = blobs
      BY <3>1 DEF TypeOK, Visible
    <3>2. ASSUME NEW k \in proc[p].keys, Drop(k)
          PROVE  blobs' \in [Visible' -> Bytes \cup {Partial}] /\ Visible' \subseteq Keys
      BY <3>2, DropTypes DEF TypeOK
    <3>. QED
      BY <1>3, <3>1, <3>2 DEF WipeEntry
  <2>4. tmps' \subseteq tmps /\ old' \in BOOLEAN
    BY <1>3 DEF WipeEntry, TypeOK
  <2>. QED
    BY <1>3, <2>2, <2>3, <2>4 DEF WipeEntry, TypeOK
<1>4. ASSUME NEW p \in Processes,
             WipeFails(p) \/ TruncateMarker(p) \/ WriteMarker(p) \/ OpenDone(p)
      PROVE  TypeOK'
  BY <1>4 DEF WipeFails, TruncateMarker, WriteMarker, OpenDone, disk, TypeOK, Visible
<1>5. ASSUME NEW p \in Processes, NEW k \in Keys, NEW b \in Bytes, PutBegin(p, k, b)
      PROVE  TypeOK'
  BY <1>5 DEF PutBegin, disk, TypeOK, Visible
<1>6. ASSUME NEW p \in Processes, PutExists(p) PROVE TypeOK'
  BY <1>6 DEF PutExists, TypeOK, Visible, NoPut
<1>7. ASSUME NEW p \in Processes, PutCreateTmp(p) PROVE TypeOK'
  <2>1. /\ putter[p].put \in Nat /\ putter[p].key \in Keys
    BY <1>7 DEF PutCreateTmp, TypeOK, NoPut
  <2>2. putter' \in [Processes -> {NoPut} \cup
                   [step : PutSteps, put : Nat, key : Keys, bytes : Bytes]]
    BY <1>7 DEF PutCreateTmp, TypeOK, NoPut, PutSteps
  <2>. QED
    BY <1>7, <2>1, <2>2 DEF PutCreateTmp, TypeOK, Visible, PutSteps
<1>8. ASSUME NEW p \in Processes, PutFillTmp(p) PROVE TypeOK'
  <2>1. putter[p].bytes \in Bytes
    BY <1>8 DEF PutFillTmp, TypeOK, NoPut
  <2>2. putter' \in [Processes -> {NoPut} \cup
                   [step : PutSteps, put : Nat, key : Keys, bytes : Bytes]]
    BY <1>8 DEF PutFillTmp, TypeOK, NoPut, PutSteps
  <2>3. tmps' \subseteq [put : Nat, key : Keys, bytes : Bytes \cup {Partial}]
    BY <1>8, <2>1 DEF PutFillTmp, TypeOK
  <2>. QED
    BY <1>8, <2>2, <2>3 DEF PutFillTmp, TypeOK, Visible, PutSteps
<1>9. ASSUME NEW p \in Processes, PutRename(p) PROVE TypeOK'
  <2>1. putter[p].key \in Keys
    BY <1>9 DEF PutRename, TypeOK, NoPut
  <2>2. putter' \in [Processes -> {NoPut} \cup
                   [step : PutSteps, put : Nat, key : Keys, bytes : Bytes]]
    BY <1>9 DEF PutRename, TypeOK, NoPut, PutSteps
  <2>3. /\ blobs' \in [Visible' -> Bytes \cup {Partial}] /\ Visible' \subseteq Keys
        /\ tmps' \subseteq tmps
    <3>1. CASE UNCHANGED <<tmps, blobs>>
      BY <3>1 DEF TypeOK, Visible
    <3>2. ASSUME NEW f \in tmps, Publish(putter[p].key, f.bytes), tmps' = tmps \ {f}
          PROVE  /\ blobs' \in [Visible' -> Bytes \cup {Partial}] /\ Visible' \subseteq Keys
                 /\ tmps' \subseteq tmps
      <4>1. f.bytes \in Bytes \cup {Partial}
        BY DEF TypeOK
      <4>. QED
        BY <2>1, <3>2, <4>1, PublishTypes DEF TypeOK
    <3>. QED
      BY <1>9, <3>1, <3>2 DEF PutRename
  <2>. QED
    BY <1>9, <2>2, <2>3 DEF PutRename, TypeOK, PutSteps
<1>10. ASSUME NEW p \in Processes, PutCount(p) PROVE TypeOK'
  <2>1. counter' \in [Processes -> 0..(Interval - 1)]
    BY <1>10 DEF PutCount, TypeOK
  <2>. QED
    BY <1>10, <2>1 DEF PutCount, disk, TypeOK, Visible
<1>11. ASSUME NEW p \in Processes, NEW k \in Keys, GetTouch(p, k) PROVE TypeOK'
  BY <1>11 DEF GetTouch, TypeOK, Visible
<1>12. ASSUME NEW p \in Processes, Evict(p) PROVE TypeOK'
  <2>1. CASE EvictCollect(p) \/ EvictFails(p) \/ EvictEnd(p)
    BY <2>1 DEF EvictCollect, EvictFails, EvictEnd, disk, TypeOK, Visible
  <2>2. CASE EvictRemove(p)
    <3>1. blobs' \in [Visible' -> Bytes \cup {Partial}] /\ Visible' \subseteq Keys
      <4>1. CASE blobs' = blobs
        BY <4>1 DEF TypeOK, Visible
      <4>2. CASE Drop(Head(evictor[p].files))
        BY <4>2, DropTypes DEF TypeOK
      <4>. QED
        BY <2>2, <4>1, <4>2 DEF EvictRemove
    <3>. QED
      BY <2>2, <3>1 DEF EvictRemove, TypeOK
  <2>. QED
    BY <1>12, <2>1, <2>2 DEF Evict
<1>13. ASSUME NEW p \in Processes, Crash(p) PROVE TypeOK'
  BY <1>13 DEF Crash, Die, disk, TypeOK, Visible
<1>. QED
  BY <1>1, <1>2, <1>3, <1>4, <1>5, <1>6, <1>7, <1>8, <1>9, <1>10, <1>11, <1>12, <1>13
     DEF Next, Opening, Put

(* The variables keep their types whatever the processes do and whenever   *)
(* they die.                                                               *)
THEOREM CacheTypeCorrect == Spec => []TypeOK
BY TypeInit, TypeStep, PTL DEF Spec

(***************************************************************************)
(* The marker.  Whoever is past the last entry of its wipe, or is writing  *)
(* the marker, has seen that nothing of an older schema is left; and       *)
(* nothing brings it back.                                                 *)
(***************************************************************************)
WipeCovers ==
  /\ \A p \in Processes : proc[p].at = "wiping" /\ ~proc[p].old => ~old
  /\ \A p \in Processes : proc[p].at = "marking" => ~old

MarkerInv == TypeOK /\ WipeCovers /\ MarkerMeansWiped

LEMMA MarkerInit == Init => MarkerInv
<1>. SUFFICES ASSUME Init PROVE MarkerInv
  OBVIOUS
<1>1. WipeCovers /\ MarkerMeansWiped
  BY DEF Init, WipeCovers, MarkerMeansWiped
<1>. QED
  BY <1>1, TypeInit DEF MarkerInv

LEMMA MarkerStep == MarkerInv /\ [Next]_vars => MarkerInv'
<1>. SUFFICES ASSUME MarkerInv, [Next]_vars PROVE MarkerInv'
  OBVIOUS
<1>. USE DEF WipeCovers, MarkerMeansWiped
<1>0. TypeOK /\ TypeOK' /\ WipeCovers /\ MarkerMeansWiped
  BY TypeStep DEF MarkerInv
<1>1. SUFFICES WipeCovers' /\ MarkerMeansWiped'
  BY <1>0 DEF MarkerInv
<1>2. CASE UNCHANGED <<marker, old, proc>>
  BY <1>0, <1>2
<1>3. ASSUME NEW p \in Processes, OpenCheck(p)
      PROVE  WipeCovers' /\ MarkerMeansWiped'
  BY <1>0, <1>3 DEF OpenCheck, disk, TypeOK
<1>4. ASSUME NEW p \in Processes, WipeEntry(p)
      PROVE  WipeCovers' /\ MarkerMeansWiped'
  <2>1. proc \in [Processes -> [at : {"off", "opened", "marking", "up"}] \cup
           [at : {"wiping"}, old : BOOLEAN, keys : SUBSET Keys, tmps : SUBSET Nat]]
    BY <1>0 DEF TypeOK
  <2>2. proc[p] \in [at : {"wiping"}, old : BOOLEAN, keys : SUBSET Keys, tmps : SUBSET Nat]
    BY <1>4, <2>1 DEF WipeEntry
  <2>3. /\ \A q \in Processes \ {p} : proc'[q] = proc[q]
        /\ proc[p].at = "wiping" /\ proc'[p].at = "wiping" /\ marker' = marker
    BY <1>4, <2>1, <2>2 DEF WipeEntry
  <2>4. CASE ~old'
    BY <2>3, <2>4
  <2>5. CASE old' = old /\ proc'[p].old = proc[p].old
    <3>1. \A q \in Processes : proc'[q].at = proc[q].at
      BY <2>3
    <3>2. \A q \in Processes : proc'[q].at = "wiping" => proc'[q].old = proc[q].old
      BY <2>3, <2>5
    <3>. QED
      BY <1>0, <2>3, <2>5, <3>1, <3>2
  <2>. QED
    BY <1>4, <2>1, <2>2, <2>4, <2>5 DEF WipeEntry
<1>5. ASSUME NEW p \in Processes, WipeFails(p) \/ OpenDone(p) \/ Crash(p)
      PROVE  WipeCovers' /\ MarkerMeansWiped'
  BY <1>0, <1>5 DEF WipeFails, OpenDone, Crash, Die, disk, TypeOK
<1>6. ASSUME NEW p \in Processes, TruncateMarker(p)
      PROVE  WipeCovers' /\ MarkerMeansWiped'
  BY <1>0, <1>6 DEF TruncateMarker, TypeOK
<1>7. ASSUME NEW p \in Processes, WriteMarker(p)
      PROVE  WipeCovers' /\ MarkerMeansWiped'
  BY <1>0, <1>7 DEF WriteMarker, TypeOK
<1>8. ASSUME NEW p \in Processes, NEW k \in Keys,
             (\E b \in Bytes : PutBegin(p, k, b)) \/ Put(p) \/ GetTouch(p, k) \/ Evict(p)
      PROVE  UNCHANGED <<marker, old, proc>>
  BY <1>8 DEF PutBegin, Put, PutExists, PutCreateTmp, PutFillTmp, PutRename, PutCount,
              GetTouch, Evict, EvictCollect, EvictFails, EvictRemove, EvictEnd, disk
<1>9. ASSUME NEW p \in Processes, Put(p) \/ Evict(p)
      PROVE  UNCHANGED <<marker, old, proc>>
  BY <1>9 DEF Put, PutExists, PutCreateTmp, PutFillTmp, PutRename, PutCount,
              Evict, EvictCollect, EvictFails, EvictRemove, EvictEnd, disk
<1>. QED
  BY <1>2, <1>3, <1>4, <1>5, <1>6, <1>7, <1>8, <1>9 DEF Next, Opening, vars, disk

(* Nothing of an older schema is left once the marker names this one,      *)
(* whoever opens the cache and dies within the wipe, and when.             *)
THEOREM MarkerVouchesForWipe == Spec => []MarkerMeansWiped
<1>1. MarkerInv => MarkerMeansWiped
  BY DEF MarkerInv
<1>. QED
  BY MarkerInit, MarkerStep, <1>1, PTL DEF Spec

(***************************************************************************)
(* The blobs.  A put works under a number of its own; the temporary file   *)
(* of that number belongs to its key and, once the put is at the rename,   *)
(* holds all of its bytes.                                                 *)
(***************************************************************************)
PutsIssued ==
  \A p \in Processes : Working(p) =>
    /\ putter[p].bytes \in issued[putter[p].key]
    /\ putter[p].put < bounds.puts

PutsDistinct ==
  \A p, q \in Processes : Working(p) /\ Working(q) /\ p # q => putter[p].put # putter[q].put

TmpsBelongToPuts ==
  \A f \in tmps :
    /\ f.put < bounds.puts
    /\ \A p \in Processes : Working(p) /\ putter[p].put = f.put =>
         /\ putter[p].step \notin {"exists", "create"}
         /\ f.key = putter[p].key
         /\ putter[p].step = "rename" => f.bytes = putter[p].bytes

BlobInv == TypeOK /\ PutsIssued /\ PutsDistinct /\ TmpsBelongToPuts /\ BlobsAreWhole

LEMMA BlobInit == Init => BlobInv
<1>. SUFFICES ASSUME Init PROVE BlobInv
  OBVIOUS
<1>1. Visible = {} /\ tmps = {}
  BY DEF Init, Visible
<1>2. \A p \in Processes : ~Working(p)
  BY DEF Init, Working, NoPut, PutSteps
<1>3. PutsIssued /\ PutsDistinct
  BY <1>2 DEF PutsIssued, PutsDistinct
<1>4. TmpsBelongToPuts /\ BlobsAreWhole
  BY <1>1 DEF TmpsBelongToPuts, BlobsAreWhole
<1>. QED
  BY <1>3, <1>4, TypeInit DEF BlobInv

LEMMA BlobStep == BlobInv /\ [Next]_vars => BlobInv'
<1>. SUFFICES ASSUME BlobInv, [Next]_vars PROVE BlobInv'
  OBVIOUS
<1>. DEFINE Goal == PutsIssued /\ PutsDistinct /\ TmpsBelongToPuts /\ BlobsAreWhole
<1>0. TypeOK /\ TypeOK' /\ Goal
  BY TypeStep DEF BlobInv
<1>1. SUFFICES Goal'
  BY <1>0 DEF BlobInv
<1>. USE DEF PutsIssued, PutsDistinct, TmpsBelongToPuts, BlobsAreWhole, Working, PutSteps
(* Steps that leave the puts alone and remove files at most.               *)
<1>2. CASE /\ UNCHANGED <<putter, bounds, issued>>
           /\ tmps' \subseteq tmps
           /\ Visible' \subseteq Visible
           /\ \A k \in Visible' : blobs'[k] = blobs[k]
  BY <1>0, <1>2
<1>3. ASSUME NEW p \in Processes, WipeEntry(p) \/ EvictRemove(p) PROVE Goal'
  <2>1. ASSUME NEW k, Drop(k)
        PROVE  Visible' \subseteq Visible /\ \A x \in Visible' : blobs'[x] = blobs[x]
    BY <1>0, <2>1, DropTypes
  <2>2. CASE UNCHANGED blobs
    BY <1>2, <1>3, <2>2 DEF WipeEntry, EvictRemove, Visible
  <2>. QED
    BY <1>2, <1>3, <2>1, <2>2 DEF WipeEntry, EvictRemove
<1>4. ASSUME NEW p \in Processes,
             OpenCheck(p) \/ WipeFails(p) \/ TruncateMarker(p) \/ WriteMarker(p) \/ OpenDone(p)
      PROVE  Goal'
  BY <1>2, <1>4 DEF OpenCheck, WipeFails, TruncateMarker, WriteMarker, OpenDone, disk, Visible
<1>5. ASSUME NEW p \in Processes, NEW k \in Keys, NEW b \in Bytes, PutBegin(p, k, b)
      PROVE  Goal'
  <2>1. /\ bounds.puts \in Nat /\ bounds'.puts = bounds.puts + 1
        /\ putter'[p] = [step |-> "exists", put |-> bounds.puts, key |-> k, bytes |-> b]
        /\ \A q \in Processes \ {p} : putter'[q] = putter[q]
        /\ \A x \in Keys : issued[x] \subseteq issued'[x]
        /\ b \in issued'[k]
        /\ UNCHANGED <<tmps, blobs>>
    BY <1>0, <1>5 DEF PutBegin, TypeOK, disk
  <2>2. \A q \in Processes : Working(q) => putter[q].key \in Keys /\ putter[q].put \in Nat
    BY <1>0 DEF TypeOK, NoPut
  <2>3. \A f \in tmps : f.put \in Nat
    BY <1>0 DEF TypeOK
  <2>4. Visible' = Visible /\ Visible \subseteq Keys
    BY <1>0, <2>1 DEF Visible, TypeOK
  <2>5. PutsIssued'
    BY <1>0, <2>1, <2>2
  <2>6. PutsDistinct'
    BY <1>0, <2>1, <2>2
  <2>7. TmpsBelongToPuts'
    BY <1>0, <2>1, <2>2, <2>3
  <2>8. BlobsAreWhole'
    BY <1>0, <2>1, <2>4
  <2>. QED
    BY <2>5, <2>6, <2>7, <2>8
<1>6. ASSUME NEW p \in Processes, PutExists(p) \/ PutCreateTmp(p) \/ PutFillTmp(p)
      PROVE  /\ putter'[p].put = putter[p].put /\ putter'[p].key = putter[p].key
             /\ putter'[p].bytes = putter[p].bytes /\ Working(p) /\ Working(p)'
             /\ \A q \in Processes \ {p} : putter'[q] = putter[q]
             /\ UNCHANGED <<blobs, bounds, issued>>
             /\ Visible' = Visible
  BY <1>0, <1>6 DEF PutExists, PutCreateTmp, PutFillTmp, TypeOK, NoPut, Visible
<1>7. ASSUME NEW p \in Processes, PutExists(p) \/ PutCreateTmp(p) \/ PutFillTmp(p)
      PROVE  PutsIssued' /\ PutsDistinct' /\ BlobsAreWhole'
  BY <1>0, <1>6, <1>7
<1>8. ASSUME NEW p \in Processes, PutExists(p) PROVE TmpsBelongToPuts'
  <2>1. putter[p].step = "exists" /\ tmps' = tmps
    BY <1>8 DEF PutExists
  <2>. QED
    BY <1>0, <1>6, <1>8, <2>1
<1>9. ASSUME NEW p \in Processes, PutCreateTmp(p) PROVE TmpsBelongToPuts'
  <2>1. /\ putter[p].step = "create" /\ putter'[p].step = "fill"
        /\ tmps' = tmps \cup {[put |-> putter[p].put, key |-> putter[p].key, bytes |-> Partial]}
    BY <1>0, <1>9 DEF PutCreateTmp, TypeOK, NoPut
  <2>. QED
    BY <1>0, <1>6, <1>9, <2>1
<1>10. ASSUME NEW p \in Processes, PutFillTmp(p) PROVE TmpsBelongToPuts'
  <2>1. /\ putter[p].step = "fill" /\ putter'[p].step = "rename"
        /\ \A f \in tmps' : \E g \in tmps :
             /\ f.put = g.put /\ f.key = g.key
             /\ f.bytes = IF g.put = putter[p].put THEN putter[p].bytes ELSE g.bytes
    BY <1>0, <1>10 DEF PutFillTmp, TypeOK, NoPut
  <2>. QED
    BY <1>0, <1>6, <1>10, <2>1
<1>11. ASSUME NEW p \in Processes, PutRename(p) PROVE Goal'
  <2>1. /\ putter[p].step = "rename" /\ putter[p].key \in Keys
        /\ putter'[p] \in {NoPut, [putter[p] EXCEPT !.step = "count"]}
        /\ \A q \in Processes \ {p} : putter'[q] = putter[q]
        /\ UNCHANGED <<bounds, issued>> /\ tmps' \subseteq tmps
    BY <1>0, <1>11 DEF PutRename, TypeOK, NoPut
  <2>2. /\ putter'[p].step \in {"none", "count"}
        /\ putter'[p].step = "count" =>
             /\ putter'[p].put = putter[p].put /\ putter'[p].key = putter[p].key
             /\ putter'[p].bytes = putter[p].bytes
    BY <1>0, <2>1 DEF TypeOK, NoPut
  <2>3. PutsIssued' /\ PutsDistinct' /\ TmpsBelongToPuts'
    BY <1>0, <2>1, <2>2
  <2>4. ASSUME blobs' = blobs PROVE BlobsAreWhole'
    BY <1>0, <2>1, <2>4 DEF Visible
  <2>5. ASSUME NEW f \in tmps, f.put = putter[p].put, Publish(putter[p].key, f.bytes)
        PROVE  BlobsAreWhole'
    <3>1. f.bytes = putter[p].bytes /\ f.bytes \in Bytes \cup {Partial}
      BY <1>0, <2>1, <2>5 DEF TypeOK
    <3>2. /\ Visible' = Visible \cup {putter[p].key} /\ blobs'[putter[p].key] = f.bytes
          /\ \A x \in Visible : x # putter[p].key => blobs'[x] = blobs[x]
      BY <1>0, <2>1, <2>5, <3>1, PublishTypes
    <3>. QED
      BY <1>0, <2>1, <3>1, <3>2
  <2>6. BlobsAreWhole'
    BY <1>11, <2>4, <2>5 DEF PutRename
  <2>. QED
    BY <2>3, <2>6
<1>12. ASSUME NEW p \in Processes, PutCount(p) PROVE Goal'
  <2>1. /\ putter'[p].step = "none"
        /\ \A q \in Processes \ {p} : putter'[q] = putter[q]
        /\ UNCHANGED <<tmps, blobs, bounds, issued>>
    BY <1>0, <1>12 DEF PutCount, TypeOK, NoPut, disk
  <2>. QED
    BY <1>0, <2>1 DEF Visible
<1>13. ASSUME NEW p \in Processes, NEW k \in Keys, GetTouch(p, k) PROVE Goal'
  BY <1>2, <1>13 DEF GetTouch, Visible
<1>14. ASSUME NEW p \in Processes, EvictCollect(p) \/ EvictFails(p) \/ EvictEnd(p) PROVE Goal'
  BY <1>2, <1>14 DEF EvictCollect, EvictFails, EvictEnd, disk, Visible
<1>15. ASSUME NEW p \in Processes, Crash(p) PROVE Goal'
  <2>1. /\ putter'[p].step = "none"
        /\ \A q \in Processes \ {p} : putter'[q] = putter[q]
        /\ bounds'.puts = bounds.puts
        /\ UNCHANGED <<tmps, blobs, issued>>
    BY <1>0, <1>15 DEF Crash, Die, TypeOK, NoPut, disk
  <2>2. PutsIssued' /\ PutsDistinct' /\ TmpsBelongToPuts'
    BY <1>0, <2>1
  <2>3. BlobsAreWhole'
    BY <1>0, <2>1 DEF Visible
  <2>. QED
    BY <2>2, <2>3
<1>16. CASE UNCHANGED vars
  BY <1>2, <1>16 DEF vars, disk, Visible
<1>. QED
  BY <1>3, <1>4, <1>5, <1>7, <1>8, <1>9, <1>10, <1>11, <1>12, <1>13, <1>14, <1>15, <1>16
     DEF Next, Opening, Put, Evict

(* Every reader finds all the bytes somebody put under the key, although   *)
(* puts, wipes, evictions and deaths interleave at every call.             *)
THEOREM BlobsStayWhole == Spec => []BlobsAreWhole
<1>1. BlobInv => BlobsAreWhole
  BY DEF BlobInv
<1>. QED
  BY BlobInit, BlobStep, <1>1, PTL DEF Spec

(***************************************************************************)
(* The order of the blobs and the evictions.  The order has every blob     *)
(* once.  An eviction nobody interfered with works on the order as it is,  *)
(* and has as many blobs left to remove as are over the budget; only a     *)
(* process that is up has one, so a wipe never meets an eviction of its    *)
(* own process.                                                            *)
(***************************************************************************)
Lists(s, S) ==
  /\ s \in Seq(Keys)
  /\ \A i, j \in 1..Len(s) : s[i] = s[j] => i = j
  /\ \A i \in 1..Len(s) : s[i] \in S
  /\ \A k \in S : \E i \in 1..Len(s) : s[i] = k

Removal == [step : {"removing"}, files : Seq(Keys), over : Nat, undisturbed : BOOLEAN]

EvictorTypes == evictor \in [Processes -> {NoEviction} \cup [step : {"collect"}] \cup Removal]

UpOnly ==
  \A p \in Processes : ~Up(p) => evictor[p] = NoEviction /\ putter[p] = NoPut

Undisturbed ==
  \A p \in Processes : evictor[p].step = "removing" /\ evictor[p].undisturbed =>
    evictor[p].files = lru /\ evictor[p].over + MaxBlobs = Len(lru)

LruInv == TypeOK /\ Lists(lru, Visible) /\ EvictorTypes /\ UpOnly /\ Undisturbed

LEMMA RemoveAtIs ==
  ASSUME NEW s \in Seq(Keys), NEW i \in 1..Len(s)
  PROVE  /\ RemoveAt(s, i) \in Seq(Keys)
         /\ Len(RemoveAt(s, i)) = Len(s) - 1
         /\ \A j \in 1..(Len(s) - 1) : RemoveAt(s, i)[j] = IF j < i THEN s[j] ELSE s[j + 1]
<1>. DEFINE a == SubSeq(s, 1, i - 1)
            b == SubSeq(s, i + 1, Len(s))
<1>1. /\ a \in Seq(Keys) /\ Len(a) = i - 1
      /\ \A j \in 1..(i - 1) : a[j] = s[j]
  OBVIOUS
<1>2. /\ b \in Seq(Keys) /\ Len(b) = Len(s) - i
      /\ \A j \in 1..(Len(s) - i) : b[j] = s[i + j]
  OBVIOUS
<1>3. RemoveAt(s, i) = a \o b
  BY DEF RemoveAt
<1>. HIDE DEF a, b
<1>4. a \o b \in Seq(Keys) /\ Len(a \o b) = Len(s) - 1
  <2>1. Len(a \o b) = Len(a) + Len(b) /\ a \o b \in Seq(Keys)
    BY <1>1, <1>2, ConcatProperties
  <2>2. Len(s) \in Nat /\ (i - 1) + (Len(s) - i) = Len(s) - 1
    OBVIOUS
  <2>. QED
    BY <1>1, <1>2, <2>1, <2>2
<1>5. \A j \in 1..(Len(s) - 1) : (a \o b)[j] = IF j < i THEN s[j] ELSE s[j + 1]
  <2>1. ASSUME NEW j \in 1..(Len(s) - 1), j < i PROVE (a \o b)[j] = s[j]
    BY <1>1, <1>2, <2>1
  <2>2. ASSUME NEW j \in 1..(Len(s) - 1), ~(j < i) PROVE (a \o b)[j] = s[j + 1]
    <3>1. (a \o b)[j] = b[j - (i - 1)]
      BY <1>1, <1>2, <2>2
    <3>2. j - (i - 1) \in 1..(Len(s) - i) /\ i + (j - (i - 1)) = j + 1
      BY <2>2
    <3>. QED
      BY <1>2, <3>1, <3>2
  <2>. QED
    BY <2>1, <2>2
<1>. QED
  BY <1>3, <1>4, <1>5

(* Without its one place, the order lists the other blobs.                 *)
LEMMA WithoutIs ==
  ASSUME NEW S, Lists(lru, S), NEW k
  PROVE  /\ k \notin S => Without(k) = lru
         /\ k \in S => \E i \in 1..Len(lru) : lru[i] = k /\ Without(k) = RemoveAt(lru, i)
<1>1. ASSUME k \notin S PROVE Without(k) = lru
  BY <1>1 DEF Without, RemoveFirst, Lists
<1>2. ASSUME k \in S
      PROVE  \E i \in 1..Len(lru) : lru[i] = k /\ Without(k) = RemoveAt(lru, i)
  <2>1. PICK i \in 1..Len(lru) : lru[i] = k
    BY <1>2 DEF Lists
  <2>2. {j \in 1..Len(lru) : lru[j] = k} = {i}
    BY <2>1 DEF Lists
  <2>3. Min({i}) = i
    BY DEF Min
  <2>4. SelectInSeq(lru, LAMBDA v : v = k) = i
    BY <2>2, <2>3 DEF SelectInSeq
  <2>5. Without(k) = RemoveAt(lru, i)
    BY <2>1, <2>4 DEF Without, RemoveFirst
  <2>. QED
    BY <2>1, <2>5
<1>. QED
  BY <1>1, <1>2

LEMMA WithoutLists ==
  ASSUME NEW S, Lists(lru, S), NEW k
  PROVE  Lists(Without(k), S \ {k}) /\ (k \in S => Len(Without(k)) = Len(lru) - 1)
<1>1. CASE k \notin S
  BY <1>1, WithoutIs DEF Lists
<1>2. CASE k \in S
  <2>1. PICK i \in 1..Len(lru) : lru[i] = k /\ Without(k) = RemoveAt(lru, i)
    BY <1>2, WithoutIs
  <2>. DEFINE w == Without(k)
  <2>2. /\ w \in Seq(Keys) /\ Len(w) = Len(lru) - 1 /\ Len(lru) \in Nat
        /\ \A j \in 1..(Len(lru) - 1) : w[j] = IF j < i THEN lru[j] ELSE lru[j + 1]
    <3>1. lru \in Seq(Keys) /\ Len(lru) \in Nat /\ w = RemoveAt(lru, i)
      BY <2>1 DEF Lists
    <3>2. /\ RemoveAt(lru, i) \in Seq(Keys)
          /\ Len(RemoveAt(lru, i)) = Len(lru) - 1
          /\ \A j \in 1..(Len(lru) - 1) : RemoveAt(lru, i)[j] = IF j < i THEN lru[j] ELSE lru[j + 1]
      BY <3>1, RemoveAtIs
    <3>. HIDE DEF w
    <3>. QED
      BY <3>1, <3>2
  <2>. HIDE DEF w
  <2>3. \A j \in 1..Len(w) : \E m \in 1..Len(lru) : m = (IF j < i THEN j ELSE j + 1) /\ w[j] = lru[m] /\ m # i
    BY <2>2
  <2>4. \A j, m \in 1..Len(w) : w[j] = w[m] => j = m
    <3>1. \A x, y \in 1..Len(lru) : lru[x] = lru[y] => x = y
      BY DEF Lists
    <3>2. ASSUME NEW j \in 1..Len(w), NEW m \in 1..Len(w), w[j] = w[m] PROVE j = m
      <4>. DEFINE jj == IF j < i THEN j ELSE j + 1
                  mm == IF m < i THEN m ELSE m + 1
      <4>1. jj \in 1..Len(lru) /\ mm \in 1..Len(lru) /\ lru[jj] = lru[mm]
        BY <2>3, <3>2
      <4>2. jj = mm
        BY <3>1, <4>1
      <4>. QED
        BY <2>2, <4>2
    <3>. QED
      BY <3>2
  <2>5. \A j \in 1..Len(w) : w[j] \in S \ {k}
    BY <2>1, <2>3 DEF Lists
  <2>6. ASSUME NEW x \in S \ {k} PROVE \E j \in 1..Len(w) : w[j] = x
    <3>1. PICK m \in 1..Len(lru) : lru[m] = x
      BY DEF Lists
    <3>2. m # i
      BY <2>1, <3>1
    <3>3. CASE m < i
      <4>1. m \in 1..Len(w) /\ w[m] = x
        BY <2>2, <3>1, <3>3
      <4>. QED
        BY <4>1
    <3>4. CASE m > i
      <4>1. m - 1 \in 1..Len(w) /\ ~(m - 1 < i) /\ (m - 1) + 1 = m
        BY <2>2, <3>1, <3>4
      <4>2. w[m - 1] = x
        BY <2>2, <3>1, <4>1
      <4>. QED
        BY <4>1, <4>2
    <3>. QED
      BY <3>2, <3>3, <3>4
  <2>7. Lists(w, S \ {k})
    BY <2>2, <2>4, <2>5, <2>6 DEF Lists
  <2>. QED
    BY <1>2, <2>2, <2>7 DEF w
<1>. QED
  BY <1>1, <1>2

LEMMA TouchLists ==
  ASSUME NEW S, Lists(lru, S), NEW k \in Keys, Touch(k)
  PROVE  Lists(lru', S \cup {k})
<1>. DEFINE w == Without(k)
<1>1. Lists(w, S \ {k}) /\ lru' = Append(w, k)
  BY WithoutLists DEF Touch
<1>. HIDE DEF w
<1>2. /\ lru' \in Seq(Keys) /\ Len(lru') = Len(w) + 1 /\ Len(w) \in Nat
      /\ lru'[Len(w) + 1] = k /\ \A j \in 1..Len(w) : lru'[j] = w[j]
  BY <1>1 DEF Lists
<1>3. \A j \in 1..Len(w) : lru'[j] \in S \ {k} /\ j \in 1..Len(lru')
  BY <1>1, <1>2 DEF Lists
<1>4. \A i, j \in 1..Len(lru') : lru'[i] = lru'[j] => i = j
  BY <1>1, <1>2, <1>3 DEF Lists
<1>5. \A i \in 1..Len(lru') : lru'[i] \in S \cup {k}
  BY <1>2, <1>3
<1>6. \A x \in S \cup {k} : \E i \in 1..Len(lru') : lru'[i] = x
  <2>1. ASSUME NEW x \in S \ {k} PROVE \E i \in 1..Len(lru') : lru'[i] = x
    BY <1>1, <1>2, <1>3 DEF Lists
  <2>2. \E i \in 1..Len(lru') : lru'[i] = k
    BY <1>2
  <2>. QED
    BY <2>1, <2>2
<1>. QED
  BY <1>2, <1>4, <1>5, <1>6 DEF Lists

(* The oldest blob of the order, removed.                                  *)
LEMMA WithoutHead ==
  ASSUME NEW S, Lists(lru, S), lru # <<>>
  PROVE  Head(lru) \in S /\ Without(Head(lru)) = Tail(lru)
<1>1. 1 \in 1..Len(lru) /\ Head(lru) = lru[1] /\ lru \in Seq(Keys)
  BY DEF Lists
<1>2. PICK i \in 1..Len(lru) : lru[i] = Head(lru) /\ Without(Head(lru)) = RemoveAt(lru, i)
  BY <1>1, WithoutIs DEF Lists
<1>3. i = 1
  BY <1>1, <1>2 DEF Lists
<1>4. /\ RemoveAt(lru, 1) \in Seq(Keys) /\ Len(RemoveAt(lru, 1)) = Len(lru) - 1
      /\ \A j \in 1..(Len(lru) - 1) : RemoveAt(lru, 1)[j] = IF j < 1 THEN lru[j] ELSE lru[j + 1]
  BY <1>1, RemoveAtIs
<1>5. RemoveAt(lru, 1) = Tail(lru)
  BY <1>1, <1>4
<1>. QED
  BY <1>1, <1>2, <1>3, <1>5 DEF Lists

LEMMA ListsCard ==
  ASSUME NEW s, NEW S, Lists(s, S)
  PROVE  Cardinality(S) = Len(s)
<1>1. s \in [1..Len(s) -> S] /\ Len(s) \in Nat
  BY DEF Lists
<1>2. s \in Bijection(1..Len(s), S)
  BY <1>1 DEF Lists, Bijection, Injection, Surjection, IsInjective
<1>3. ExistsBijection(1..Len(s), S)
  BY <1>2 DEF ExistsBijection
<1>. QED
  BY <1>1, <1>3, FS_CountingElements

(***************************************************************************)
(* Steps.                                                                  *)
(***************************************************************************)
LEMMA DisturbIs ==
  ASSUME EvictorTypes, NEW others, Disturb(others)
  PROVE  /\ EvictorTypes'
         /\ \A q \in Processes :
              /\ q \notin others => evictor'[q] = evictor[q]
              /\ evictor[q] = NoEviction => evictor'[q] = NoEviction
              /\ q \in others /\ evictor'[q].step = "removing" => ~evictor'[q].undisturbed
<1>1. \A q \in Processes :
        /\ evictor[q] = NoEviction \/ evictor[q].step = "collect" \/ evictor[q] \in Removal
        /\ evictor'[q] = IF q \in others /\ evictor[q].step = "removing"
                         THEN [evictor[q] EXCEPT !.undisturbed = FALSE] ELSE evictor[q]
  BY DEF EvictorTypes, Disturb
<1>2. \A q \in Processes :
        /\ evictor[q].step # "removing" => evictor'[q] = evictor[q]
        /\ evictor[q].step = "removing" =>
             /\ evictor[q] \in Removal /\ evictor'[q] \in Removal
             /\ q \in others => evictor'[q].undisturbed = FALSE
             /\ q \notin others => evictor'[q] = evictor[q]
  <2>1. ASSUME NEW q \in Processes, evictor[q].step # "removing" PROVE evictor'[q] = evictor[q]
    BY <1>1, <2>1
  <2>2. ASSUME NEW q \in Processes, evictor[q].step = "removing"
        PROVE  /\ evictor[q] \in Removal /\ evictor'[q] \in Removal
               /\ q \in others => evictor'[q].undisturbed = FALSE
               /\ q \notin others => evictor'[q] = evictor[q]
    <3>1. evictor[q] \in Removal
      <4>1. evictor[q] = NoEviction \/ evictor[q].step = "collect" \/ evictor[q] \in Removal
        BY <1>1
      <4>. QED
        BY <2>2, <4>1 DEF NoEviction
    <3>2. CASE q \notin others
      BY <1>1, <3>1, <3>2
    <3>3. CASE q \in others
      <4>1. evictor'[q] = [evictor[q] EXCEPT !.undisturbed = FALSE]
        BY <1>1, <2>2, <3>3
      <4>2. evictor'[q] \in Removal /\ evictor'[q].undisturbed = FALSE
        BY <3>1, <4>1 DEF Removal
      <4>. QED
        BY <3>1, <3>3, <4>2
    <3>. QED
      BY <3>2, <3>3
  <2>. QED
    BY <2>1, <2>2
<1>3. EvictorTypes'
  BY <1>2 DEF EvictorTypes, Disturb
<1>. QED
  BY <1>2, <1>3 DEF NoEviction

LEMMA SpawnIs ==
  ASSUME EvictorTypes, NEW p \in Processes, SpawnEviction(p)
  PROVE  /\ EvictorTypes'
         /\ \A q \in Processes : q # p => evictor'[q] = evictor[q]
         /\ evictor'[p] = evictor[p] \/ evictor'[p].step = "collect"
BY DEF EvictorTypes, SpawnEviction, Removal, NoEviction

(* Steps that keep the order.                                              *)
LEMMA SameOrder ==
  ASSUME LruInv, TypeOK', UNCHANGED <<lru, blobs>>, EvictorTypes', UpOnly',
         \A q \in Processes : evictor'[q] = evictor[q] \/ evictor'[q].step \in {"none", "collect"}
  PROVE  LruInv'
<1>1. Lists(lru, Visible)'
  BY DEF LruInv, Lists, Visible
<1>2. Undisturbed'
  BY DEF LruInv, Undisturbed
<1>. QED
  BY <1>1, <1>2 DEF LruInv

(* Steps that change the order disturb whoever removes.                    *)
LEMMA NewOrder ==
  ASSUME LruInv, TypeOK', Lists(lru', Visible'), Disturb(Processes), UNCHANGED proc,
         \A q \in Processes : putter[q] = NoPut => putter'[q] = NoPut
  PROVE  LruInv'
<1>1. /\ EvictorTypes'
      /\ \A q \in Processes :
           /\ evictor[q] = NoEviction => evictor'[q] = NoEviction
           /\ evictor'[q].step = "removing" => ~evictor'[q].undisturbed
  BY DisturbIs DEF LruInv
<1>2. UpOnly' /\ Undisturbed'
  BY <1>1 DEF LruInv, UpOnly, Undisturbed, Up
<1>3. Lists(lru, Visible)'
  BY DEF Lists
<1>. QED
  BY <1>1, <1>2, <1>3 DEF LruInv

LEMMA LruInit == Init => LruInv
<1>. SUFFICES ASSUME Init PROVE LruInv
  OBVIOUS
<1>1. lru = <<>> /\ Visible = {}
  BY DEF Init, Visible
<1>2. Lists(lru, Visible)
  BY <1>1 DEF Lists
<1>3. EvictorTypes /\ UpOnly /\ Undisturbed
  BY DEF Init, EvictorTypes, UpOnly, Undisturbed, NoEviction, NoPut
<1>. QED
  BY <1>2, <1>3, TypeInit DEF LruInv

(* Open.                                                                   *)
LEMMA OpenLru ==
  ASSUME LruInv, TypeOK', NEW p \in Processes, OpenCheck(p) \/ Opening(p)
  PROVE  LruInv'
<1>. USE DEF LruInv
<1>0. ~Up(p)
  BY DEF OpenCheck, Opening, WipeEntry, WipeFails, TruncateMarker, WriteMarker, OpenDone, Up
<1>1. evictor[p] = NoEviction /\ putter[p] = NoPut
  BY <1>0 DEF UpOnly
<1>2. CASE OpenCheck(p) \/ WipeFails(p) \/ TruncateMarker(p) \/ WriteMarker(p)
  <2>1. /\ UNCHANGED <<lru, blobs, evictor, putter>>
        /\ \A q \in Processes \ {p} : proc'[q] = proc[q]
    BY <1>2 DEF OpenCheck, WipeFails, TruncateMarker, WriteMarker, disk, TypeOK
  <2>2. UpOnly' /\ EvictorTypes'
    BY <1>1, <2>1 DEF UpOnly, Up, EvictorTypes
  <2>. QED
    BY <2>1, <2>2, SameOrder
<1>3. CASE OpenDone(p)
  <2>1. /\ UNCHANGED <<lru, blobs, putter>> /\ SpawnEviction(p) /\ proc'[p].at = "up"
        /\ \A q \in Processes \ {p} : proc'[q] = proc[q]
    BY <1>3 DEF OpenDone, disk, TypeOK
  <2>2. /\ EvictorTypes'
        /\ \A q \in Processes : q # p => evictor'[q] = evictor[q]
        /\ evictor'[p] = evictor[p] \/ evictor'[p].step = "collect"
    BY <2>1, SpawnIs
  <2>3. UpOnly'
    BY <2>1, <2>2 DEF UpOnly, Up
  <2>. QED
    BY <2>1, <2>2, <2>3, SameOrder
<1>4. CASE WipeEntry(p)
  <2>1. UNCHANGED putter /\ \A q \in Processes \ {p} : proc'[q] = proc[q]
    BY <1>4 DEF WipeEntry, TypeOK
  <2>2. proc'[p].at # "up"
    BY <1>4 DEF WipeEntry, TypeOK
  <2>3. CASE UNCHANGED <<blobs, lru, evictor>>
    <3>1. UpOnly' /\ EvictorTypes'
      BY <1>1, <2>1, <2>2, <2>3 DEF UpOnly, Up, EvictorTypes
    <3>. QED
      BY <2>3, <3>1, SameOrder
  <2>4. ASSUME NEW k, Drop(k), Disturb(Processes \ {p}) PROVE LruInv'
    <3>1. Visible' = Visible \ {k} /\ lru' = Without(k)
      BY <2>4, DropTypes DEF Drop
    <3>2. Lists(lru', Visible')
      BY <3>1, WithoutLists
    <3>3. /\ EvictorTypes' /\ evictor'[p] = NoEviction
          /\ \A q \in Processes :
               /\ evictor[q] = NoEviction => evictor'[q] = NoEviction
               /\ q # p /\ evictor'[q].step = "removing" => ~evictor'[q].undisturbed
      BY <1>1, <2>4, DisturbIs
    <3>4. Undisturbed'
      BY <3>3 DEF Undisturbed, NoEviction
    <3>5. UpOnly'
      BY <1>1, <2>1, <2>2, <3>3 DEF UpOnly, Up
    <3>6. Lists(lru, Visible)'
      BY <3>2 DEF Lists
    <3>. QED
      BY <3>3, <3>4, <3>5, <3>6
  <2>. QED
    BY <1>4, <2>3, <2>4 DEF WipeEntry
<1>. QED
  BY <1>2, <1>3, <1>4 DEF Opening

(* Puts and reads.                                                         *)
LEMMA PutLru ==
  ASSUME LruInv, TypeOK', NEW p \in Processes,
         (\E k \in Keys, b \in Bytes : PutBegin(p, k, b)) \/ Put(p) \/ (\E k \in Keys : GetTouch(p, k))
  PROVE  LruInv'
<1>. USE DEF LruInv
<1>1. UNCHANGED proc
  BY DEF PutBegin, Put, PutExists, PutCreateTmp, PutFillTmp, PutRename, PutCount, GetTouch
<1>2. Up(p) /\ \A q \in Processes \ {p} : putter'[q] = putter[q]
  <2>1. \A q \in Processes \ {p} : putter'[q] = putter[q]
    BY DEF PutBegin, Put, PutExists, PutCreateTmp, PutFillTmp, PutRename, PutCount, GetTouch, TypeOK
  <2>2. Up(p) \/ putter[p].step # "none"
    BY DEF PutBegin, Put, PutExists, PutCreateTmp, PutFillTmp, PutRename, PutCount, GetTouch
  <2>. QED
    BY <2>1, <2>2 DEF UpOnly, NoPut
<1>3. CASE (\E k \in Keys, b \in Bytes : PutBegin(p, k, b)) \/ PutCreateTmp(p) \/ PutFillTmp(p) \/ PutCount(p)
           \/ UNCHANGED <<lru, blobs, evictor>>
  <2>1. UNCHANGED <<lru, blobs>> /\ (UNCHANGED evictor \/ SpawnEviction(p))
    BY <1>3 DEF PutBegin, PutCreateTmp, PutFillTmp, PutCount, disk
  <2>2. /\ EvictorTypes'
        /\ \A q \in Processes : q # p => evictor'[q] = evictor[q]
        /\ evictor'[p] = evictor[p] \/ evictor'[p].step = "collect"
    BY <2>1, SpawnIs DEF EvictorTypes
  <2>3. UpOnly'
    BY <1>1, <1>2, <2>2 DEF UpOnly, Up
  <2>. QED
    BY <2>1, <2>2, <2>3, SameOrder
<1>4. \A q \in Processes : putter[q] = NoPut /\ (PutExists(p) \/ PutRename(p) \/ UNCHANGED putter) => putter'[q] = NoPut
  BY <1>2 DEF PutExists, PutRename, NoPut
<1>5. ASSUME NEW k \in Visible, Touch(k), Visible' = Visible, Disturb(Processes),
             PutExists(p) \/ UNCHANGED putter
      PROVE  LruInv'
  <2>1. k \in Keys /\ Visible \cup {k} = Visible
    BY <1>5 DEF TypeOK
  <2>2. Lists(lru', Visible')
    BY <1>5, <2>1, TouchLists
  <2>. QED
    BY <1>1, <1>4, <1>5, <2>2, NewOrder
<1>6. CASE PutExists(p)
  BY <1>3, <1>5, <1>6 DEF PutExists, Visible
<1>7. CASE \E k \in Keys : GetTouch(p, k)
  BY <1>5, <1>7 DEF GetTouch, Visible
<1>8. CASE PutRename(p)
  <2>1. putter[p].key \in Keys
    BY <1>8 DEF PutRename, TypeOK, NoPut
  <2>2. ASSUME NEW f \in tmps, Publish(putter[p].key, f.bytes), Disturb(Processes) PROVE LruInv'
    <3>1. f.bytes \in Bytes \cup {Partial}
      BY DEF TypeOK
    <3>2. Visible' = Visible \cup {putter[p].key}
      BY <2>1, <2>2, <3>1, PublishTypes
    <3>3. Lists(lru', Visible')
      BY <2>1, <2>2, <3>2, TouchLists DEF Publish
    <3>. QED
      BY <1>1, <1>4, <1>8, <2>2, <3>3, NewOrder
  <2>. QED
    BY <1>3, <1>8, <2>2 DEF PutRename
<1>. QED
  BY <1>3, <1>6, <1>7, <1>8 DEF Put

(* Evictions.                                                              *)
LEMMA EvictLru ==
  ASSUME LruInv, TypeOK', NEW p \in Processes, Evict(p)
  PROVE  LruInv'
<1>. USE DEF LruInv
<1>1. UNCHANGED <<proc, putter>> /\ evictor[p].step # "none"
  BY DEF Evict, EvictCollect, EvictFails, EvictRemove, EvictEnd
<1>2. Up(p)
  BY <1>1 DEF UpOnly, NoEviction
<1>3. CASE EvictFails(p) \/ EvictEnd(p)
  <2>1. UNCHANGED <<lru, blobs>> /\ evictor' = [evictor EXCEPT ![p] = NoEviction]
    BY <1>3 DEF EvictFails, EvictEnd, disk
  <2>2. EvictorTypes' /\ evictor'[p].step = "none" /\ \A q \in Processes \ {p} : evictor'[q] = evictor[q]
    BY <2>1 DEF EvictorTypes, NoEviction
  <2>3. UpOnly'
    BY <1>1, <1>2, <2>2 DEF UpOnly, Up
  <2>. QED
    BY <2>1, <2>2, <2>3, SameOrder
<1>4. CASE EvictCollect(p)
  <2>. DEFINE walk == [step |-> "removing", files |-> lru, over |-> Len(lru) - MaxBlobs,
                       undisturbed |-> TRUE]
  <2>1. /\ UNCHANGED <<lru, blobs>>
        /\ evictor' = [evictor EXCEPT ![p] = IF Len(lru) <= MaxBlobs THEN NoEviction ELSE walk]
    BY <1>4 DEF EvictCollect, disk
  <2>2. CASE Len(lru) <= MaxBlobs
    <3>1. EvictorTypes' /\ evictor'[p].step = "none" /\ \A q \in Processes \ {p} : evictor'[q] = evictor[q]
      BY <2>1, <2>2 DEF EvictorTypes, NoEviction
    <3>2. UpOnly'
      BY <1>1, <1>2, <3>1 DEF UpOnly, Up
    <3>. QED
      BY <2>1, <3>1, <3>2, SameOrder
  <2>3. CASE ~(Len(lru) <= MaxBlobs)
    <3>1. Len(lru) - MaxBlobs \in Nat /\ (Len(lru) - MaxBlobs) + MaxBlobs = Len(lru) /\ lru \in Seq(Keys)
      BY <2>3, CacheAssumption DEF Lists
    <3>2. walk \in Removal
      BY <3>1 DEF Removal
    <3>3. /\ evictor'[p] = walk /\ EvictorTypes'
          /\ \A q \in Processes \ {p} : evictor'[q] = evictor[q]
      BY <2>1, <2>3, <3>2 DEF EvictorTypes
    <3>4. UpOnly' /\ Undisturbed'
      BY <1>1, <1>2, <2>1, <3>1, <3>3 DEF UpOnly, Up, Undisturbed
    <3>5. Lists(lru, Visible)'
      BY <2>1 DEF Lists, Visible
    <3>. QED
      BY <3>3, <3>4, <3>5
  <2>. QED
    BY <2>2, <2>3
<1>5. CASE EvictRemove(p)
  <2>. DEFINE k == Head(evictor[p].files)
  <2>1. /\ evictor[p].step = "removing" /\ evictor[p].over > 0 /\ evictor[p].files # <<>>
        /\ IF k \in Visible THEN Drop(k) ELSE UNCHANGED <<blobs, lru>>
        /\ evictor' = [q \in Processes |->
             IF q = p
             THEN [evictor[p] EXCEPT !.files = Tail(@), !.over = IF k \in Visible THEN @ - 1 ELSE @]
             ELSE IF evictor[q].step = "removing" /\ k \in Visible
             THEN [evictor[q] EXCEPT !.undisturbed = FALSE] ELSE evictor[q]]
    BY <1>5 DEF EvictRemove
  <2>2. evictor[p] \in Removal /\ MaxBlobs \in Nat
    BY <2>1, CacheAssumption DEF EvictorTypes, NoEviction
  <2>3. /\ Tail(evictor[p].files) \in Seq(Keys) /\ k \in Keys
        /\ (IF k \in Visible THEN evictor[p].over - 1 ELSE evictor[p].over) \in Nat
    BY <2>1, <2>2 DEF Removal
  <2>4. /\ evictor'[p] \in Removal /\ evictor'[p].files = Tail(evictor[p].files)
        /\ evictor'[p].over = (IF k \in Visible THEN evictor[p].over - 1 ELSE evictor[p].over)
        /\ evictor'[p].undisturbed = evictor[p].undisturbed
    <3>. HIDE DEF k
    <3>. QED
      BY <2>1, <2>2, <2>3 DEF Removal
  <2>5. ASSUME NEW q \in Processes \ {p}
        PROVE  /\ evictor'[q] \in {NoEviction} \cup [step : {"collect"}] \cup Removal
               /\ evictor[q] = NoEviction => evictor'[q] = NoEviction
               /\ k \notin Visible => evictor'[q] = evictor[q]
               /\ k \in Visible /\ evictor'[q].step = "removing" => ~evictor'[q].undisturbed
    <3>. HIDE DEF k
    <3>1. evictor[q] \in {NoEviction} \cup [step : {"collect"}] \cup Removal
      BY DEF EvictorTypes
    <3>2. CASE evictor[q].step = "removing" /\ k \in Visible
      <4>1. evictor[q] \in Removal
        BY <3>1, <3>2 DEF NoEviction
      <4>2. evictor'[q] = [evictor[q] EXCEPT !.undisturbed = FALSE]
        BY <2>1, <3>2
      <4>3. evictor'[q] \in Removal /\ evictor'[q].undisturbed = FALSE
        BY <4>1, <4>2 DEF Removal
      <4>. QED
        BY <3>2, <4>3 DEF NoEviction
    <3>3. CASE ~(evictor[q].step = "removing" /\ k \in Visible)
      <4>1. evictor'[q] = evictor[q]
        BY <2>1, <3>3
      <4>. QED
        BY <3>1, <3>3, <4>1
    <3>. QED
      BY <3>2, <3>3
  <2>6. EvictorTypes'
    <3>1. evictor' \in [Processes -> {NoEviction} \cup [step : {"collect"}] \cup Removal]
      <4>1. \A q \in Processes : evictor'[q] \in {NoEviction} \cup [step : {"collect"}] \cup Removal
        BY <2>4, <2>5
      <4>2. evictor' = [q \in Processes |-> evictor'[q]]
        BY <2>1
      <4>. QED
        BY <4>1, <4>2
    <3>. QED
      BY <3>1 DEF EvictorTypes
  <2>7. UpOnly'
    BY <1>1, <1>2, <2>5 DEF UpOnly, Up
  <2>8. CASE k \notin Visible
    <3>1. UNCHANGED <<blobs, lru>>
      BY <2>1, <2>8
    <3>2. Lists(lru, Visible)'
      BY <3>1 DEF Lists, Visible
    <3>3. ~evictor[p].undisturbed
      <4>1. SUFFICES ASSUME evictor[p].undisturbed PROVE FALSE
        OBVIOUS
      <4>2. evictor[p].files = lru
        BY <2>1, <4>1 DEF Undisturbed
      <4>. QED
        BY <2>1, <2>8, <4>2, WithoutHead
    <3>4. Undisturbed'
      BY <2>4, <2>5, <2>8, <3>1, <3>3 DEF Undisturbed
    <3>. QED
      BY <2>6, <2>7, <3>2, <3>4
  <2>9. CASE k \in Visible
    <3>1. Visible' = Visible \ {k} /\ lru' = Without(k)
      BY <2>1, <2>9, DropTypes DEF Drop
    <3>. HIDE DEF k
    <3>2. Lists(lru', Visible') /\ Len(lru') = Len(lru) - 1 /\ Len(lru) \in Nat
      <4>1. Lists(lru, Visible)
        OBVIOUS
      <4>2. Lists(Without(k), Visible \ {k}) /\ Len(Without(k)) = Len(lru) - 1
        BY <2>9, <4>1, WithoutLists
      <4>3. Len(lru) \in Nat
        BY <4>1 DEF Lists
      <4>. QED
        BY <3>1, <4>2, <4>3
    <3>3. Lists(lru, Visible)'
      BY <3>2 DEF Lists
    <3>4. ASSUME evictor[p].undisturbed
          PROVE  evictor'[p].files = lru' /\ evictor'[p].over + MaxBlobs = Len(lru')
      <4>1. evictor[p].files = lru /\ evictor[p].over + MaxBlobs = Len(lru)
        BY <2>1, <3>4 DEF Undisturbed
      <4>2. lru' = Tail(lru)
        BY <2>1, <3>1, <4>1, WithoutHead DEF k
      <4>3. evictor[p].over \in Nat
        BY <2>2 DEF Removal
      <4>4. evictor'[p].files = lru'
        BY <2>4, <4>1, <4>2
      <4>5. evictor'[p].over = evictor[p].over - 1
        BY <2>4, <2>9
      <4>. QED
        BY <3>2, <4>1, <4>3, <4>4, <4>5, <2>2
    <3>5. Undisturbed'
      BY <2>4, <2>5, <2>9, <3>4 DEF Undisturbed
    <3>. QED
      BY <2>6, <2>7, <3>3, <3>5
  <2>. QED
    BY <2>8, <2>9
<1>. QED
  BY <1>3, <1>4, <1>5 DEF Evict

LEMMA CrashLru == ASSUME LruInv, TypeOK', NEW p \in Processes, Crash(p) PROVE LruInv'
<1>. USE DEF LruInv
<1>1. /\ UNCHANGED <<lru, blobs>> /\ evictor'[p] = NoEviction /\ putter'[p] = NoPut
      /\ evictor' = [evictor EXCEPT ![p] = NoEviction]
      /\ \A q \in Processes \ {p} : proc'[q] = proc[q] /\ putter'[q] = putter[q] /\ evictor'[q] = evictor[q]
  BY DEF Crash, Die, disk, TypeOK, EvictorTypes
<1>2. EvictorTypes' /\ UpOnly'
  BY <1>1 DEF EvictorTypes, UpOnly, Up
<1>. QED
  BY <1>1, <1>2, SameOrder DEF NoEviction

LEMMA LruStep == LruInv /\ [Next]_vars => LruInv'
<1>. SUFFICES ASSUME LruInv, [Next]_vars PROVE LruInv'
  OBVIOUS
<1>1. TypeOK'
  BY TypeStep DEF LruInv
<1>2. CASE UNCHANGED vars
  <2>1. UNCHANGED <<lru, blobs, evictor, proc, putter>>
    BY <1>2 DEF vars, disk
  <2>2. EvictorTypes' /\ UpOnly'
    BY <2>1 DEF LruInv, EvictorTypes, UpOnly, Up
  <2>. QED
    BY <1>1, <2>1, <2>2, SameOrder
<1>. QED
  BY <1>1, <1>2, OpenLru, PutLru, EvictLru, CrashLru DEF Next

(* An eviction nobody interfered with removes the least recently used      *)
(* blob, and only while there are more than the budget allows              *)
(* (evict_to_budget).                                                      *)
THEOREM EvictionIsOldestFirst == Spec => EvictsOldestOverBudget
<1>1. ASSUME LruInv, [Next]_vars, NEW p \in Processes, evictor[p].step = "removing",
             evictor[p].undisturbed, EvictRemove(p), Visible' # Visible
      PROVE  Cardinality(Visible) > MaxBlobs /\ Visible' = Visible \ {Head(lru)}
  <2>1. /\ evictor[p].files = lru /\ evictor[p].over + MaxBlobs = Len(lru)
        /\ evictor[p].over > 0 /\ evictor[p].over \in Nat
    BY <1>1 DEF LruInv, Undisturbed, EvictRemove, EvictorTypes, Removal, NoEviction
  <2>2. Cardinality(Visible) = Len(lru)
    BY <1>1, ListsCard DEF LruInv
  <2>3. Drop(Head(lru))
    BY <1>1, <2>1 DEF EvictRemove, Visible
  <2>. QED
    BY <1>1, <2>1, <2>2, <2>3, CacheAssumption, DropTypes DEF LruInv
<1>2. LruInv /\ [Next]_vars =>
        [\A p \in Processes :
           /\ evictor[p].step = "removing" /\ evictor[p].undisturbed
           /\ EvictRemove(p) /\ Visible' # Visible
           => Cardinality(Visible) > MaxBlobs /\ Visible' = Visible \ {Head(lru)}]_vars
  BY <1>1, Zenon
<1>. QED
  BY LruInit, LruStep, <1>2, PTL DEF Spec, EvictsOldestOverBudget
===============================================================================
