------------------------------ MODULE DaemonProofs ------------------------------
(***************************************************************************)
(* Proofs about the daemon, for every set of clients, mount points and     *)
(* instances and any number of mounts.                                     *)
(***************************************************************************)
EXTENDS Daemon, TLAPS

LEMMA HostChange ==
  ASSUME host \in Seq(Hosted), NEW m \in Numbers, NEW s \in Stages,
         host' = [host EXCEPT ![m].stage = s]
  PROVE  /\ host' \in Seq(Hosted) /\ Numbers' = Numbers
         /\ host'[m].stage = s
         /\ \A n \in Numbers :
              /\ host'[n].point = host[n].point
              /\ host'[n].instance = host[n].instance
              /\ host'[n].manager = host[n].manager
              /\ n # m => host'[n].stage = host[n].stage
<1>1. Numbers = 1..Len(host)
  BY DEF Numbers
<1>2. \A n \in Numbers : host[n] \in Hosted
  BY <1>1
<1>3. Numbers' = Numbers /\ DOMAIN host' = DOMAIN host
  BY DEF Numbers
<1>4. \A n \in Numbers : host'[n] = IF n = m THEN [host[n] EXCEPT !.stage = s] ELSE host[n]
  BY DEF Numbers
<1>5. \A n \in Numbers : host'[n] \in Hosted
  BY <1>2, <1>4 DEF Hosted
<1>6. host' \in Seq(Hosted)
  BY <1>1, <1>3, <1>5 DEF Numbers
<1>. QED
  BY <1>2, <1>3, <1>4, <1>6 DEF Hosted

LEMMA HostAppend ==
  ASSUME host \in Seq(Hosted), NEW h \in Hosted, host' = Append(host, h)
  PROVE  /\ host' \in Seq(Hosted) /\ Numbers' = Numbers \cup {Len(host) + 1}
         /\ Len(host) + 1 \notin Numbers /\ Len(host) + 1 \in Nat \ {0}
         /\ host'[Len(host) + 1] = h
         /\ \A n \in Numbers : host'[n] = host[n]
<1>1. Numbers = 1..Len(host) /\ Len(host) \in Nat
  BY DEF Numbers
<1>2. host' \in Seq(Hosted) /\ Len(host') = Len(host) + 1
  OBVIOUS
<1>3. Numbers' = 1..(Len(host) + 1)
  BY <1>2 DEF Numbers
<1>. QED
  BY <1>1, <1>2, <1>3

LEMMA HostKilled ==
  ASSUME host \in Seq(Hosted), Exit
  PROVE  /\ host' \in Seq(Hosted) /\ Numbers' = Numbers
         /\ \A n \in Numbers :
              host'[n].stage = IF host[n].stage \in Live THEN "killed" ELSE host[n].stage
<1>1. Numbers = 1..Len(host) /\ Len(host) \in Nat
  BY DEF Numbers
<1>2. \A n \in Numbers : host[n] \in Hosted
  BY <1>1
<1>3. host' = [m \in Numbers |-> IF host[m].stage \in Live
                                 THEN [host[m] EXCEPT !.stage = "killed"] ELSE host[m]]
  BY DEF Exit
<1>4. \A n \in Numbers : host'[n] \in Hosted
  BY <1>2, <1>3 DEF Hosted, Stages
<1>5. host' \in [1..Len(host) -> Hosted]
  BY <1>1, <1>3, <1>4
<1>6. host' \in Seq(Hosted)
  BY <1>1, <1>5
<1>7. Numbers' = Numbers
  BY <1>1, <1>5 DEF Numbers
<1>. QED
  BY <1>2, <1>3, <1>6, <1>7 DEF Hosted

(***************************************************************************)
(* Types.                                                                  *)
(***************************************************************************)
(* What start_mount takes from the pool before it spawns the task.         *)
SpawnHasManager ==
  \A c \in Clients :
    Running /\ client[c].op = "mount" /\ client[c].step # "pool"
    => pool[client[c].instance] # None

LEMMA TypeInit == Init => TypeOK
<1>. SUFFICES ASSUME Init PROVE TypeOK
  OBVIOUS
<1>1. host \in Seq(Hosted)
  BY DEF Init
<1>2. client \in [Callers -> {Idle}] /\ lifecycle = Unlocked
  BY DEF Init
<1>3. /\ mounts \in [MountPoints -> Numbers \cup {None}]
      /\ fused \in [MountPoints -> Numbers \cup {None}]
      /\ pool \in [Instances -> Nat]
  BY DEF Init, None
<1>4. server \in [state : {"serving", "stopping", "exited"}, left : SUBSET MountPoints]
  BY DEF Init
<1>5. client \in [Callers -> {Idle} \cup MountRequest \cup UnmountRequest]
  BY <1>2
<1>6. confirmed \subseteq Numbers /\ excused \subseteq Numbers
  BY DEF Init
<1>. QED
  BY <1>1, <1>2, <1>3, <1>4, <1>5, <1>6 DEF TypeOK

LEMMA TypeStep == TypeOK /\ SpawnHasManager /\ [Next]_vars => TypeOK'
<1>. SUFFICES ASSUME TypeOK, SpawnHasManager, [Next]_vars PROVE TypeOK'
  OBVIOUS
<1>0. Numbers \subseteq Nat \ {0} /\ \A m \in Numbers : host[m] \in Hosted
  BY DEF TypeOK, Numbers
(* Steps that do not start a mount.                                        *)
<1>1. ASSUME host' \in Seq(Hosted), Numbers' = Numbers,
             mounts' \in [MountPoints -> Numbers \cup {None}],
             pool' \in [Instances -> Nat],
             lifecycle' \in {Unlocked} \cup ({"client"} \X Clients) \cup ({"task"} \X Numbers),
             fused' \in [MountPoints -> Numbers \cup {None}],
             client' \in [Callers -> {Idle} \cup MountRequest \cup UnmountRequest],
             server' \in [state : {"serving", "stopping", "exited"}, left : SUBSET MountPoints],
             confirmed' \subseteq Numbers, excused' \subseteq Numbers
      PROVE  TypeOK'
  BY <1>1 DEF TypeOK, MountRequest, UnmountRequest
<1>. USE DEF TypeOK
<1>2. CASE UNCHANGED vars
  BY <1>1, <1>2 DEF vars, Numbers
<1>3. ASSUME NEW c \in Clients, NEW p \in MountPoints, NEW i \in Instances, MountBegin(c, p, i)
      PROVE  TypeOK'
  <2>1. client' \in [Callers -> {Idle} \cup MountRequest \cup UnmountRequest]
    BY <1>3 DEF MountBegin, MountRequest, Callers
  <2>2. lifecycle' \in {"client"} \X Clients
    BY <1>3 DEF MountBegin
  <2>. QED
    BY <1>1, <1>3, <2>1, <2>2 DEF MountBegin, Numbers
<1>4. ASSUME NEW c \in Clients, SharedBufferManager(c) PROVE TypeOK'
  <2>1. client[c] \in MountRequest /\ client[c].step = "pool"
    BY <1>4 DEF SharedBufferManager, Callers, Idle, UnmountRequest
  <2>2. [client[c] EXCEPT !.step = "spawn"] \in MountRequest
    BY <2>1 DEF MountRequest
  <2>3. client' \in [Callers -> {Idle} \cup MountRequest \cup UnmountRequest]
    BY <1>4, <2>2 DEF SharedBufferManager, Callers
  <2>4. pool' \in [Instances -> Nat]
    BY <1>4, <2>1 DEF SharedBufferManager, MountRequest
  <2>. QED
    BY <1>1, <1>4, <2>3, <2>4 DEF SharedBufferManager, Numbers
<1>5. ASSUME NEW c \in Clients, MountInsert(c) PROVE TypeOK'
  <2>1. client[c] \in MountRequest /\ client[c].step = "insert"
    BY <1>5 DEF MountInsert, Callers, Idle, UnmountRequest
  <2>2. client[c].number \in Numbers /\ client[c].point \in MountPoints
    BY <2>1 DEF MountRequest
  <2>. QED
    BY <1>1, <1>5, <2>2 DEF MountInsert, Numbers
<1>6. ASSUME NEW c \in Callers, NEW p \in MountPoints, UnmountBegin(c, p)
      PROVE  client' \in [Callers -> {Idle} \cup MountRequest \cup UnmountRequest]
  BY <1>6 DEF UnmountBegin, UnmountRequest
<1>7. ASSUME NEW c \in Callers, Unmount(c) PROVE TypeOK'
  <2>1. client[c] \in UnmountRequest
    BY <1>7 DEF Unmount, UnmountCommand, UnmountDone, UnmountTimeout, Idle, MountRequest
  <2>2. client[c].point \in MountPoints /\ client[c].saw \in Numbers
    BY <2>1 DEF UnmountRequest
  <2>3. CASE UnmountCommand(c)
    <3>1. CASE /\ fused[client[c].point] # None
               /\ fused' = [fused EXCEPT ![client[c].point] = None]
               /\ host' = [host EXCEPT ![fused[client[c].point]].stage = "final_sync"]
               /\ client' = [client EXCEPT ![c].step = "wait"]
               /\ UNCHANGED excused
      <4>1. fused[client[c].point] \in Numbers
        BY <2>2, <3>1
      <4>2. host' \in Seq(Hosted) /\ Numbers' = Numbers
        BY <3>1, <4>1, HostChange DEF Stages, Live
      <4>3. [client[c] EXCEPT !.step = "wait"] \in UnmountRequest
        BY <2>1 DEF UnmountRequest
      <4>4. client' \in [Callers -> {Idle} \cup MountRequest \cup UnmountRequest]
        BY <3>1, <4>3
      <4>. QED
        BY <1>1, <2>3, <3>1, <4>2, <4>4 DEF UnmountCommand
    <3>2. CASE /\ client' = [client EXCEPT ![c] = Idle]
               /\ excused' = excused \cup ({mounts[client[c].point]} \ {None})
               /\ UNCHANGED <<fused, host>>
      BY <1>1, <2>2, <2>3, <3>2 DEF UnmountCommand, Numbers
    <3>. QED
      BY <2>3, <3>1, <3>2 DEF UnmountCommand
  <2>4. CASE UnmountDone(c)
    BY <1>1, <2>2, <2>4 DEF UnmountDone, Numbers
  <2>5. CASE UnmountTimeout(c)
    BY <1>1, <2>2, <2>5 DEF UnmountTimeout, Numbers
  <2>. QED
    BY <1>7, <2>3, <2>4, <2>5 DEF Unmount
<1>8. ASSUME NEW m \in Numbers, NEW from, NEW to \in Stages, Advance(m, from, to)
      PROVE  host' \in Seq(Hosted) /\ Numbers' = Numbers
  BY <1>8, HostChange DEF Advance
<1>9. ASSUME NEW m \in Numbers,
             \/ TaskMounted(m) \/ TaskFails(m) \/ UnmountedOutside(m) \/ TaskReturns(m)
             \/ TaskRemoves(m) \/ TaskDropsManager(m)
      PROVE  TypeOK'
  <2>1. host' \in Seq(Hosted) /\ Numbers' = Numbers
    BY <1>8, <1>9 DEF TaskMounted, TaskFails, UnmountedOutside, TaskReturns, TaskRemoves,
                      TaskDropsManager, Stages, Live
  <2>2. host[m].point \in MountPoints /\ host[m].instance \in Instances
    BY <1>0 DEF Hosted
  <2>3. CASE TaskMounted(m) \/ TaskFails(m) \/ UnmountedOutside(m) \/ TaskReturns(m)
    BY <1>1, <2>1, <2>2, <2>3 DEF TaskMounted, TaskFails, UnmountedOutside, TaskReturns
  <2>4. CASE TaskRemoves(m)
    BY <1>1, <2>1, <2>2, <2>4 DEF TaskRemoves
  <2>5. CASE TaskDropsManager(m)
    <3>1. pool' \in [Instances -> Nat]
      BY <2>5 DEF TaskDropsManager, None
    <3>. QED
      BY <1>1, <2>1, <2>5, <3>1 DEF TaskDropsManager
  <2>. QED
    BY <1>9, <2>3, <2>4, <2>5
<1>10. CASE Signal
  BY <1>1, <1>10 DEF Signal, Numbers
<1>11. ASSUME NEW p \in MountPoints, ShutdownNext(p) PROVE TypeOK'
  <2>1. client' \in [Callers -> {Idle} \cup MountRequest \cup UnmountRequest]
    BY <1>6, <1>11 DEF ShutdownNext, Callers
  <2>. QED
    BY <1>1, <1>11, <2>1 DEF ShutdownNext, Numbers
<1>12. CASE Exit
  <2>1. host' \in Seq(Hosted) /\ Numbers' = Numbers
    BY <1>12, HostKilled
  <2>. QED
    BY <1>1, <1>12, <2>1 DEF Exit
<1>13. ASSUME NEW c \in Clients, ClientAsks(c) PROVE TypeOK'
  <2>1. ASSUME NEW p \in MountPoints, UnmountBegin(c, p),
               UNCHANGED <<mounts, pool, lifecycle, host, fused, server, confirmed, excused>>
        PROVE  TypeOK'
    BY <1>1, <1>6, <2>1 DEF Callers, Numbers
  <2>. QED
    BY <1>3, <1>13, <2>1 DEF ClientAsks
<1>14. ASSUME NEW c \in Clients, MountSpawn(c), pool[client[c].instance] # None
       PROVE  TypeOK'
  <2>. DEFINE r == client[c]
              h == [point |-> r.point, instance |-> r.instance,
                    manager |-> pool[r.instance], stage |-> "starting"]
              n == Len(host) + 1
  <2>0. r.op = "mount" /\ r.step = "spawn"
    BY <1>14 DEF MountSpawn
  <2>1. r \in MountRequest
    BY <2>0 DEF Callers, Idle, UnmountRequest
  <2>2. r.point \in MountPoints /\ r.instance \in Instances
    BY <2>0, <2>1 DEF MountRequest
  <2>3. h \in Hosted
    BY <1>14, <2>2 DEF Hosted, Stages, Live, None
  <2>4. host' = Append(host, h)
    BY <1>14 DEF MountSpawn
  <2>. HIDE DEF h
  <2>5. host' \in Seq(Hosted) /\ Numbers' = Numbers \cup {n}
    BY <2>3, <2>4, HostAppend
  <2>6. /\ client' = [client EXCEPT ![c] = [op |-> "mount", step |-> "insert", point |-> r.point,
                                           instance |-> r.instance, number |-> n]]
        /\ excused' \subseteq excused \cup {n}
        /\ UNCHANGED <<mounts, pool, lifecycle, fused, server, confirmed>>
    BY <1>14 DEF MountSpawn
  <2>. HIDE DEF n
  <2>7. client' \in [Callers -> {Idle} \cup MountRequest' \cup UnmountRequest']
    <3>1. {Idle} \cup MountRequest \cup UnmountRequest
            \subseteq {Idle} \cup MountRequest' \cup UnmountRequest'
      BY <2>5 DEF MountRequest, UnmountRequest
    <3>2. client'[c] \in MountRequest'
      BY <2>2, <2>5, <2>6 DEF MountRequest, Callers
    <3>. QED
      BY <2>6, <3>1, <3>2
  <2>8. mounts' \in [MountPoints -> Numbers' \cup {None}] /\ fused' \in [MountPoints -> Numbers' \cup {None}]
    BY <2>5, <2>6
  <2>9. lifecycle' \in {Unlocked} \cup ({"client"} \X Clients) \cup ({"task"} \X Numbers')
    BY <2>5, <2>6
  <2>. QED
    BY <2>5, <2>6, <2>7, <2>8, <2>9
<1>15. ASSUME NEW c \in Clients, MountSpawn(c) PROVE TypeOK'
  BY <1>14, <1>15 DEF SpawnHasManager, MountSpawn
<1>. QED
  BY <1>2, <1>4, <1>5, <1>7, <1>9, <1>10, <1>11, <1>12, <1>13, <1>15
     DEF Next, Mount, Host, Shutdown

(***************************************************************************)
(* The inductive invariant.  The lifecycle mutex is held by the client in  *)
(* start_mount or by the task between its two removals, and by nobody else.*)
(***************************************************************************)
Active == Live \cup {"returned"}
Inserting(c, m) ==
  client[c].op = "mount" /\ client[c].step = "insert" /\ client[c].number = m

MutexHeld ==
  /\ Running => \A c \in Clients : client[c].op = "mount" <=> lifecycle = <<"client", c>>
  /\ \A m \in Numbers : host[m].stage = "removed" <=> lifecycle = <<"task", m>>

(* An entry stands for an active task, and every active task has its entry *)
(* or a client about to insert it.                                         *)
Registered ==
  Running =>
    /\ \A p \in MountPoints : mounts[p] # None =>
         host[mounts[p]].point = p /\ host[mounts[p]].stage \in Active
    /\ \A m \in Numbers : host[m].stage \in Active =>
         mounts[host[m].point] = m \/ \E c \in Clients : Inserting(c, m)

Starting ==
  Running => \A c \in Clients : client[c].op = "mount" =>
    /\ mounts[client[c].point] = None
    /\ client[c].step = "insert" =>
         /\ host[client[c].number].point = client[c].point
         /\ host[client[c].number].instance = client[c].instance
         /\ host[client[c].number].stage \in Active

FusedMounted ==
  \A p \in MountPoints : fused[p] # None =>
    host[fused[p]].point = p /\ host[fused[p]].stage = "mounted"

(* The pool has the manager of every active task, and no other but while   *)
(* somebody holds the mutex.                                               *)
PoolExact ==
  Running =>
    /\ \A m \in Numbers : host[m].stage \in Active => pool[host[m].instance] = host[m].manager
    /\ \A i \in Instances : pool[i] # None =>
         \/ ~IsIdle(i)
         \/ \E c \in Clients : client[c].op = "mount" /\ client[c].step # "pool"
                               /\ client[c].instance = i
         \/ \E m \in Numbers : host[m].stage = "removed" /\ host[m].instance = i

(* A request to unmount is about the mount it saw, until that is over.     *)
UnmountSaw ==
  Running => \A c \in Callers : client[c].op = "unmount" =>
    /\ host[client[c].saw].point = client[c].point
    /\ \/ host[client[c].saw].stage \in {"removed", "gone"}
       \/ mounts[client[c].point] = client[c].saw

(* While serve shuts down a live mount is excused or still to be unmounted.*)
ShutdownCovers ==
  server.state = "stopping" => \A m \in Numbers : host[m].stage \in Live =>
    \/ m \in excused
    \/ /\ mounts[host[m].point] = m
       /\ \/ host[m].point \in server.left
          \/ client[Serve].op = "unmount" /\ client[Serve].point = host[m].point

DInv ==
  /\ TypeOK /\ MutexHeld /\ Registered /\ Starting /\ FusedMounted
  /\ SpawnHasManager /\ PoolExact /\ UnmountSaw /\ ShutdownCovers
  /\ UnmountedMeansSynced /\ CutOffIsExcused

LEMMA DInit == Init => DInv
<1>. SUFFICES ASSUME Init PROVE DInv
  OBVIOUS
<1>1. Numbers = {} /\ \A c \in Callers : client[c] = Idle
  BY DEF Init, Numbers
<1>2. \A c \in Callers : client[c].op = "idle"
  BY <1>1 DEF Idle
<1>3. \A c \in Clients : lifecycle # <<"client", c>>
  BY DEF Init, Unlocked
<1>4. MutexHeld
  BY <1>1, <1>2, <1>3 DEF MutexHeld, Callers
<1>5. Registered /\ Starting /\ FusedMounted
  BY <1>1, <1>2 DEF Init, Registered, Starting, FusedMounted, Callers
<1>6. SpawnHasManager /\ PoolExact /\ UnmountSaw /\ ShutdownCovers
  BY <1>1, <1>2 DEF Init, SpawnHasManager, PoolExact, UnmountSaw, ShutdownCovers, Callers
<1>7. UnmountedMeansSynced /\ CutOffIsExcused
  BY <1>1 DEF Init, UnmountedMeansSynced, CutOffIsExcused
<1>. QED
  BY <1>4, <1>5, <1>6, <1>7, TypeInit DEF DInv

(***************************************************************************)
(* What the types give about the requests and the mounts.                  *)
(***************************************************************************)
LEMMA Typed ==
  ASSUME TypeOK
  PROVE  /\ Numbers \subseteq Nat \ {0}
         /\ \A m \in Numbers : host[m] \in Hosted
         /\ \A c \in Callers :
              /\ client[c].op \in {"idle", "mount", "unmount"}
              /\ client[c].op = "idle" <=> client[c] = Idle
              /\ client[c].op = "mount" =>
                   /\ client[c].point \in MountPoints /\ client[c].instance \in Instances
                   /\ client[c].step \in {"pool", "spawn", "insert"}
                   /\ client[c].step = "insert" => client[c].number \in Numbers
              /\ client[c].op = "unmount" =>
                   /\ client[c].point \in MountPoints /\ client[c].saw \in Numbers
<1>1. Numbers = 1..Len(host) /\ Len(host) \in Nat
  BY DEF Numbers, TypeOK
<1>2. \A m \in Numbers : host[m] \in Hosted
  BY <1>1 DEF TypeOK
<1>3. ASSUME NEW c \in Callers
      PROVE  client[c] \in {Idle} \cup MountRequest \cup UnmountRequest
  BY DEF TypeOK
<1>4. ASSUME NEW c \in Callers
      PROVE  /\ client[c].op \in {"idle", "mount", "unmount"}
             /\ client[c].op = "idle" <=> client[c] = Idle
             /\ client[c].op = "mount" =>
                  /\ client[c].point \in MountPoints /\ client[c].instance \in Instances
                  /\ client[c].step \in {"pool", "spawn", "insert"}
                  /\ client[c].step = "insert" => client[c].number \in Numbers
             /\ client[c].op = "unmount" =>
                  /\ client[c].point \in MountPoints /\ client[c].saw \in Numbers
  BY <1>3 DEF Idle, MountRequest, UnmountRequest
<1>. QED
  BY <1>1, <1>2, <1>4

(* Only one holds the mutex.                                               *)
LEMMA MutexExcludes ==
  ASSUME TypeOK, MutexHeld, Running
  PROVE  /\ \A c, d \in Clients :
              client[c].op = "mount" /\ client[d].op = "mount" => c = d
         /\ \A c \in Clients, m \in Numbers :
              ~(client[c].op = "mount" /\ host[m].stage = "removed")
         /\ \A m, n \in Numbers :
              host[m].stage = "removed" /\ host[n].stage = "removed" => m = n
         /\ Free => /\ \A c \in Clients : client[c].op # "mount"
                    /\ \A m \in Numbers : host[m].stage # "removed"
<1>1. \A c, d : <<"client", c>> = <<"client", d>> => c = d
  OBVIOUS
<1>2. \A c, d : <<"task", c>> = <<"task", d>> => c = d
  OBVIOUS
<1>3. \A c, d : <<"client", c>> # <<"task", d>>
  OBVIOUS
<1>4. \A c : <<"client", c>> # Unlocked /\ <<"task", c>> # Unlocked
  BY DEF Unlocked
<1>. QED
  BY <1>1, <1>2, <1>3, <1>4 DEF MutexHeld, Free

(***************************************************************************)
(* start_mount, step by step.                                              *)
(***************************************************************************)
LEMMA MountBeginHolds ==
  ASSUME DInv, TypeOK', NEW c \in Clients, NEW p \in MountPoints, NEW i \in Instances,
         MountBegin(c, p, i)
  PROVE  DInv'
<1>. USE DEF DInv
<1>1. /\ UNCHANGED <<mounts, pool, host, fused, server, confirmed, excused>>
      /\ Numbers' = Numbers /\ Running /\ Running'
      /\ client[c] = Idle /\ mounts[p] = None /\ lifecycle' = <<"client", c>>
      /\ Free
  BY DEF MountBegin, Numbers, Running
<1>2. /\ c \in Callers /\ client[c].op = "idle"
      /\ client'[c].op = "mount" /\ client'[c].step = "pool" /\ client'[c].point = p
      /\ client'[c].instance = i
      /\ \A d \in Callers \ {c} : client'[d] = client[d]
  BY DEF MountBegin, Callers, Idle, TypeOK
<1>3. /\ \A d \in Clients : client[d].op # "mount"
      /\ \A m \in Numbers : host[m].stage # "removed"
  BY <1>1, MutexExcludes
<1>4. MutexHeld'
  <2>1. \A d \in Clients : client'[d].op = "mount" <=> d = c
    BY <1>2, <1>3 DEF Callers
  <2>2. \A d \in Clients : lifecycle' = <<"client", d>> <=> d = c
    BY <1>1
  <2>3. \A m \in Numbers : lifecycle' # <<"task", m>>
    BY <1>1
  <2>. QED
    BY <1>1, <1>3, <2>1, <2>2, <2>3 DEF MutexHeld
<1>5. \A d \in Clients : client'[d].op = "mount" => d = c
  BY <1>2, <1>3 DEF Callers
<1>6. Registered' /\ Starting' /\ FusedMounted'
  BY <1>1, <1>2, <1>3, <1>5 DEF Registered, Starting, FusedMounted, Inserting
<1>7. SpawnHasManager' /\ PoolExact' /\ UnmountSaw' /\ ShutdownCovers'
  <2>1. SpawnHasManager' /\ PoolExact'
    BY <1>1, <1>2, <1>3, <1>5 DEF SpawnHasManager, PoolExact, IsIdle
  <2>2. \A d \in Callers : client'[d].op = "unmount" => client'[d] = client[d]
    BY <1>2
  <2>3. client[Serve].op = "unmount" => client'[Serve] = client[Serve]
    BY <1>2 DEF Callers
  <2>. QED
    BY <1>1, <2>1, <2>2, <2>3 DEF UnmountSaw, ShutdownCovers
<1>8. UnmountedMeansSynced' /\ CutOffIsExcused'
  BY <1>1 DEF UnmountedMeansSynced, CutOffIsExcused
<1>. QED
  BY <1>4, <1>6, <1>7, <1>8

LEMMA SharedBufferManagerHolds ==
  ASSUME DInv, TypeOK', NEW c \in Clients, SharedBufferManager(c)
  PROVE  DInv'
<1>. USE DEF DInv
<1>. DEFINE i == client[c].instance
<1>1. /\ UNCHANGED <<mounts, lifecycle, host, fused, server, confirmed, excused>>
      /\ Numbers' = Numbers /\ Running /\ Running'
      /\ client[c].op = "mount" /\ client[c].step = "pool"
  BY DEF SharedBufferManager, Numbers, Running
<1>2. c \in Callers /\ i \in Instances
  BY <1>1, Typed DEF Callers
<1>3. /\ client'[c].op = "mount" /\ client'[c].step = "spawn"
      /\ client'[c].point = client[c].point /\ client'[c].instance = i
      /\ \A d \in Callers \ {c} : client'[d] = client[d]
  <2>0. client[c] \in {Idle} \cup MountRequest \cup UnmountRequest
    BY <1>2 DEF TypeOK
  <2>1. client[c] \in MountRequest
    BY <1>1, <2>0 DEF Idle, UnmountRequest
  <2>2. client' = [client EXCEPT ![c].step = "spawn"]
    BY DEF SharedBufferManager
  <2>. QED
    BY <1>1, <1>2, <2>1, <2>2 DEF TypeOK, MountRequest
<1>4. /\ pool'[i] # None
      /\ \A j \in Instances : pool[j] # None => pool'[j] = pool[j]
      /\ \A j \in Instances \ {i} : pool'[j] = pool[j]
  BY <1>2, Typed DEF SharedBufferManager, TypeOK, None
<1>. HIDE DEF i
<1>5. \A d \in Callers : client'[d].op = client[d].op
  BY <1>1, <1>3
<1>6. MutexHeld'
  BY <1>1, <1>5 DEF MutexHeld, Callers
<1>7. \A d \in Clients, m \in Numbers : Inserting(d, m)' <=> Inserting(d, m)
  BY <1>1, <1>3 DEF Inserting, Callers
<1>8. Registered' /\ Starting' /\ FusedMounted'
  BY <1>1, <1>3, <1>7 DEF Registered, Starting, FusedMounted, Callers
<1>9. SpawnHasManager'
  BY <1>1, <1>2, <1>3, <1>4, Typed DEF SpawnHasManager, Callers
<1>10. PoolExact'
  <2>1. \A m \in Numbers : host[m].stage \in Active => pool'[host[m].instance] = host[m].manager
    <3>1. \A m \in Numbers : host[m].instance \in Instances /\ host[m].manager # None
      BY Typed DEF Hosted, None
    <3>. QED
      BY <1>1, <1>4, <3>1 DEF PoolExact
  <2>2. \A j \in Instances : j # i /\ pool'[j] # None =>
         \/ ~IsIdle(j)'
         \/ \E d \in Clients : client'[d].op = "mount" /\ client'[d].step # "pool"
                               /\ client'[d].instance = j
         \/ \E m \in Numbers : host[m].stage = "removed" /\ host[m].instance = j
    BY <1>1, <1>3, <1>4 DEF PoolExact, IsIdle, Callers
  <2>. QED
    BY <1>1, <1>3, <2>1, <2>2 DEF PoolExact
<1>11. UnmountSaw' /\ ShutdownCovers'
  <2>1. \A d \in Callers : client'[d].op = "unmount" => client'[d] = client[d]
    BY <1>3
  <2>2. client[Serve].op = "unmount" => client'[Serve] = client[Serve]
    BY <1>1, <1>3 DEF Callers
  <2>. QED
    BY <1>1, <2>1, <2>2 DEF UnmountSaw, ShutdownCovers
<1>12. UnmountedMeansSynced' /\ CutOffIsExcused'
  BY <1>1 DEF UnmountedMeansSynced, CutOffIsExcused
<1>. QED
  BY <1>6, <1>8, <1>9, <1>10, <1>11, <1>12

LEMMA MountSpawnHolds ==
  ASSUME DInv, TypeOK', NEW c \in Clients, MountSpawn(c)
  PROVE  DInv'
<1>. USE DEF DInv
<1>. DEFINE r == client[c]
<1>0. PICK n : n = Len(host) + 1
  OBVIOUS
<1>1. /\ UNCHANGED <<mounts, pool, lifecycle, fused, server, confirmed>>
      /\ Running /\ Running' /\ r.op = "mount" /\ r.step = "spawn"
      /\ excused \subseteq excused'
      /\ server.state = "stopping" => n \in excused'
  BY <1>0 DEF MountSpawn, Running
<1>2. c \in Callers /\ r.point \in MountPoints /\ r.instance \in Instances
  BY <1>1, Typed DEF Callers
<1>3. /\ client'[c].op = "mount" /\ client'[c].step = "insert" /\ client'[c].number = n
      /\ client'[c].point = r.point /\ client'[c].instance = r.instance
      /\ \A d \in Callers \ {c} : client'[d] = client[d]
  BY <1>0, <1>2 DEF MountSpawn, TypeOK
<1>4. pool[r.instance] # None
  BY <1>1 DEF SpawnHasManager
<1>5. /\ Numbers' = Numbers \cup {n} /\ n \notin Numbers
      /\ \A m \in Numbers : host'[m] = host[m]
      /\ host'[n].point = r.point /\ host'[n].instance = r.instance
      /\ host'[n].manager = pool[r.instance] /\ host'[n].stage = "starting"
  <2>. DEFINE h == [point |-> r.point, instance |-> r.instance,
                    manager |-> pool[r.instance], stage |-> "starting"]
  <2>1. h \in Hosted
    BY <1>2, <1>4 DEF Hosted, Stages, Live, None, TypeOK
  <2>2. host' = Append(host, h)
    BY DEF MountSpawn
  <2>3. /\ h.point = r.point /\ h.instance = r.instance
        /\ h.manager = pool[r.instance] /\ h.stage = "starting"
    OBVIOUS
  <2>. HIDE DEF h, r
  <2>4. /\ Numbers' = Numbers \cup {n} /\ n \notin Numbers /\ host'[n] = h
        /\ \A m \in Numbers : host'[m] = host[m]
    BY <1>0, <2>1, <2>2, HostAppend DEF TypeOK
  <2>. QED
    BY <2>3, <2>4
<1>. HIDE DEF r
<1>6. lifecycle = <<"client", c>> /\ \A m \in Numbers' : lifecycle # <<"task", m>>
  BY <1>1 DEF MutexHeld, r
<1>7. \A d \in Clients : client[d].op = "mount" => d = c
  BY <1>1, MutexExcludes DEF r
<1>8. MutexHeld'
  <2>1. \A m \in Numbers : host[m].stage # "removed"
    BY <1>6, <1>5 DEF MutexHeld
  <2>2. \A d \in Clients : client'[d].op = client[d].op
    BY <1>1, <1>3 DEF r, Callers
  <2>. QED
    BY <1>1, <1>5, <1>6, <2>1, <2>2 DEF MutexHeld
<1>9. \A m \in Numbers, d \in Clients : ~Inserting(d, m)
  BY <1>1, <1>7 DEF Inserting, r
<1>9a. Inserting(c, n)'
  BY <1>3 DEF Inserting
<1>10. /\ \A p \in MountPoints : mounts[p] # None => mounts[p] \in Numbers
       /\ \A p \in MountPoints : fused[p] # None => fused[p] \in Numbers
  BY DEF TypeOK
<1>11. Registered' /\ FusedMounted'
  <2>1. \A p \in MountPoints : mounts'[p] # None =>
          host'[mounts'[p]].point = p /\ host'[mounts'[p]].stage \in Active
    BY <1>1, <1>5, <1>10 DEF Registered
  <2>2. \A m \in Numbers : host'[m].stage \in Active => mounts'[host'[m].point] = m
    BY <1>1, <1>5, <1>9 DEF Registered
  <2>3. Registered'
    BY <1>5, <1>9a, <2>1, <2>2 DEF Registered
  <2>4. FusedMounted'
    BY <1>1, <1>5, <1>10 DEF FusedMounted
  <2>. QED
    BY <2>3, <2>4
<1>12. \A d \in Clients : client'[d].op = "mount" => d = c
  BY <1>3, <1>7 DEF Callers
<1>13. Starting'
  <2>1. mounts[r.point] = None
    BY <1>1 DEF Starting, r
  <2>. QED
    BY <1>1, <1>3, <1>5, <1>12, <2>1 DEF Starting, Active, Live
<1>14. SpawnHasManager'
  BY <1>1, <1>3, <1>4, <1>12 DEF SpawnHasManager
<1>15. PoolExact'
  <2>1. \A m \in Numbers' : host'[m].stage \in Active => pool'[host'[m].instance] = host'[m].manager
    BY <1>1, <1>5 DEF PoolExact
  <2>2. \A i \in Instances : IsIdle(i)' => IsIdle(i)
    BY <1>1, <1>5, <1>10 DEF IsIdle
  <2>3. \A i \in Instances : pool[i] # None =>
          ~IsIdle(i) \/ i = r.instance \/ \E m \in Numbers : host[m].stage = "removed" /\ host[m].instance = i
    BY <1>1, <1>7 DEF PoolExact, r
  <2>. QED
    BY <1>1, <1>3, <1>5, <2>1, <2>2, <2>3 DEF PoolExact
<1>16. UnmountSaw' /\ ShutdownCovers'
  <2>1. \A d \in Callers : client'[d].op = "unmount" =>
          client'[d] = client[d] /\ client[d].saw \in Numbers
    BY <1>3, Typed
  <2>2. client[Serve].op = "unmount" => client'[Serve] = client[Serve]
    BY <1>1, <1>3 DEF Callers, r
  <2>3. UnmountSaw'
    BY <1>1, <1>5, <2>1 DEF UnmountSaw
  <2>4. ShutdownCovers'
    BY <1>1, <1>5, <2>2 DEF ShutdownCovers
  <2>. QED
    BY <2>3, <2>4
<1>17. UnmountedMeansSynced' /\ CutOffIsExcused'
  BY <1>1, <1>5 DEF UnmountedMeansSynced, CutOffIsExcused, TypeOK
<1>. QED
  BY <1>8, <1>11, <1>13, <1>14, <1>15, <1>16, <1>17

LEMMA MountInsertHolds ==
  ASSUME DInv, TypeOK', NEW c \in Clients, MountInsert(c)
  PROVE  DInv'
<1>. USE DEF DInv
<1>0. PICK p, n, i : p = client[c].point /\ n = client[c].number /\ i = client[c].instance
  OBVIOUS
<1>1. /\ UNCHANGED <<pool, host, fused, server, confirmed, excused>>
      /\ Numbers' = Numbers /\ Running /\ Running' /\ lifecycle' = Unlocked
      /\ client[c].op = "mount" /\ client[c].step = "insert"
  BY DEF MountInsert, Numbers, Running
<1>2. /\ c \in Callers /\ p \in MountPoints /\ n \in Numbers /\ n # None
  BY <1>0, <1>1, Typed DEF Callers, None
<1>3. /\ client'[c].op = "idle"
      /\ \A d \in Callers \ {c} : client'[d] = client[d]
      /\ mounts'[p] = n
      /\ \A x \in MountPoints \ {p} : mounts'[x] = mounts[x]
  BY <1>0, <1>2 DEF MountInsert, TypeOK, Idle
<1>4. /\ mounts[p] = None /\ host[n].point = p /\ host[n].instance = i
      /\ host[n].stage \in Active
  BY <1>0, <1>1 DEF Starting
<1>5. \A d \in Clients : client[d].op = "mount" => d = c
  BY <1>1, MutexExcludes
<1>6. \A m \in Numbers : host[m].stage # "removed"
  BY <1>1, MutexExcludes
<1>7. \A d \in Clients : client'[d].op # "mount"
  BY <1>3, <1>5 DEF Callers
<1>8. \A m \in Numbers, d \in Clients : Inserting(d, m) => m = n
  BY <1>0, <1>5 DEF Inserting
<1>9. \A x : lifecycle' # <<"client", x>> /\ lifecycle' # <<"task", x>>
  BY <1>1 DEF Unlocked
<1>10. MutexHeld'
  BY <1>1, <1>6, <1>7, <1>9 DEF MutexHeld
<1>11. \A m \in Numbers : host[m].point \in MountPoints
  BY Typed DEF Hosted
<1>12. Registered'
  <2>1. \A x \in MountPoints : mounts'[x] # None =>
          host[mounts'[x]].point = x /\ host[mounts'[x]].stage \in Active
    BY <1>1, <1>3, <1>4 DEF Registered
  <2>2. \A m \in Numbers : host[m].stage \in Active => mounts'[host[m].point] = m
    BY <1>1, <1>2, <1>3, <1>4, <1>8, <1>11, Typed DEF Registered, None
  <2>. QED
    BY <1>1, <2>1, <2>2 DEF Registered
<1>13. Starting' /\ FusedMounted' /\ SpawnHasManager'
  BY <1>1, <1>7 DEF Starting, FusedMounted, SpawnHasManager
<1>14. PoolExact'
  <2>1. ~IsIdle(i)'
    BY <1>1, <1>2, <1>3, <1>4 DEF IsIdle
  <2>2. \A j \in Instances : ~IsIdle(j) => ~IsIdle(j)'
    BY <1>1, <1>3, <1>4 DEF IsIdle
  <2>3. \A j \in Instances : pool[j] # None => ~IsIdle(j) \/ j = i
    BY <1>0, <1>1, <1>5, <1>6 DEF PoolExact
  <2>. QED
    BY <1>1, <2>1, <2>2, <2>3 DEF PoolExact
<1>15. UnmountSaw' /\ ShutdownCovers'
  <2>1. \A d \in Callers : client'[d].op = "unmount" =>
          /\ client'[d] = client[d] /\ client[d].point \in MountPoints
          /\ client[d].saw \in Numbers /\ client[d].saw # None
    BY <1>3, Typed DEF None
  <2>2. client[Serve].op = "unmount" => client'[Serve] = client[Serve]
    BY <1>1, <1>3 DEF Callers
  <2>3. UnmountSaw'
    BY <1>1, <1>3, <1>4, <2>1 DEF UnmountSaw
  <2>4. ShutdownCovers'
    BY <1>1, <1>3, <1>4, <1>11, <2>2, Typed DEF ShutdownCovers, None
  <2>. QED
    BY <2>3, <2>4
<1>16. UnmountedMeansSynced' /\ CutOffIsExcused'
  BY <1>1 DEF UnmountedMeansSynced, CutOffIsExcused
<1>. QED
  BY <1>10, <1>12, <1>13, <1>14, <1>15, <1>16

(***************************************************************************)
(* Requests to unmount.  What a client does about its own request leaves   *)
(* the starts of others as they are.                                       *)
(***************************************************************************)
LEMMA UnmountRequestHolds ==
  ASSUME DInv, Running, Running', NEW c \in Callers,
         client[c].op # "mount", client'[c].op # "mount",
         \A d \in Callers \ {c} : client'[d] = client[d],
         UNCHANGED <<mounts, pool, lifecycle>>, Numbers' = Numbers,
         \A m \in Numbers :
           /\ host'[m].point = host[m].point /\ host'[m].instance = host[m].instance
           /\ host'[m].manager = host[m].manager
           /\ host'[m].stage = host[m].stage
              \/ (host[m].stage \in Live /\ host'[m].stage = "final_sync")
  PROVE  MutexHeld' /\ Registered' /\ Starting' /\ SpawnHasManager' /\ PoolExact'
<1>. USE DEF DInv
<1>1. \A d \in Clients : client'[d].op = "mount" => d # c /\ client'[d] = client[d]
  BY DEF Callers
<1>2. \A d \in Clients : client[d].op = "mount" => d # c /\ client'[d] = client[d]
  BY DEF Callers
<1>3. \A m \in Numbers : host'[m].stage \in Active <=> host[m].stage \in Active
  BY DEF Active, Live
<1>4. \A m \in Numbers : host'[m].stage = "removed" <=> host[m].stage = "removed"
  BY DEF Live
<1>5. \A p \in MountPoints : mounts[p] # None => mounts[p] \in Numbers
  BY DEF TypeOK
<1>6. MutexHeld'
  BY <1>1, <1>2, <1>4 DEF MutexHeld
<1>7. Registered'
  <2>1. \A m \in Numbers, d \in Clients : Inserting(d, m) => Inserting(d, m)'
    BY <1>2 DEF Inserting
  <2>. QED
    BY <1>3, <1>5, <2>1 DEF Registered
<1>8. Starting'
  BY <1>1, <1>3, Typed DEF Starting, Callers
<1>9. SpawnHasManager'
  BY <1>1 DEF SpawnHasManager
<1>10. PoolExact'
  <2>1. \A i \in Instances : IsIdle(i)' => IsIdle(i)
    BY <1>5 DEF IsIdle
  <2>. QED
    BY <1>2, <1>3, <1>4, <2>1 DEF PoolExact
<1>. QED
  BY <1>6, <1>7, <1>8, <1>9, <1>10

LEMMA UnmountBeginHolds ==
  ASSUME DInv, TypeOK', NEW c \in Callers, NEW p \in MountPoints, UnmountBegin(c, p),
         UNCHANGED <<mounts, pool, lifecycle, host, fused, confirmed, excused>>,
         server' = server \/ (/\ c = Serve /\ server.state = "stopping"
                              /\ server' = [server EXCEPT !.left = @ \ {p}])
  PROVE  DInv'
<1>. USE DEF DInv
<1>1. /\ Numbers' = Numbers /\ Running /\ Running' /\ server'.state = server.state
      /\ \A x \in MountPoints \ {p} : x \in server.left => x \in server'.left
  BY DEF UnmountBegin, Numbers, Running, TypeOK
<1>2. /\ client[c].op = "idle" /\ client'[c].op = "unmount"
      /\ client'[c].point = p /\ client'[c].saw = mounts[p]
      /\ \A d \in Callers \ {c} : client'[d] = client[d]
  BY DEF UnmountBegin, Idle, TypeOK
<1>3. mounts[p] \in Numbers /\ host[mounts[p]].point = p
  BY <1>1 DEF UnmountBegin, Registered, TypeOK
<1>4. MutexHeld' /\ Registered' /\ Starting' /\ SpawnHasManager' /\ PoolExact'
  BY <1>1, <1>2, UnmountRequestHolds
<1>5. UnmountSaw'
  BY <1>1, <1>2, <1>3 DEF UnmountSaw
<1>6. ShutdownCovers'
  <2>1. CASE c = Serve
    BY <1>1, <1>2, <2>1, Typed DEF ShutdownCovers, Hosted
  <2>2. CASE c # Serve
    <3>1. server' = server /\ client'[Serve] = client[Serve]
      BY <1>2, <2>2 DEF Callers
    <3>. QED
      BY <1>1, <3>1 DEF ShutdownCovers
  <2>. QED
    BY <2>1, <2>2
<1>7. FusedMounted' /\ UnmountedMeansSynced' /\ CutOffIsExcused'
  BY <1>1 DEF FusedMounted, UnmountedMeansSynced, CutOffIsExcused
<1>. QED
  BY <1>4, <1>5, <1>6, <1>7

LEMMA UnmountCommandHolds ==
  ASSUME DInv, TypeOK', NEW c \in Callers, UnmountCommand(c)
  PROVE  DInv'
<1>. USE DEF DInv
<1>0. PICK p, saw : p = client[c].point /\ saw = client[c].saw
  OBVIOUS
<1>1. /\ UNCHANGED <<mounts, pool, lifecycle, server, confirmed>>
      /\ Running /\ Running' /\ client[c].op = "unmount"
  BY DEF UnmountCommand, Running
<1>2. p \in MountPoints /\ saw \in Numbers
  BY <1>0, <1>1, Typed
<1>3. CASE /\ fused[p] # None
           /\ fused' = [fused EXCEPT ![p] = None]
           /\ host' = [host EXCEPT ![fused[p]].stage = "final_sync"]
           /\ client' = [client EXCEPT ![c].step = "wait"]
           /\ UNCHANGED excused
  <2>0. PICK m : m = fused[p]
    OBVIOUS
  <2>1. m \in Numbers /\ host[m].stage = "mounted" /\ host[m].point = p
    BY <1>2, <1>3, <2>0 DEF FusedMounted, TypeOK
  <2>2. /\ Numbers' = Numbers /\ host'[m].stage = "final_sync"
        /\ \A n \in Numbers :
             /\ host'[n].point = host[n].point /\ host'[n].instance = host[n].instance
             /\ host'[n].manager = host[n].manager
             /\ n # m => host'[n].stage = host[n].stage
    <3>1. host' = [host EXCEPT ![m].stage = "final_sync"]
      BY <1>3, <2>0
    <3>2. "final_sync" \in Stages /\ host \in Seq(Hosted)
      BY DEF TypeOK, Stages, Live
    <3>. QED
      BY <2>1, <3>1, <3>2, HostChange
  <2>3. /\ client'[c].op = "unmount" /\ client'[c].point = p /\ client'[c].saw = saw
        /\ \A d \in Callers \ {c} : client'[d] = client[d]
    <3>0. client[c] \in {Idle} \cup MountRequest \cup UnmountRequest
      BY DEF TypeOK
    <3>1. client[c] \in UnmountRequest
      BY <1>1, <3>0 DEF Idle, MountRequest
    <3>. QED
      BY <1>0, <1>1, <1>3, <3>1 DEF TypeOK, UnmountRequest
  <2>4. MutexHeld' /\ Registered' /\ Starting' /\ SpawnHasManager' /\ PoolExact'
    <3>1. \A n \in Numbers : host'[n].stage = host[n].stage
              \/ (host[n].stage \in Live /\ host'[n].stage = "final_sync")
      BY <2>1, <2>2 DEF Live
    <3>. QED
      BY <1>1, <2>2, <2>3, <3>1, UnmountRequestHolds
  <2>5. FusedMounted'
    BY <1>2, <1>3, <2>0, <2>1, <2>2 DEF FusedMounted, TypeOK
  <2>6. UnmountSaw'
    <3>1. \A d \in Callers : client'[d].op = "unmount" =>
            /\ client[d].op = "unmount" /\ client[d].saw \in Numbers
            /\ client'[d].point = client[d].point /\ client'[d].saw = client[d].saw
      BY <1>0, <1>1, <2>3, Typed
    <3>. QED
      BY <1>1, <2>1, <2>2, <3>1 DEF UnmountSaw
  <2>7. ShutdownCovers'
    <3>1. \A n \in Numbers : host'[n].stage \in Live => host[n].stage \in Live
      BY <2>1, <2>2 DEF Live
    <3>2. client[Serve].op = "unmount" =>
            client'[Serve].op = "unmount" /\ client'[Serve].point = client[Serve].point
      BY <1>0, <2>3 DEF Callers
    <3>. QED
      BY <1>1, <1>3, <2>2, <3>1, <3>2 DEF ShutdownCovers
  <2>8. UnmountedMeansSynced' /\ CutOffIsExcused'
    BY <1>1, <1>3, <2>1, <2>2 DEF UnmountedMeansSynced, CutOffIsExcused, TypeOK
  <2>. QED
    BY <2>4, <2>5, <2>6, <2>7, <2>8
<1>4. CASE /\ client' = [client EXCEPT ![c] = Idle]
           /\ excused' = excused \cup ({mounts[p]} \ {None})
           /\ UNCHANGED <<fused, host>>
  <2>1. /\ client'[c].op = "idle" /\ Numbers' = Numbers
        /\ \A d \in Callers \ {c} : client'[d] = client[d]
    BY <1>4 DEF Idle, TypeOK, Numbers
  <2>2. MutexHeld' /\ Registered' /\ Starting' /\ SpawnHasManager' /\ PoolExact'
    BY <1>1, <1>4, <2>1, UnmountRequestHolds
  <2>3. UnmountSaw'
    BY <1>1, <1>4, <2>1 DEF UnmountSaw
  <2>4. ShutdownCovers'
    <3>1. CASE c = Serve
      BY <1>0, <1>1, <1>4, <2>1, <3>1, Typed DEF ShutdownCovers, None
    <3>2. CASE c # Serve
      <4>1. client'[Serve] = client[Serve]
        BY <2>1, <3>2 DEF Callers
      <4>. QED
        BY <1>1, <1>4, <2>1, <4>1 DEF ShutdownCovers
    <3>. QED
      BY <3>1, <3>2
  <2>5. FusedMounted' /\ UnmountedMeansSynced' /\ CutOffIsExcused'
    BY <1>1, <1>4, <2>1 DEF FusedMounted, UnmountedMeansSynced, CutOffIsExcused
  <2>. QED
    BY <2>2, <2>3, <2>4, <2>5
<1>. QED
  BY <1>0, <1>3, <1>4 DEF UnmountCommand

LEMMA UnmountAnswerHolds ==
  ASSUME DInv, TypeOK', NEW c \in Callers, UnmountDone(c) \/ UnmountTimeout(c)
  PROVE  DInv'
<1>. USE DEF DInv
<1>0. PICK p, saw : p = client[c].point /\ saw = client[c].saw
  OBVIOUS
<1>1. /\ UNCHANGED <<mounts, pool, lifecycle, host, fused, server>>
      /\ Numbers' = Numbers /\ Running /\ Running' /\ client[c].op = "unmount"
      /\ excused \subseteq excused'
  BY DEF UnmountDone, UnmountTimeout, Running, Numbers
<1>2. /\ client'[c].op = "idle"
      /\ \A d \in Callers \ {c} : client'[d] = client[d]
  BY DEF UnmountDone, UnmountTimeout, Idle, TypeOK
<1>3. p \in MountPoints /\ saw \in Numbers /\ saw # None
  BY <1>0, <1>1, Typed DEF None
<1>4. MutexHeld' /\ Registered' /\ Starting' /\ SpawnHasManager' /\ PoolExact'
  BY <1>1, <1>2, UnmountRequestHolds
<1>5. FusedMounted' /\ UnmountSaw'
  BY <1>1, <1>2 DEF FusedMounted, UnmountSaw
<1>6. UnmountedMeansSynced'
  <2>1. CASE UnmountDone(c)
    <3>1. host[saw].stage \in {"removed", "gone"}
      BY <1>0, <1>1, <1>3, <2>1 DEF UnmountDone, UnmountSaw
    <3>. QED
      BY <1>0, <1>1, <2>1, <3>1 DEF UnmountDone, UnmountedMeansSynced
  <2>2. CASE UnmountTimeout(c)
    BY <1>1, <2>2 DEF UnmountTimeout, UnmountedMeansSynced
  <2>. QED
    BY <2>1, <2>2
<1>7. CutOffIsExcused'
  BY <1>1 DEF CutOffIsExcused
<1>8. ShutdownCovers'
  <2>1. CASE c # Serve
    <3>1. client'[Serve] = client[Serve]
      BY <1>2, <2>1 DEF Callers
    <3>. QED
      BY <1>1, <3>1 DEF ShutdownCovers
  <2>2. CASE c = Serve /\ UnmountTimeout(c)
    BY <1>0, <1>1, <2>2 DEF ShutdownCovers, UnmountTimeout
  <2>3. CASE c = Serve /\ UnmountDone(c)
    BY <1>0, <1>1, <2>3, Typed DEF ShutdownCovers, UnmountDone, None
  <2>. QED
    BY <2>1, <2>2, <2>3
<1>. QED
  BY <1>4, <1>5, <1>6, <1>7, <1>8

(***************************************************************************)
(* The hosting task.  A task that advances within its active stages        *)
(* changes nothing the others rely on but the kernel's mount table.        *)
(***************************************************************************)
LEMMA TaskAdvances ==
  ASSUME DInv, NEW m \in Numbers, NEW from, NEW to \in Active, Advance(m, from, to),
         from \in Live, UNCHANGED <<mounts, pool, lifecycle, client, server, confirmed, excused>>
  PROVE  /\ MutexHeld' /\ Registered' /\ Starting' /\ SpawnHasManager' /\ PoolExact'
         /\ UnmountSaw' /\ ShutdownCovers' /\ UnmountedMeansSynced' /\ CutOffIsExcused'
         /\ Numbers' = Numbers /\ host'[m].stage = to
         /\ \A n \in Numbers : host'[n].point = host[n].point
                               /\ (n # m => host'[n].stage = host[n].stage)
<1>. USE DEF DInv
<1>1. Running /\ Running' /\ host[m].stage = from
  BY DEF Advance, Running
<1>2. /\ Numbers' = Numbers /\ host'[m].stage = to
      /\ \A n \in Numbers :
           /\ host'[n].point = host[n].point /\ host'[n].instance = host[n].instance
           /\ host'[n].manager = host[n].manager
           /\ n # m => host'[n].stage = host[n].stage
  BY HostChange DEF Advance, TypeOK, Active, Stages
<1>3. \A n \in Numbers : /\ host'[n].stage \in Active <=> host[n].stage \in Active
                         /\ host'[n].stage = "removed" <=> host[n].stage = "removed"
                         /\ host'[n].stage = "gone" <=> host[n].stage = "gone"
                         /\ host'[n].stage = "killed" <=> host[n].stage = "killed"
                         /\ host'[n].stage \in Live => host[n].stage \in Live
  BY <1>1, <1>2 DEF Active, Live
<1>4. \A p \in MountPoints : mounts[p] # None => mounts[p] \in Numbers
  BY DEF TypeOK
<1>5. \A c \in Clients : client[c].op = "mount" /\ client[c].step = "insert" => client[c].number \in Numbers
  BY Typed DEF Callers
<1>6. \A n \in Numbers, c \in Clients : Inserting(c, n)' <=> Inserting(c, n)
  BY DEF Inserting
<1>7. MutexHeld' /\ Registered' /\ Starting'
  BY <1>1, <1>2, <1>3, <1>4, <1>5, <1>6 DEF MutexHeld, Registered, Starting
<1>8. SpawnHasManager' /\ PoolExact'
  <2>1. \A i \in Instances : IsIdle(i)' => IsIdle(i)
    BY <1>2, <1>4 DEF IsIdle
  <2>. QED
    BY <1>1, <1>2, <1>3, <2>1 DEF SpawnHasManager, PoolExact
<1>9. UnmountSaw'
  BY <1>1, <1>2, <1>3, Typed DEF UnmountSaw
<1>10. ShutdownCovers'
  BY <1>1, <1>2, <1>3 DEF ShutdownCovers
<1>11. UnmountedMeansSynced'
  <2>1. confirmed \subseteq Numbers
    BY DEF TypeOK
  <2>. QED
    BY <1>3, <2>1 DEF UnmountedMeansSynced
<1>12. CutOffIsExcused'
  BY <1>2, <1>3 DEF CutOffIsExcused
<1>. QED
  BY <1>2, <1>7, <1>8, <1>9, <1>10, <1>11, <1>12

LEMMA TaskAdvancesHolds ==
  ASSUME DInv, TypeOK', NEW m \in Numbers,
         TaskMounted(m) \/ TaskFails(m) \/ UnmountedOutside(m) \/ TaskReturns(m)
  PROVE  DInv'
<1>1. \A p \in MountPoints : fused[p] # None =>
        /\ fused[p] \in Numbers
        /\ host[fused[p]].point = p /\ host[fused[p]].stage = "mounted"
  BY DEF DInv, FusedMounted, TypeOK
<1>2. host[m].point \in MountPoints
  BY Typed DEF DInv, Hosted
<1>3. CASE TaskMounted(m)
  <2>1. /\ Advance(m, "starting", "mounted")
        /\ UNCHANGED <<mounts, pool, lifecycle, client, server, confirmed, excused>>
        /\ fused' = [fused EXCEPT ![host[m].point] = m] /\ host[m].stage = "starting"
    BY <1>3 DEF TaskMounted, Advance
  <2>2. FusedMounted'
    BY <1>1, <1>2, <2>1, TaskAdvances DEF FusedMounted, Active, Live, DInv, TypeOK
  <2>. QED
    BY <2>1, <2>2, TaskAdvances DEF DInv, Active, Live
<1>4. CASE TaskFails(m) \/ TaskReturns(m)
  <2>1. PICK from \in Live \ {"mounted"} :
          /\ Advance(m, from, "returned") /\ host[m].stage = from
          /\ UNCHANGED <<mounts, pool, lifecycle, fused, client, server, confirmed, excused>>
    BY <1>4 DEF TaskFails, TaskReturns, Advance, Live
  <2>2. "returned" \in Active
    BY DEF Active
  <2>3. FusedMounted'
    BY <1>1, <2>1, <2>2, TaskAdvances DEF FusedMounted
  <2>. QED
    BY <2>1, <2>2, <2>3, TaskAdvances DEF DInv
<1>5. CASE UnmountedOutside(m)
  <2>1. /\ Advance(m, "mounted", "final_sync") /\ host[m].stage = "mounted"
        /\ UNCHANGED <<mounts, pool, lifecycle, client, server, confirmed, excused>>
        /\ fused' = [fused EXCEPT ![host[m].point] = None]
    BY <1>5 DEF UnmountedOutside, Advance
  <2>2. "final_sync" \in Active /\ "mounted" \in Live
    BY DEF Active, Live
  <2>3. FusedMounted'
    BY <1>1, <1>2, <2>1, <2>2, TaskAdvances DEF FusedMounted, DInv, TypeOK
  <2>. QED
    BY <2>1, <2>2, <2>3, TaskAdvances DEF DInv
<1>. QED
  BY <1>3, <1>4, <1>5

LEMMA TaskRemovesHolds ==
  ASSUME DInv, TypeOK', NEW m \in Numbers, TaskRemoves(m)
  PROVE  DInv'
<1>. USE DEF DInv
<1>0. PICK p : p = host[m].point
  OBVIOUS
<1>1. /\ UNCHANGED <<pool, fused, client, server, confirmed, excused>>
      /\ Running /\ Running' /\ Free /\ host[m].stage = "returned"
      /\ lifecycle' = <<"task", m>>
  BY DEF TaskRemoves, Advance, Running
<1>2. /\ Numbers' = Numbers /\ host'[m].stage = "removed"
      /\ \A n \in Numbers :
           /\ host'[n].point = host[n].point /\ host'[n].instance = host[n].instance
           /\ host'[n].manager = host[n].manager
           /\ n # m => host'[n].stage = host[n].stage
  <2>1. host' = [host EXCEPT ![m].stage = "removed"]
    BY DEF TaskRemoves, Advance
  <2>2. host \in Seq(Hosted) /\ "removed" \in Stages
    BY DEF TypeOK, Stages
  <2>. QED
    BY <2>1, <2>2, HostChange
<1>3. p \in MountPoints /\ \A n \in Numbers : host[n].point \in MountPoints /\ n # None
  BY <1>0, Typed DEF Hosted, None
<1>4. mounts'[p] = None /\ \A x \in MountPoints \ {p} : mounts'[x] = mounts[x]
  BY <1>0, <1>3 DEF TaskRemoves, TypeOK
<1>5. /\ \A c \in Clients : client[c].op # "mount"
      /\ \A n \in Numbers : host[n].stage # "removed"
  BY <1>1, MutexExcludes
<1>6. \A n \in Numbers : host[n].stage \in Active => mounts[host[n].point] = n
  BY <1>1, <1>5 DEF Registered, Inserting
<1>7. mounts[p] = m
  BY <1>0, <1>1, <1>6 DEF Active
<1>8. \A x \in MountPoints \ {p} : mounts[x] # m
  BY <1>0, <1>1, <1>3 DEF Registered
<1>9. \A x \in MountPoints : mounts[x] # None => mounts[x] \in Numbers
  BY DEF TypeOK
<1>10. MutexHeld'
  <2>1. \A c \in Clients : lifecycle' # <<"client", c>>
    BY <1>1
  <2>2. \A n \in Numbers : lifecycle' = <<"task", n>> <=> n = m
    BY <1>1
  <2>. QED
    BY <1>1, <1>2, <1>5, <2>1, <2>2 DEF MutexHeld
<1>11. Registered'
  <2>1. \A x \in MountPoints : mounts'[x] # None =>
          host'[mounts'[x]].point = x /\ host'[mounts'[x]].stage \in Active
    BY <1>1, <1>2, <1>4, <1>8, <1>9 DEF Registered
  <2>2. \A n \in Numbers : host'[n].stage \in Active => mounts'[host'[n].point] = n
    BY <1>2, <1>3, <1>4, <1>6, <1>7 DEF Active, Live
  <2>. QED
    BY <1>2, <2>1, <2>2 DEF Registered
<1>12. Starting' /\ SpawnHasManager'
  BY <1>1, <1>5 DEF Starting, SpawnHasManager
<1>13. FusedMounted'
  <2>1. \A x \in MountPoints : fused[x] # None => fused[x] \in Numbers /\ fused[x] # m
    BY <1>1 DEF FusedMounted, TypeOK
  <2>. QED
    BY <1>1, <1>2, <2>1 DEF FusedMounted
<1>14. PoolExact'
  <2>1. \A n \in Numbers : host'[n].stage \in Active => host[n].stage \in Active
    BY <1>1, <1>2 DEF Active
  <2>2. \A i \in Instances : IsIdle(i)' => IsIdle(i) \/ i = host[m].instance
    BY <1>2, <1>4, <1>7, <1>9 DEF IsIdle
  <2>. QED
    BY <1>1, <1>2, <1>5, <2>1, <2>2 DEF PoolExact
<1>15. UnmountSaw'
  <2>1. \A c \in Callers : client[c].op = "unmount" =>
          client[c].saw \in Numbers /\ client[c].point \in MountPoints
    BY Typed
  <2>. QED
    BY <1>1, <1>2, <1>4, <1>7, <2>1 DEF UnmountSaw
<1>16. ShutdownCovers'
  <2>1. \A n \in Numbers : host'[n].stage \in Live => n # m /\ host[n].stage \in Live
    BY <1>2 DEF Live
  <2>2. \A n \in Numbers : host[n].stage \in Live => host[n].stage \in Active
    BY DEF Active
  <2>. QED
    BY <1>1, <1>2, <1>3, <1>4, <1>6, <1>7, <2>1, <2>2 DEF ShutdownCovers
<1>17. UnmountedMeansSynced' /\ CutOffIsExcused'
  BY <1>1, <1>2 DEF UnmountedMeansSynced, CutOffIsExcused, TypeOK
<1>. QED
  BY <1>10, <1>11, <1>12, <1>13, <1>14, <1>15, <1>16, <1>17

LEMMA TaskDropsManagerHolds ==
  ASSUME DInv, TypeOK', NEW m \in Numbers, TaskDropsManager(m)
  PROVE  DInv'
<1>. USE DEF DInv
<1>0. PICK i : i = host[m].instance
  OBVIOUS
<1>1. /\ UNCHANGED <<mounts, fused, client, server, confirmed, excused>>
      /\ Running /\ Running' /\ host[m].stage = "removed" /\ lifecycle' = Unlocked
      /\ pool' = IF IsIdle(i) THEN [pool EXCEPT ![i] = None] ELSE pool
  BY <1>0 DEF TaskDropsManager, Advance, Running
<1>2. /\ Numbers' = Numbers /\ host'[m].stage = "gone"
      /\ \A n \in Numbers :
           /\ host'[n].point = host[n].point /\ host'[n].instance = host[n].instance
           /\ host'[n].manager = host[n].manager
           /\ n # m => host'[n].stage = host[n].stage
  <2>1. host' = [host EXCEPT ![m].stage = "gone"]
    BY DEF TaskDropsManager, Advance
  <2>2. host \in Seq(Hosted) /\ "gone" \in Stages
    BY DEF TypeOK, Stages
  <2>. QED
    BY <2>1, <2>2, HostChange
<1>3. i \in Instances
  BY <1>0, Typed DEF Hosted
<1>4. \A c \in Clients : client[c].op # "mount"
  BY <1>1, MutexExcludes
<1>5. \A n \in Numbers : host[n].stage = "removed" => n = m
  BY <1>1, MutexExcludes
<1>6. \A x : lifecycle' # <<"client", x>> /\ lifecycle' # <<"task", x>>
  BY <1>1 DEF Unlocked
<1>7. \A n \in Numbers : host'[n].stage # "removed"
  BY <1>2, <1>5
<1>8. MutexHeld'
  BY <1>1, <1>2, <1>4, <1>6, <1>7 DEF MutexHeld
<1>9. \A n \in Numbers : host'[n].stage \in Active <=> host[n].stage \in Active
  BY <1>1, <1>2 DEF Active, Live
<1>10. /\ \A x \in MountPoints : mounts[x] # None => mounts[x] \in Numbers
       /\ \A x \in MountPoints : fused[x] # None => fused[x] \in Numbers
  BY DEF TypeOK
<1>11. Registered'
  BY <1>1, <1>2, <1>4, <1>9, <1>10 DEF Registered, Inserting
<1>12. Starting' /\ SpawnHasManager'
  BY <1>1, <1>4 DEF Starting, SpawnHasManager
<1>13. FusedMounted'
  BY <1>1, <1>2, <1>10 DEF FusedMounted
<1>14. PoolExact'
  <2>1. \A n \in Numbers : host[n].stage \in Active => ~IsIdle(host[n].instance)
    <3>1. ASSUME NEW n \in Numbers, host[n].stage \in Active
          PROVE  mounts[host[n].point] = n /\ n # None /\ host[n].point \in MountPoints
      BY <1>1, <1>4, <3>1, Typed DEF Registered, Inserting, Hosted, None
    <3>. QED
      BY <3>1 DEF IsIdle
  <2>2. \A j \in Instances : IsIdle(j)' <=> IsIdle(j)
    BY <1>1, <1>2, <1>10 DEF IsIdle
  <2>3. /\ IsIdle(i) => pool'[i] = None
        /\ \A j \in Instances : j # i \/ ~IsIdle(j) => pool'[j] = pool[j]
    BY <1>1, <1>3 DEF TypeOK
  <2>4. \A n \in Numbers : host[n].instance \in Instances
    BY Typed DEF Hosted
  <2>5. \A n \in Numbers : host'[n].stage \in Active => pool'[host'[n].instance] = host'[n].manager
    BY <1>1, <1>2, <1>9, <2>1, <2>3, <2>4 DEF PoolExact
  <2>6. \A j \in Instances : pool'[j] # None => ~IsIdle(j)
    BY <1>0, <1>1, <1>4, <1>5, <2>3 DEF PoolExact
  <2>. QED
    BY <1>2, <2>2, <2>5, <2>6 DEF PoolExact
<1>15. UnmountSaw'
  BY <1>1, <1>2, Typed DEF UnmountSaw
<1>16. ShutdownCovers'
  <2>1. \A n \in Numbers : host'[n].stage \in Live => host[n].stage \in Live
    BY <1>2 DEF Live
  <2>. QED
    BY <1>1, <1>2, <2>1 DEF ShutdownCovers
<1>17. UnmountedMeansSynced' /\ CutOffIsExcused'
  BY <1>1, <1>2 DEF UnmountedMeansSynced, CutOffIsExcused, TypeOK
<1>. QED
  BY <1>8, <1>11, <1>12, <1>13, <1>14, <1>15, <1>16, <1>17

(***************************************************************************)
(* The end of serve.                                                       *)
(***************************************************************************)
LEMMA SignalHolds ==
  ASSUME DInv, TypeOK', Signal
  PROVE  DInv'
<1>. USE DEF DInv
<1>1. /\ UNCHANGED <<mounts, pool, lifecycle, host, fused, client, confirmed>>
      /\ Numbers' = Numbers /\ Running /\ Running' /\ excused \subseteq excused'
      /\ server'.left = {p \in MountPoints : mounts[p] # None}
      /\ \A m \in Numbers :
           mounts[host[m].point] # m /\ host[m].stage \in Live => m \in excused'
  BY DEF Signal, Numbers, Running
<1>2. \A m \in Numbers : m # None /\ host[m].point \in MountPoints
  BY Typed DEF Hosted, None
<1>3. ShutdownCovers'
  BY <1>1, <1>2 DEF ShutdownCovers
<1>4. MutexHeld' /\ Registered' /\ Starting' /\ FusedMounted'
  BY <1>1 DEF MutexHeld, Registered, Starting, FusedMounted, Inserting
<1>5. SpawnHasManager' /\ PoolExact' /\ UnmountSaw'
  BY <1>1 DEF SpawnHasManager, PoolExact, UnmountSaw, IsIdle
<1>6. UnmountedMeansSynced' /\ CutOffIsExcused'
  BY <1>1 DEF UnmountedMeansSynced, CutOffIsExcused
<1>. QED
  BY <1>3, <1>4, <1>5, <1>6

LEMMA ShutdownNextHolds ==
  ASSUME DInv, TypeOK', NEW p \in MountPoints, ShutdownNext(p)
  PROVE  DInv'
<1>1. CASE UnmountBegin(Serve, p)
  BY <1>1, UnmountBeginHolds DEF ShutdownNext, Callers
<1>2. CASE mounts[p] = None /\ UNCHANGED client
  <2>. USE DEF DInv
  <2>1. /\ UNCHANGED <<mounts, pool, lifecycle, host, fused, client, confirmed, excused>>
        /\ Numbers' = Numbers /\ Running /\ Running' /\ server'.state = server.state
        /\ \A x \in MountPoints \ {p} : x \in server.left => x \in server'.left
    BY <1>2 DEF ShutdownNext, Numbers, Running, TypeOK
  <2>2. \A m \in Numbers : m # None /\ host[m].point \in MountPoints
    BY Typed DEF Hosted, None
  <2>3. ShutdownCovers'
    BY <1>2, <2>1, <2>2 DEF ShutdownCovers
  <2>4. MutexHeld' /\ Registered' /\ Starting' /\ FusedMounted'
    BY <2>1 DEF MutexHeld, Registered, Starting, FusedMounted, Inserting
  <2>5. SpawnHasManager' /\ PoolExact' /\ UnmountSaw'
    BY <2>1 DEF SpawnHasManager, PoolExact, UnmountSaw, IsIdle
  <2>6. UnmountedMeansSynced' /\ CutOffIsExcused'
    BY <2>1 DEF UnmountedMeansSynced, CutOffIsExcused
  <2>. QED
    BY <2>3, <2>4, <2>5, <2>6
<1>. QED
  BY <1>1, <1>2 DEF ShutdownNext

LEMMA ExitHolds ==
  ASSUME DInv, TypeOK', Exit
  PROVE  DInv'
<1>. USE DEF DInv
<1>1. /\ UNCHANGED <<lifecycle, confirmed, excused>>
      /\ server'.state = "exited" /\ ~Running'
      /\ server.state = "stopping" /\ server.left = {} /\ client[Serve] = Idle
      /\ \A p \in MountPoints : fused'[p] = None
  BY DEF Exit, Running, TypeOK
<1>2. /\ Numbers' = Numbers
      /\ \A n \in Numbers :
           host'[n].stage = IF host[n].stage \in Live THEN "killed" ELSE host[n].stage
  BY HostKilled DEF TypeOK
<1>3. MutexHeld'
  <2>1. \A n \in Numbers : host'[n].stage = "removed" <=> host[n].stage = "removed"
    BY <1>2 DEF Live
  <2>. QED
    BY <1>1, <1>2, <2>1 DEF MutexHeld
<1>4. Registered' /\ Starting' /\ FusedMounted' /\ SpawnHasManager' /\ PoolExact' /\ UnmountSaw'
  BY <1>1 DEF Registered, Starting, FusedMounted, SpawnHasManager, PoolExact, UnmountSaw
<1>5. ShutdownCovers'
  BY <1>1 DEF ShutdownCovers
<1>6. UnmountedMeansSynced'
  BY <1>1, <1>2 DEF UnmountedMeansSynced, TypeOK, Live
<1>7. CutOffIsExcused'
  <2>1. client[Serve].op # "unmount"
    BY <1>1 DEF Idle
  <2>2. \A n \in Numbers : host[n].stage \in Live => n \in excused
    BY <1>1, <2>1 DEF ShutdownCovers
  <2>. QED
    BY <1>1, <1>2, <2>2 DEF CutOffIsExcused
<1>. QED
  BY <1>3, <1>4, <1>5, <1>6, <1>7

LEMMA DStep == DInv /\ [Next]_vars => DInv'
<1>. SUFFICES ASSUME DInv, [Next]_vars PROVE DInv'
  OBVIOUS
<1>1. TypeOK'
  BY TypeStep DEF DInv
<1>2. CASE UNCHANGED vars
  <2>1. /\ UNCHANGED vars /\ Numbers' = Numbers
        /\ \A c \in Clients, m \in Numbers : Inserting(c, m)' <=> Inserting(c, m)
        /\ \A i \in Instances : IsIdle(i)' <=> IsIdle(i)
    BY <1>2 DEF vars, Numbers, Inserting, IsIdle
  <2>2. MutexHeld' /\ Registered' /\ Starting' /\ FusedMounted'
    BY <2>1 DEF DInv, vars, MutexHeld, Registered, Starting, FusedMounted, Running
  <2>3. SpawnHasManager' /\ PoolExact' /\ UnmountSaw' /\ ShutdownCovers'
    BY <2>1 DEF DInv, vars, SpawnHasManager, PoolExact, UnmountSaw, ShutdownCovers, Running
  <2>4. UnmountedMeansSynced' /\ CutOffIsExcused'
    BY <2>1 DEF DInv, vars, UnmountedMeansSynced, CutOffIsExcused
  <2>. QED
    BY <1>1, <2>2, <2>3, <2>4 DEF DInv
<1>3. ASSUME NEW c \in Clients, ClientAsks(c) PROVE DInv'
  <2>1. c \in Callers
    BY DEF Callers
  <2>. QED
    BY <1>1, <1>3, <2>1, MountBeginHolds, UnmountBeginHolds DEF ClientAsks
<1>4. ASSUME NEW c \in Clients, Mount(c) PROVE DInv'
  BY <1>1, <1>4, SharedBufferManagerHolds, MountSpawnHolds, MountInsertHolds DEF Mount
<1>5. ASSUME NEW c \in Callers, Unmount(c) PROVE DInv'
  BY <1>1, <1>5, UnmountCommandHolds, UnmountAnswerHolds DEF Unmount
<1>6. ASSUME NEW m \in Numbers, TaskMounted(m) \/ TaskFails(m) \/ UnmountedOutside(m) \/ Host(m)
      PROVE  DInv'
  BY <1>1, <1>6, TaskAdvancesHolds, TaskRemovesHolds, TaskDropsManagerHolds DEF Host
<1>7. CASE Signal
  BY <1>1, <1>7, SignalHolds
<1>8. CASE Shutdown
  BY <1>1, <1>8, ShutdownNextHolds, ExitHolds DEF Shutdown
<1>. QED
  BY <1>2, <1>3, <1>4, <1>5, <1>6, <1>7, <1>8 DEF Next

LEMMA DHolds == Spec => []DInv
BY DInit, DStep, PTL DEF Spec

(* No mount outlives the process.                                          *)
EndsWithProcess == Running \/ \A m \in Numbers : host[m].stage \notin Live

LEMMA EndsHolds == Spec => []EndsWithProcess
<1>1. Init => EndsWithProcess
  BY DEF Init, EndsWithProcess, Running
<1>2. DInv /\ EndsWithProcess /\ [Next]_vars => EndsWithProcess'
  <2>. SUFFICES ASSUME DInv, EndsWithProcess, [Next]_vars PROVE EndsWithProcess'
    OBVIOUS
  <2>1. CASE Exit
    BY <2>1, HostKilled DEF DInv, TypeOK, EndsWithProcess, Live
  <2>2. CASE UNCHANGED vars
    BY <2>2 DEF vars, EndsWithProcess, Running, Numbers
  <2>3. ASSUME NEW c \in Callers, Unmount(c) PROVE Running'
    BY <2>3 DEF Unmount, UnmountCommand, UnmountDone, UnmountTimeout, Running
  <2>4. ASSUME NEW c \in Clients, ClientAsks(c) \/ Mount(c) PROVE Running'
    BY <2>4 DEF ClientAsks, MountBegin, UnmountBegin, Mount, SharedBufferManager, MountSpawn,
                MountInsert, Running
  <2>5. ASSUME NEW m \in Numbers, TaskMounted(m) \/ TaskFails(m) \/ UnmountedOutside(m) \/ Host(m)
        PROVE  Running'
    BY <2>5 DEF TaskMounted, TaskFails, UnmountedOutside, Host, TaskReturns, TaskRemoves,
                TaskDropsManager, Advance, Running
  <2>6. ASSUME Signal \/ \E p \in MountPoints : ShutdownNext(p) PROVE Running'
    BY <2>6 DEF Signal, ShutdownNext, Running, DInv, TypeOK
  <2>. QED
    BY <2>1, <2>2, <2>3, <2>4, <2>5, <2>6 DEF Next, Shutdown, EndsWithProcess
<1>. QED
  BY <1>1, <1>2, DHolds, PTL DEF Spec

(***************************************************************************)
(* What the invariant says.                                                *)
(***************************************************************************)
(* Requests, hosts and the registry keep their types.                      *)
THEOREM DaemonTypeCorrect == Spec => []TypeOK
<1>1. DInv => TypeOK
  BY DEF DInv
<1>. QED
  BY DHolds, <1>1, PTL

(* With the mutex free the registry lists the active mounts and no other,  *)
(* whichever requests and tasks interleaved before.                        *)
THEOREM RegistryIsExact == Spec => []RegistryExact
<1>1. DInv => RegistryExact
  <2>. SUFFICES ASSUME DInv, Free, Running
                PROVE  /\ {mounts[p] : p \in MountPoints} \ {None} =
                            {m \in Numbers : host[m].stage \in Live \cup {"returned"}}
                       /\ \A p \in MountPoints : mounts[p] # None => host[mounts[p]].point = p
    BY DEF RegistryExact
  <2>1. \A c \in Clients : client[c].op # "mount"
    BY MutexExcludes DEF DInv
  <2>2. \A p \in MountPoints : mounts[p] # None =>
          /\ mounts[p] \in Numbers /\ host[mounts[p]].point = p
          /\ host[mounts[p]].stage \in Active
    BY DEF DInv, Registered, TypeOK
  <2>3. \A m \in Numbers : host[m].stage \in Active =>
          mounts[host[m].point] = m /\ host[m].point \in MountPoints /\ m # None
    BY <2>1, Typed DEF DInv, Registered, Inserting, Hosted, None
  <2>. QED
    BY <2>2, <2>3 DEF Active
<1>. QED
  BY DHolds, <1>1, PTL

(* Mounts of one instance share one buffer manager, and the pool keeps a   *)
(* manager exactly as long as the registry has a mount of its instance.    *)
THEOREM ManagersAreShared == Spec => []OneManagerPerInstance
<1>1. DInv /\ EndsWithProcess => OneManagerPerInstance
  <2>. SUFFICES ASSUME DInv, EndsWithProcess PROVE OneManagerPerInstance
    OBVIOUS
  <2>1. (\E m \in Numbers : host[m].stage \in Live) => Running
    BY DEF EndsWithProcess
  <2>2. \A m, n \in Numbers :
          /\ host[m].stage \in Live /\ host[n].stage \in Live
          /\ host[m].instance = host[n].instance
          => host[m].manager = host[n].manager
    BY <2>1 DEF DInv, PoolExact, Active
  <2>3. Free /\ Running => \A i \in Instances : pool[i] # None <=> ~IsIdle(i)
    <3>. SUFFICES ASSUME Free, Running, NEW i \in Instances PROVE pool[i] # None <=> ~IsIdle(i)
      OBVIOUS
    <3>1. /\ \A c \in Clients : client[c].op # "mount"
          /\ \A m \in Numbers : host[m].stage # "removed"
      BY MutexExcludes DEF DInv
    <3>2. pool[i] # None => ~IsIdle(i)
      BY <3>1 DEF DInv, PoolExact
    <3>3. ASSUME NEW p \in MountPoints, mounts[p] # None, host[mounts[p]].instance = i
          PROVE  pool[i] # None
      <4>1. mounts[p] \in Numbers /\ host[mounts[p]].stage \in Active
        BY <3>3 DEF DInv, Registered, TypeOK
      <4>. QED
        BY <3>3, <4>1, Typed DEF DInv, PoolExact, Hosted, None
    <3>. QED
      BY <3>2, <3>3 DEF IsIdle
  <2>. QED
    BY <2>2, <2>3 DEF OneManagerPerInstance
<1>. QED
  BY DHolds, EndsHolds, <1>1, PTL

(* An unmount answered before its deadline means that the mount it was     *)
(* asked for has ended its final sync.                                     *)
THEOREM UnmountMeansSynced == Spec => []UnmountedMeansSynced
<1>1. DInv => UnmountedMeansSynced
  BY DEF DInv
<1>. QED
  BY DHolds, <1>1, PTL

(* The end of the process cuts off no mount but those an unmount gave up   *)
(* on or the shutdown could not know of.                                   *)
THEOREM CutOffsAreExcused == Spec => []CutOffIsExcused
<1>1. DInv => CutOffIsExcused
  BY DEF DInv
<1>. QED
  BY DHolds, <1>1, PTL
=================================================================================
