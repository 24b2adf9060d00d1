-------------------------------- MODULE Daemon --------------------------------
(***************************************************************************)
(* omnifuse-app/src/daemon/server.rs: one daemon process, its registry of  *)
(* mounts, the buffer managers it shares among mounts of one instance, the *)
(* task that hosts each mount, the clients' mount and unmount requests and *)
(* the shutdown.  A mount is one run of run_mount_with_buffer; it has a    *)
(* number, because a mount point is used again.                            *)
(***************************************************************************)
EXTENDS Naturals, Sequences

CONSTANTS Clients,      \* connections with a request at a time
          MountPoints,
          Instances,    \* instances of backends
          MaxMounts     \* bound on the mounts ever started

ASSUME DaemonAssumption == MaxMounts \in Nat

VARIABLES
  mounts,     \* registry: number of the mount at each mount point, or None
  pool,       \* buffer_managers: the manager of each instance, or None
  lifecycle,  \* holder of the lifecycle mutex
  host,       \* every mount ever started: its point, instance, manager and
              \* the stage of its hosting task
  fused,      \* the kernel's mount table: mount at each mount point, or None
  client,     \* the request of each client, and of serve itself at its end
  server,     \* serve(): "serving", "stopping" with the mount points it has
              \* still to unmount, "exited"
  confirmed,  \* history: mounts whose unmount was answered Ok in time
  excused     \* history: mounts an unmount gave up on, by error or timeout,
              \* and those not registered when the shutdown read the registry

vars == <<mounts, pool, lifecycle, host, fused, client, server, confirmed, excused>>

None == 0
Serve == "serve"
Callers == Clients \cup {Serve}
Numbers == DOMAIN host
Unlocked == <<"nobody">>
Free == lifecycle = Unlocked

(* Stages of a hosting task: run_mount before and after FUSE mounted it,   *)
(* its final sync, its return, and the removal of its entry.               *)
Live == {"starting", "mounted", "final_sync"}
Stages == Live \cup {"returned", "removed", "gone", "killed"}

Idle == [op |-> "idle"]

Init ==
  /\ mounts = [p \in MountPoints |-> None]
  /\ pool = [i \in Instances |-> None]
  /\ lifecycle = Unlocked
  /\ host = <<>>
  /\ fused = [p \in MountPoints |-> None]
  /\ client = [c \in Callers |-> Idle]
  /\ server = [state |-> "serving", left |-> {}]
  /\ confirmed = {}
  /\ excused = {}

Running == server.state # "exited"

-------------------------------------------------------------------------------
(* mount.<backend>: start_mount, under the lifecycle mutex.  The task is   *)
(* spawned before its entry is inserted and may run at once.               *)

MountBegin(c, p, i) ==
  /\ Running /\ client[c] = Idle /\ Free
  /\ Len(host) < MaxMounts
  /\ mounts[p] = None        \* otherwise "mount already active"
  /\ lifecycle' = <<"client", c>>
  /\ client' = [client EXCEPT ![c] = [op |-> "mount", step |-> "pool", point |-> p,
                                      instance |-> i]]
  /\ UNCHANGED <<mounts, pool, host, fused, server, confirmed, excused>>

SharedBufferManager(c) ==
  LET r == client[c]
  IN  /\ Running /\ r.op = "mount" /\ r.step = "pool"
      /\ pool' = [pool EXCEPT ![r.instance] =
                    IF @ = None THEN Len(host) + 1 ELSE @]
      /\ client' = [client EXCEPT ![c].step = "spawn"]
      /\ UNCHANGED <<mounts, lifecycle, host, fused, server, confirmed, excused>>

MountSpawn(c) ==
  LET r == client[c]
  IN  /\ Running /\ r.op = "mount" /\ r.step = "spawn"
      /\ host' = Append(host, [point |-> r.point, instance |-> r.instance,
                               manager |-> pool[r.instance], stage |-> "starting"])
      /\ client' = [client EXCEPT ![c] = [op |-> "mount", step |-> "insert",
                      point |-> r.point, instance |-> r.instance,
                      number |-> Len(host) + 1]]
      /\ excused' = excused \cup (IF server.state = "stopping" THEN {Len(host) + 1} ELSE {})
      /\ UNCHANGED <<mounts, pool, lifecycle, fused, server, confirmed>>

MountInsert(c) ==
  LET r == client[c]
  IN  /\ Running /\ r.op = "mount" /\ r.step = "insert"
      /\ mounts' = [mounts EXCEPT ![r.point] = r.number]
      /\ lifecycle' = Unlocked
      /\ client' = [client EXCEPT ![c] = Idle]
      /\ UNCHANGED <<pool, host, fused, server, confirmed, excused>>

-------------------------------------------------------------------------------
(* unmount: the command of the system, then the wait for the hosting task. *)

UnmountBegin(c, p) ==
  /\ Running /\ client[c] = Idle
  /\ mounts[p] # None       \* otherwise "no active mount"
  /\ client' = [client EXCEPT ![c] = [op |-> "unmount", step |-> "command",
                                      point |-> p, saw |-> mounts[p]]]

(* fusermount -u takes whatever the kernel has at that mount point, and    *)
(* refuses when there is nothing or it is busy.                            *)
UnmountCommand(c) ==
  LET r == client[c]
      m == fused[r.point]
  IN  /\ Running /\ r.op = "unmount" /\ r.step = "command"
      /\ \/ /\ m # None
            /\ fused' = [fused EXCEPT ![r.point] = None]
            /\ host' = [host EXCEPT ![m].stage = "final_sync"]
            /\ client' = [client EXCEPT ![c].step = "wait"]
            /\ UNCHANGED excused
         \/ /\ client' = [client EXCEPT ![c] = Idle]
            /\ excused' = excused \cup ({mounts[r.point]} \ {None})
            /\ UNCHANGED <<fused, host>>
      /\ UNCHANGED <<mounts, pool, lifecycle, server, confirmed>>

(* Mutant: the answer does not wait for the hosting task.                *)
UnmountDoneAtOnce(c) ==
  LET r == client[c]
  IN  /\ Running /\ r.op = "unmount" /\ r.step = "wait"
      /\ client' = [client EXCEPT ![c] = Idle]
      /\ confirmed' = confirmed \cup {r.saw}
      /\ UNCHANGED <<mounts, pool, lifecycle, host, fused, server, excused>>

UnmountDone(c) ==
  LET r == client[c]
  IN  /\ Running /\ r.op = "unmount" /\ r.step = "wait"
      /\ mounts[r.point] = None
      /\ client' = [client EXCEPT ![c] = Idle]
      /\ confirmed' = confirmed \cup {r.saw}
      /\ UNCHANGED <<mounts, pool, lifecycle, host, fused, server, excused>>

(* Mutant: the wait has no deadline.                                     *)
NoDeadline(c) == client[c].op = "none" /\ UNCHANGED vars

(* The deadline of 15 s: the answer is Ok as well.                         *)
UnmountTimeout(c) ==
  LET r == client[c]
  IN  /\ Running /\ r.op = "unmount" /\ r.step = "wait"
      /\ mounts[r.point] # None
      /\ client' = [client EXCEPT ![c] = Idle]
      /\ excused' = excused \cup {mounts[r.point]}
      /\ UNCHANGED <<mounts, pool, lifecycle, host, fused, server, confirmed>>

-------------------------------------------------------------------------------
(* The task that hosts mount m.                                            *)

Advance(m, from, to) ==
  /\ Running
  /\ host[m].stage = from
  /\ host' = [host EXCEPT ![m].stage = to]

TaskMounted(m) ==
  /\ Advance(m, "starting", "mounted")
  /\ fused' = [fused EXCEPT ![host[m].point] = m]
  /\ UNCHANGED <<mounts, pool, lifecycle, client, server, confirmed, excused>>

(* Backend::init or the mount failed: run_mount returns the error.         *)
TaskFails(m) ==
  /\ Advance(m, "starting", "returned")
  /\ UNCHANGED <<mounts, pool, lifecycle, fused, client, server, confirmed, excused>>

(* The user unmounts without the daemon.                                   *)
UnmountedOutside(m) ==
  /\ Advance(m, "mounted", "final_sync")
  /\ fused' = [fused EXCEPT ![host[m].point] = None]
  /\ UNCHANGED <<mounts, pool, lifecycle, client, server, confirmed, excused>>

TaskReturns(m) ==
  /\ Advance(m, "final_sync", "returned")
  /\ UNCHANGED <<mounts, pool, lifecycle, fused, client, server, confirmed, excused>>

(* Mutant: the entry is removed without the lifecycle mutex.             *)
TaskRemovesUnlocked(m) ==
  /\ Advance(m, "returned", "removed")
  /\ mounts' = [mounts EXCEPT ![host[m].point] = None]
  /\ UNCHANGED <<pool, lifecycle, fused, client, server, confirmed, excused>>

TaskRemoves(m) ==
  /\ Free
  /\ Advance(m, "returned", "removed")
  /\ lifecycle' = <<"task", m>>
  /\ mounts' = [mounts EXCEPT ![host[m].point] = None]
  /\ UNCHANGED <<pool, fused, client, server, confirmed, excused>>

IsIdle(i) == \A p \in MountPoints : mounts[p] # None => host[mounts[p]].instance # i

(* Mutant: the manager goes with the first mount that ends.              *)
TaskDropsManagerAlways(m) ==
  /\ Advance(m, "removed", "gone")
  /\ pool' = [pool EXCEPT ![host[m].instance] = None]
  /\ lifecycle' = Unlocked
  /\ UNCHANGED <<mounts, fused, client, server, confirmed, excused>>

(* drop_buffer_manager_if_idle, and the mutex is released.                 *)
TaskDropsManager(m) ==
  LET i == host[m].instance
  IN  /\ Advance(m, "removed", "gone")
      /\ pool' = IF IsIdle(i) THEN [pool EXCEPT ![i] = None] ELSE pool
      /\ lifecycle' = Unlocked
      /\ UNCHANGED <<mounts, fused, client, server, confirmed, excused>>

-------------------------------------------------------------------------------
(* The end of serve: the registry is read once, then one unmount follows   *)
(* the other; when serve returns the process and its tasks end.            *)

Signal ==
  /\ server.state = "serving"
  /\ server' = [state |-> "stopping",
                left |-> {p \in MountPoints : mounts[p] # None}]
  /\ excused' = excused \cup {m \in Numbers : mounts[host[m].point] # m
                                            /\ host[m].stage \in Live}
  /\ UNCHANGED <<mounts, pool, lifecycle, host, fused, client, confirmed>>

ShutdownNext(p) ==
  /\ server.state = "stopping" /\ p \in server.left
  /\ client[Serve] = Idle
  /\ server' = [server EXCEPT !.left = @ \ {p}]
  /\ \/ UnmountBegin(Serve, p)
     \/ mounts[p] = None /\ UNCHANGED client
  /\ UNCHANGED <<mounts, pool, lifecycle, host, fused, confirmed, excused>>

(* Mutant: serve does not wait for the last unmount.                     *)
ExitWithoutWaiting ==
  /\ server.state = "stopping" /\ server.left = {}
  /\ server' = [server EXCEPT !.state = "exited"]
  /\ host' = [m \in Numbers |-> IF host[m].stage \in Live
                                THEN [host[m] EXCEPT !.stage = "killed"] ELSE host[m]]
  /\ fused' = [p \in MountPoints |-> None]
  /\ client' = [c \in Callers |-> Idle]
  /\ UNCHANGED <<mounts, pool, lifecycle, confirmed, excused>>

Exit ==
  /\ server.state = "stopping" /\ server.left = {}
  /\ client[Serve] = Idle
  /\ server' = [server EXCEPT !.state = "exited"]
  /\ host' = [m \in Numbers |-> IF host[m].stage \in Live
                                THEN [host[m] EXCEPT !.stage = "killed"] ELSE host[m]]
  /\ fused' = [p \in MountPoints |-> None]
  /\ client' = [c \in Callers |-> Idle]
  /\ UNCHANGED <<mounts, pool, lifecycle, confirmed, excused>>

-------------------------------------------------------------------------------
Mount(c) == SharedBufferManager(c) \/ MountSpawn(c) \/ MountInsert(c)
Unmount(c) == UnmountCommand(c) \/ UnmountDone(c) \/ UnmountTimeout(c)
Host(m) == TaskReturns(m) \/ TaskRemoves(m) \/ TaskDropsManager(m)
Shutdown == (\E p \in MountPoints : ShutdownNext(p)) \/ Exit

ClientAsks(c) ==
  \/ \E p \in MountPoints, i \in Instances : MountBegin(c, p, i)
  \/ /\ \E p \in MountPoints : UnmountBegin(c, p)
     /\ UNCHANGED <<mounts, pool, lifecycle, host, fused, server, confirmed, excused>>

Next ==
  \/ \E c \in Clients : ClientAsks(c) \/ Mount(c)
  \/ \E c \in Callers : Unmount(c)
  \/ \E m \in Numbers : TaskMounted(m) \/ TaskFails(m) \/ UnmountedOutside(m) \/ Host(m)
  \/ Signal
  \/ Shutdown

(* The commands of the system end, and the runtime polls the tasks that    *)
(* answer; the tasks that host a mount may hang for ever.                  *)
Fairness ==
  /\ \A c \in Callers : WF_vars(Unmount(c))
  /\ WF_vars(Shutdown)

Spec == Init /\ [][Next]_vars /\ Fairness

-------------------------------------------------------------------------------
Hosted == [point : MountPoints, instance : Instances, manager : Nat \ {0}, stage : Stages]
MountRequest ==
  [op : {"mount"}, step : {"pool", "spawn"}, point : MountPoints, instance : Instances] \cup
  [op : {"mount"}, step : {"insert"}, point : MountPoints, instance : Instances, number : Numbers]
UnmountRequest ==
  [op : {"unmount"}, step : {"command", "wait"}, point : MountPoints, saw : Numbers]

TypeOK ==
  /\ host \in Seq(Hosted)
  /\ mounts \in [MountPoints -> Numbers \cup {None}]
  /\ pool \in [Instances -> Nat]
  /\ lifecycle \in {Unlocked} \cup ({"client"} \X Clients) \cup ({"task"} \X Numbers)
  /\ fused \in [MountPoints -> Numbers \cup {None}]
  /\ client \in [Callers -> {Idle} \cup MountRequest \cup UnmountRequest]
  /\ server \in [state : {"serving", "stopping", "exited"}, left : SUBSET MountPoints]
  /\ confirmed \subseteq Numbers /\ excused \subseteq Numbers

(* Whoever looks when no start or removal is under way finds exactly the   *)
(* mounts whose task has not removed itself: no entry outlives its task,   *)
(* although a task may be over before its entry is inserted, and no task   *)
(* runs unregistered.                                                      *)
RegistryExact ==
  Free /\ Running =>
    /\ {mounts[p] : p \in MountPoints} \ {None} =
         {m \in Numbers : host[m].stage \in Live \cup {"returned"}}
    /\ \A p \in MountPoints : mounts[p] # None => host[mounts[p]].point = p

(* "Two concurrent mounts of the same instance see the same in-memory hot  *)
(* tier", and the manager is dropped with the last of them.                *)
OneManagerPerInstance ==
  /\ \A m, n \in Numbers :
       /\ host[m].stage \in Live /\ host[n].stage \in Live
       /\ host[m].instance = host[n].instance
       => host[m].manager = host[n].manager
  /\ Free /\ Running =>
       \A i \in Instances : pool[i] # None <=> ~IsIdle(i)

(* An unmount answered Ok before its deadline: the mount it was asked for  *)
(* has finished its final sync, also when the mount point is in use again. *)
UnmountedMeansSynced ==
  \A m \in confirmed : host[m].stage \in {"removed", "gone"}

(* Only a mount whose unmount failed or timed out, or which was registered *)
(* after the shutdown had read the registry, is cut off by the end of the  *)
(* process before its final sync.                                          *)
CutOffIsExcused ==
  \A m \in Numbers : host[m].stage = "killed" => m \in excused

(* Every unmount request is answered, also when the hosting task is stuck, *)
(* and serve returns once it has been signalled.                           *)
WaitsEnd ==
  /\ \A c \in Clients : client[c].op = "unmount" ~> client[c] = Idle
  /\ server.state = "stopping" ~> server.state = "exited"
===============================================================================
