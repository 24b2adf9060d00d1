------------------------------ MODULE FuseAdapter ------------------------------
(***************************************************************************)
(* unifuse/src/rfuse3_adapter.rs over the directory operations of          *)
(* omnifuse-core/src/vfs.rs: the kernel asks by number and name, the       *)
(* adapter turns the number into a path (InodeMap), changes the local      *)
(* directory and only then its map.  Requests are tasks that interleave at *)
(* every await; the kernel serialises those that change one directory.     *)
(***************************************************************************)
EXTENDS InodeMap, Naturals, FiniteSets

CONSTANTS Names,       \* names of files and directories
          MaxDepth,    \* bound on the depth of the tree
          Tasks,       \* requests under way at a time
          MaxChanges,  \* bound on the changes of the tree
          MaxRemote    \* bound on those of them the remote makes

ASSUME AdapterAssumption ==
  /\ MaxDepth \in Nat \ {0}
  /\ MaxChanges \in Nat
  /\ MaxRemote \in Nat

VARIABLES
  tree,       \* the local directory: kind of the node at each path
  map,        \* the InodeMap of the adapter
  dcache,     \* the kernel's names: number it was told for each path
  request,    \* the request each task works on
  changes,    \* how often the tree changed, and how often by the remote
  collided,   \* history: numbers for which a collision was logged
  misled      \* history: numbers a misled request answered with, moved or
              \* removed: a directory above its path was renamed while it
              \* ran, or its own directory had a number in doubt

vars == <<tree, map, dcache, request, changes, collided, misled>>

Kinds == {"file", "dir"}
Paths == UNION {[1..n -> Names] : n \in 0..MaxDepth}
Inodes == Kinds \X Seq(Names)   \* ComputeInode
Idle == [op |-> "idle"]

Parent(p) == Front(p)
Known(p) == {q \in DOMAIN dcache : IsPrefix(p, q)}
Children(p) == {q \in DOMAIN tree : q # <<>> /\ Parent(q) = p}
IsDir(p) == p \in DOMAIN tree /\ tree[p] = "dir"
IsFile(p) == p \in DOMAIN tree /\ tree[p] = "file"

Init ==
  /\ tree = [p \in {<<>>} |-> "dir"]
  /\ map = NewMap
  /\ dcache = [p \in {<<>>} |-> ROOT_INODE]
  /\ request = [t \in Tasks |-> Idle]
  /\ changes = [all |-> 0, remote |-> 0]
  /\ collided = {}
  /\ misled = {}

-------------------------------------------------------------------------------
(* The tree, as the local file system changes it.                          *)

Change(by) ==
  /\ changes.all < MaxChanges
  /\ changes' = [all |-> changes.all + 1,
                 remote |-> changes.remote + (IF by = "remote" THEN 1 ELSE 0)]

Put(p, kind) ==
  tree' = [q \in DOMAIN tree \cup {p} |-> IF q = p THEN kind ELSE tree[q]]

Delete(p) == tree' = Restrict(tree, DOMAIN tree \ {p})

(* The bound on the depth: only what has nothing below it moves downwards. *)
FitsDepth(from, to) ==
  Len(to) > Len(from) =>
    \A p \in DOMAIN tree \cup DOMAIN map.inode \cup DOMAIN dcache :
      IsPrefix(from, p) => p = from

CanRename(from, to) ==
  /\ from \in DOMAIN tree
  /\ FitsDepth(from, to)
  /\ ~IsPrefix(from, to)
  /\ IsDir(Parent(to))
  /\ to \in DOMAIN tree => /\ tree[to] = tree[from]
                           /\ Children(to) = {}

MoveTree(from, to) ==
  LET stay == {p \in DOMAIN tree : ~IsPrefix(from, p) /\ p # to}
      moving == {p \in DOMAIN tree : IsPrefix(from, p)}
  IN  tree' = [q \in stay \cup {Moved(p, from, to) : p \in moving} |->
                 IF q \in stay THEN tree[q]
                 ELSE tree[Moved(q, to, from)]]

(* A backend creates or removes a file or directory of the working copy.   *)
Remote ==
  /\ changes.remote < MaxRemote
  /\ Change("remote")
  /\ \/ \E p \in Paths \ DOMAIN tree, k \in Kinds :
          IsDir(Parent(p)) /\ Put(p, k)
     \/ \E p \in DOMAIN tree \ {<<>>} : Children(p) = {} /\ Delete(p)
  /\ UNCHANGED <<map, dcache, request, collided, misled>>

-------------------------------------------------------------------------------
(* The kernel: its cache of names, and the lock on a directory.            *)

(* A positive answer; a name that got another number loses what was below, *)
(* and one whose directory is not known any more is not kept.              *)
Learn(p, inode) ==
  LET keep == IF p \in DOMAIN dcache /\ dcache[p] = inode
              THEN DOMAIN dcache
              ELSE DOMAIN dcache \ Known(p)
  IN  IF Parent(p) \in DOMAIN dcache
      THEN dcache' = [q \in keep \cup {p} |-> IF q = p THEN inode ELSE dcache[q]]
      ELSE UNCHANGED dcache

Unlearn(p) == dcache' = Restrict(dcache, DOMAIN dcache \ Known(p))

MoveNames(from, to) ==
  LET stay == DOMAIN dcache \ (Known(from) \cup Known(to))
      moving == IF Parent(to) \in stay THEN Known(from) ELSE {}
  IN  dcache' = [q \in stay \cup {Moved(p, from, to) : p \in moving} |->
                   IF q \in stay THEN dcache[q]
                   ELSE dcache[Moved(q, to, from)]]

(* Names the requests under way refer to, and directories they lock: a     *)
(* listing its own, the others the parents, and what is removed or         *)
(* replaced; lookups and listings share.                                   *)
UsedNames(t) ==
  CASE request[t].op = "idle"   -> {}
    [] request[t].op = "rename" -> {request[t].at, request[t].toAt}
    [] OTHER                    -> {request[t].at}

Locks(t) ==
  CASE request[t].op = "readdir" -> {request[t].at}
    [] request[t].op \in {"unlink", "rmdir"} ->
         {request[t].at, Parent(request[t].at)}
    [] OTHER -> {Parent(p) : p \in UsedNames(t)}
                  \cup (IF request[t].op = "rename" THEN {request[t].toAt} ELSE {})

Shared == {"lookup", "readdir"}

LockFree(dir, op) ==
  \A t \in Tasks : dir \in Locks(t) => op \in Shared /\ request[t].op \in Shared

Forget(p) ==
  /\ p \in DOMAIN dcache \ {<<>>}
  /\ \A q \in DOMAIN dcache : IsPrefix(p, q) => q = p
  /\ \A t \in Tasks : \A q \in UsedNames(t) : ~IsPrefix(p, q)
  /\ Unlearn(p)
  /\ UNCHANGED <<tree, map, request, changes, collided, misled>>

-------------------------------------------------------------------------------
(* A request arrives and its number becomes a path (resolve_path).  A      *)
(* number in doubt may become another path than the name it stands for.    *)

InDoubt(p) == dcache[p] \in collided \cup misled

Resolves(p) == p \in DOMAIN dcache /\ dcache[p] \in DOMAIN map.path
ResolvePath(p) == map.path[dcache[p]]

ResolveChild(p) == Append(ResolvePath(Parent(p)), Last(p))

CanAsk(p, op) ==
  /\ p # <<>>
  /\ Resolves(Parent(p))
  /\ dcache[Parent(p)][1] = "dir"
  /\ ResolveChild(p) \in Paths
  /\ LockFree(Parent(p), op)

Start(t, r) ==
  /\ request[t] = Idle
  /\ request' = [request EXCEPT ![t] = r]
  /\ UNCHANGED <<tree, map, dcache, changes, collided, misled>>

(* lookup and the requests that create or remove one name.                 *)
Ask(t, op, p) ==
  /\ CanAsk(p, op)
  /\ op \in {"create", "mkdir"} => p \notin DOMAIN dcache
  /\ op \in {"unlink", "rmdir"} => p \in DOMAIN dcache /\ LockFree(p, op)
  /\ Start(t, [op |-> op, step |-> "disk", at |-> p, path |-> ResolveChild(p),
               kind |-> "file", misled |-> InDoubt(Parent(p))])

(* A rename across directories also holds the lock of all renames.         *)
AskRename(t, p, q) ==
  /\ CanAsk(p, "rename")
  /\ CanAsk(q, "rename")
  /\ LockFree(q, "rename")
  /\ p \in DOMAIN dcache
  /\ ~IsPrefix(p, q) /\ ~IsPrefix(q, p)
  /\ dcache[p][1] = "dir" => Len(q) <= Len(p)   \* a bound, as FitsDepth
  /\ Parent(p) # Parent(q) => \A u \in Tasks : request[u].op # "rename"
  /\ Start(t, [op |-> "rename", step |-> "disk", at |-> p, toAt |-> q,
               path |-> ResolveChild(p), toPath |-> ResolveChild(q),
               misled |-> InDoubt(Parent(p)) \/ InDoubt(Parent(q))])

AskReaddir(t, p) ==
  /\ Resolves(p)
  /\ dcache[p][1] = "dir"
  /\ LockFree(p, "readdir")
  /\ Start(t, [op |-> "readdir", step |-> "disk", at |-> p,
               path |-> ResolvePath(p), entries |-> {}])

-------------------------------------------------------------------------------
(* The call of the VFS: one change of the local directory, or an error.    *)

Fail(t) ==
  /\ request' = [request EXCEPT ![t] = Idle]
  /\ UNCHANGED <<tree, map, dcache, changes, collided, misled>>

Reach(t, step) == request' = [request EXCEPT ![t].step = step]

LookupDisk(t) ==
  LET r == request[t]
  IN  /\ r.op = "lookup" /\ r.step = "disk"
      /\ IF r.path \in DOMAIN tree
         THEN /\ request' = [request EXCEPT ![t].step = "map",
                                            ![t].kind = tree[r.path]]
              /\ UNCHANGED dcache
         ELSE /\ request' = [request EXCEPT ![t] = Idle]
              /\ Unlearn(r.at)
      /\ UNCHANGED <<tree, map, changes, collided, misled>>

(* The page of a listing: what follows the offset the kernel asked for.    *)
ReaddirDisk(t) ==
  LET r == request[t]
  IN  /\ r.op = "readdir" /\ r.step = "disk"
      /\ IF IsDir(r.path)
         THEN /\ \E S \in SUBSET Children(r.path) :
                   request' = [request EXCEPT ![t].step = "map",
                                 ![t].entries = {<<p, tree[p]>> : p \in S}]
              /\ UNCHANGED <<tree, map, dcache, changes, collided, misled>>
         ELSE Fail(t)

(* create_file empties the file if there is one; O_EXCL is not looked at.  *)
CreateDisk(t) ==
  LET r == request[t]
  IN  /\ r.op = "create" /\ r.step = "disk"
      /\ IF IsDir(Parent(r.path)) /\ ~IsDir(r.path)
         THEN /\ Change("kernel")
              /\ Put(r.path, "file")
              /\ Reach(t, "open")
              /\ UNCHANGED <<map, dcache, collided, misled>>
         ELSE Fail(t)

(* The second half of create: the handle is opened, unless somebody has    *)
(* removed the file again.                                                 *)
CreateOpen(t) ==
  LET r == request[t]
  IN  /\ r.op = "create" /\ r.step = "open"
      /\ IF IsFile(r.path)
         THEN /\ Reach(t, "map")
              /\ UNCHANGED <<tree, map, dcache, changes, collided, misled>>
         ELSE Fail(t)

MkdirDisk(t) ==
  LET r == request[t]
  IN  /\ r.op = "mkdir" /\ r.step = "disk"
      /\ IF IsDir(Parent(r.path)) /\ r.path \notin DOMAIN tree
         THEN /\ Change("kernel")
              /\ Put(r.path, "dir")
              /\ request' = [request EXCEPT ![t].step = "map", ![t].kind = "dir"]
              /\ UNCHANGED <<map, dcache, collided, misled>>
         ELSE Fail(t)

UnlinkDisk(t) ==
  LET r == request[t]
  IN  /\ r.op = "unlink" /\ r.step = "disk"
      /\ IF IsFile(r.path)
         THEN /\ Change("kernel")
              /\ Delete(r.path)
              /\ Reach(t, "map")
              /\ UNCHANGED <<map, dcache, collided, misled>>
         ELSE Fail(t)

RmdirDisk(t) ==
  LET r == request[t]
  IN  /\ r.op = "rmdir" /\ r.step = "disk"
      /\ IF IsDir(r.path) /\ Children(r.path) = {}
         THEN /\ Change("kernel")
              /\ Delete(r.path)
              /\ Reach(t, "map")
              /\ UNCHANGED <<map, dcache, collided, misled>>
         ELSE Fail(t)

(* A rename is only reported when the target can be looked up afterwards.  *)
RenameDisk(t) ==
  LET r == request[t]
  IN  /\ r.op = "rename" /\ r.step = "disk"
      /\ IF CanRename(r.path, r.toPath)
         THEN /\ Change("kernel")
              /\ MoveTree(r.path, r.toPath)
              /\ Reach(t, "stat")
              /\ UNCHANGED <<map, dcache, collided, misled>>
         ELSE Fail(t)

RenameStat(t) ==
  LET r == request[t]
  IN  /\ r.op = "rename" /\ r.step = "stat"
      /\ IF r.toPath \in DOMAIN tree
         THEN /\ Reach(t, "map")
              /\ UNCHANGED <<tree, map, dcache, changes, collided, misled>>
         ELSE Fail(t)

-------------------------------------------------------------------------------
(* The adapter updates its map and answers.                                *)

Register(path, kind) ==
  /\ map' = GetOrInsert(map, path, kind)
  /\ collided' = collided \cup
       (IF Collides(map, path, kind) THEN {ComputeInode(path, kind)} ELSE {})

Mislead(numbers) == misled' = misled \cup numbers

AnswerEntry(t) ==
  LET r == request[t]
  IN  /\ r.op \in {"lookup", "create", "mkdir"} /\ r.step = "map"
      /\ Register(r.path, r.kind)
      /\ Learn(r.at, map'.inode[r.path])
      /\ Mislead(IF r.misled THEN {map'.inode[r.path]} ELSE {})
      /\ request' = [request EXCEPT ![t] = Idle]
      /\ UNCHANGED <<tree, changes>>

(* One entry of a listing; every entry takes the lock of the map anew.     *)
AnswerReaddir(t) ==
  LET r == request[t]
  IN  /\ r.op = "readdir" /\ r.step = "map"
      /\ \/ \E e \in r.entries :
              /\ Register(e[1], e[2])
              /\ request' = [request EXCEPT ![t].entries = @ \ {e}]
         \/ /\ r.entries = {}
            /\ request' = [request EXCEPT ![t] = Idle]
            /\ UNCHANGED <<map, collided>>
      /\ UNCHANGED <<tree, dcache, changes, misled>>

AnswerRemove(t) ==
  LET r == request[t]
  IN  /\ r.op \in {"unlink", "rmdir"} /\ r.step = "map"
      /\ map' = RemovePath(map, r.path)
      /\ Unlearn(r.at)
      /\ Mislead(IF r.misled THEN {map.inode[p] : p \in DOMAIN map.inode \cap {r.path}}
                 ELSE {})
      /\ request' = [request EXCEPT ![t] = Idle]
      /\ UNCHANGED <<tree, changes, collided>>

(* The kernel moves its names when it has the answer; requests under way   *)
(* below the renamed directory now belong to the new name.                 *)
Overtake(r, from, to) ==
  CASE r.op = "idle" -> r
    [] r.op = "rename" /\ (IsPrefix(from, r.at) \/ IsPrefix(from, r.toAt)) ->
         [r EXCEPT !.misled = TRUE,
            !.at = IF IsPrefix(from, @) THEN Moved(@, from, to) ELSE @,
            !.toAt = IF IsPrefix(from, @) THEN Moved(@, from, to) ELSE @]
    [] r.op = "readdir" /\ IsPrefix(from, r.at) ->
         [r EXCEPT !.at = Moved(@, from, to)]
    [] r.op \notin {"rename", "readdir"} /\ IsPrefix(from, r.at) ->
         [r EXCEPT !.misled = TRUE, !.at = Moved(@, from, to)]
    [] OTHER -> r

AnswerRename(t) ==
  LET r == request[t]
  IN  /\ r.op = "rename" /\ r.step = "map"
      /\ map' \in RenameSubtree(map, r.path, r.toPath)
      /\ MoveNames(r.at, r.toAt)
      /\ request' = [u \in Tasks |-> IF u = t THEN Idle
                                     ELSE Overtake(request[u], r.at, r.toAt)]
      /\ Mislead(IF r.misled
                 THEN {dcache[p] : p \in Known(r.at)} \cup
                      {map.inode[p] : p \in {q \in DOMAIN map.inode :
                                               IsPrefix(r.path, q) \/ IsPrefix(r.toPath, q)}}
                 ELSE {})
      /\ UNCHANGED <<tree, changes, collided>>

-------------------------------------------------------------------------------
Arrive(t) ==
  \/ \E p \in Paths : \/ Ask(t, "lookup", p)
                      \/ Ask(t, "create", p)
                      \/ Ask(t, "mkdir", p)
                      \/ Ask(t, "unlink", p)
                      \/ Ask(t, "rmdir", p)
                      \/ AskReaddir(t, p)
  \/ \E p, q \in Paths : AskRename(t, p, q)

Handle(t) ==
  \/ LookupDisk(t) \/ ReaddirDisk(t) \/ CreateDisk(t) \/ CreateOpen(t)
  \/ MkdirDisk(t) \/ UnlinkDisk(t) \/ RmdirDisk(t)
  \/ RenameDisk(t) \/ RenameStat(t)
  \/ AnswerEntry(t) \/ AnswerReaddir(t) \/ AnswerRemove(t) \/ AnswerRename(t)

Next ==
  \/ \E t \in Tasks : Arrive(t) \/ Handle(t)
  \/ \E p \in Paths : Forget(p)
  \/ Remote

Spec == Init /\ [][Next]_vars

-------------------------------------------------------------------------------
(* Names are sequences of names and numbers are numbers, in the tables, in *)
(* the kernel and in the requests, and every name the kernel has stands    *)
(* below one it has.                                                       *)
NameRequests ==
  [op : {"lookup", "create", "mkdir", "unlink", "rmdir"}, step : {"disk", "open", "map"},
   at : Seq(Names), path : Seq(Names), kind : Kinds, misled : BOOLEAN]
RenameRequests ==
  [op : {"rename"}, step : {"disk", "stat", "map"}, at : Seq(Names), toAt : Seq(Names),
   path : Seq(Names), toPath : Seq(Names), misled : BOOLEAN]
ListRequests ==
  [op : {"readdir"}, step : {"disk", "map"}, at : Seq(Names), path : Seq(Names),
   entries : SUBSET (Seq(Names) \X Kinds)]

TypeOK ==
  /\ DOMAIN tree \subseteq Seq(Names) /\ \A p \in DOMAIN tree : tree[p] \in Kinds
  /\ DOMAIN map.inode \subseteq Seq(Names)
  /\ \A p \in DOMAIN map.inode : map.inode[p] \in Inodes
  /\ DOMAIN map.path \subseteq Inodes
  /\ \A i \in DOMAIN map.path : map.path[i] \in Seq(Names)
  /\ DOMAIN dcache \subseteq Seq(Names)
  /\ \A p \in DOMAIN dcache : dcache[p] \in Inodes
  /\ \A p \in DOMAIN dcache \ {<<>>} : Parent(p) \in DOMAIN dcache
  /\ request \in [Tasks -> {Idle} \cup NameRequests \cup RenameRequests \cup ListRequests]
  /\ collided \subseteq Inodes /\ misled \subseteq Inodes

(* inode.rs: "a bidirectional map".  A registered path is the one its      *)
(* number leads to, unless a collision was logged for the number.          *)
MapsAgree ==
  \A p \in DOMAIN map.inode :
    \/ map.inode[p] \in collided
    \/ map.inode[p] \in DOMAIN map.path /\ map.path[map.inode[p]] = p

(* A request by number reaches the name the kernel means by it, across     *)
(* renames of directories, listings, removals and requests that overlap;   *)
(* only a logged collision, or a directory renamed above a request under   *)
(* way, can make it go elsewhere, and what was asked through such a number *)
(* meanwhile.                                                              *)
NamesResolve ==
  \A p \in DOMAIN dcache :
    \/ dcache[p] \in DOMAIN map.path /\ map.path[dcache[p]] = p
    \/ InDoubt(p)
===============================================================================
