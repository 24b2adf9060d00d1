------------------------------- MODULE InodeMap -------------------------------
(***************************************************************************)
(* unifuse/src/inode.rs: the numbers under which the kernel knows files.   *)
(* A map is a record: map.inode is path_to_inode, map.path inode_to_path.  *)
(* A path is the sequence of its names; <<>> is the root.                  *)
(***************************************************************************)
EXTENDS Sequences, SequencesExt, Functions

(* FNV-1a of kind and path: the number a path gets when it is registered.  *)
(* Taken as injective; the numbers that do coincide come from renames.     *)
ComputeInode(path, kind) == <<kind, path>>

ROOT_INODE == ComputeInode(<<>>, "dir")

NewMap ==
  [ inode |-> [p \in {<<>>} |-> ROOT_INODE],
    path  |-> [i \in {ROOT_INODE} |-> <<>>] ]

(* The code's "inode collision detected": it is logged and then ignored.   *)
Collides(map, path, kind) ==
  /\ path \notin DOMAIN map.inode
  /\ ComputeInode(path, kind) \in DOMAIN map.path

GetOrInsert(map, path, kind) ==
  LET new == ComputeInode(path, kind)
  IN  IF path \in DOMAIN map.inode THEN map
      ELSE [ inode |-> [p \in DOMAIN map.inode \cup {path} |->
                          IF p = path THEN new ELSE map.inode[p]],
             path  |-> [i \in DOMAIN map.path \cup {new} |->
                          IF i = new THEN path ELSE map.path[i]] ]

RemovePath(map, path) ==
  IF path \notin DOMAIN map.inode THEN map
  ELSE [ inode |-> Restrict(map.inode, DOMAIN map.inode \ {path}),
         path  |-> Restrict(map.path, DOMAIN map.path \ {map.inode[path]}) ]

(* Where a path below `from` is after `from` was renamed.                  *)
Moved(path, from, to) == to \o SubSeq(path, Len(from) + 1, Len(path))

(* Mutant: the way back from the numbers is not renamed.                 *)
RenameForward(map, from, to) ==
  { [ inode |-> [q \in (DOMAIN map.inode \ {p \in DOMAIN map.inode : IsPrefix(from, p)})
                         \cup {Moved(p, from, to) : p \in {x \in DOMAIN map.inode :
                                                           IsPrefix(from, x)}} |->
                   IF IsPrefix(to, q) /\ Moved(q, to, from) \in DOMAIN map.inode
                   THEN map.inode[Moved(q, to, from)] ELSE map.inode[q]],
      path  |-> map.path ] }

(* Mutant: what is below a renamed directory is left.                    *)
RenamePathOnly(map, from, to) ==
  IF from \notin DOMAIN map.inode THEN {map}
  ELSE { [ inode |-> [q \in (DOMAIN map.inode \ {from}) \cup {to} |->
                        IF q = to THEN map.inode[from] ELSE map.inode[q]],
           path  |-> [i \in DOMAIN map.path \cup {map.inode[from]} |->
                        IF i = map.inode[from] THEN to ELSE map.path[i]] ] }

(* rename_subtree moves every registered path below `from`.  Two of them   *)
(* may hold one number after a collision; the order of the table decides   *)
(* which of them it leads to, so the result is a set of maps.              *)
RenameSubtree(map, from, to) ==
  LET moving == {p \in DOMAIN map.inode : IsPrefix(from, p)}
      source(q) == {p \in moving : Moved(p, from, to) = q}
      targets == {Moved(p, from, to) : p \in moving}
      holders(i) == {p \in moving : map.inode[p] = i}
      numbers == {map.inode[p] : p \in moving}
  IN  { [ inode |-> [q \in (DOMAIN map.inode \ moving) \cup targets |->
                       IF q \in targets
                       THEN map.inode[CHOOSE p \in source(q) : TRUE]
                       ELSE map.inode[q]],
          path  |-> [i \in DOMAIN map.path \cup numbers |->
                       IF i \in numbers THEN Moved(last[i], from, to)
                       ELSE map.path[i]] ]
        : last \in {f \in [numbers -> moving] :
                      \A i \in numbers : f[i] \in holders(i)} }
===============================================================================
