--------------------------- MODULE FuseAdapterProofs ---------------------------
(***************************************************************************)
(* Proofs about the inode map under the requests of the adapter, for every *)
(* set of names, every depth and any number of requests under way.         *)
(***************************************************************************)
EXTENDS FuseAdapter, TLAPS, SequenceTheorems

(* The three operations of the map keep it bidirectional but for numbers   *)
(* of which a collision was logged.                                        *)
Agree(m, excepted) ==
  \A p \in DOMAIN m.inode :
    \/ m.inode[p] \in excepted
    \/ m.inode[p] \in DOMAIN m.path /\ m.path[m.inode[p]] = p

LEMMA InsertAgrees ==
  ASSUME NEW m, NEW C, NEW path, NEW kind, Agree(m, C)
  PROVE  Agree(GetOrInsert(m, path, kind),
               C \cup (IF Collides(m, path, kind) THEN {ComputeInode(path, kind)} ELSE {}))
<1>. DEFINE new == ComputeInode(path, kind)
            D == C \cup (IF Collides(m, path, kind) THEN {new} ELSE {})
            r == GetOrInsert(m, path, kind)
<1>1. CASE path \in DOMAIN m.inode
  BY <1>1 DEF Agree, GetOrInsert
<1>2. CASE path \notin DOMAIN m.inode
  <2>1. /\ DOMAIN r.inode = DOMAIN m.inode \cup {path}
        /\ r.inode[path] = new
        /\ \A p \in DOMAIN m.inode : r.inode[p] = m.inode[p]
        /\ DOMAIN r.path = DOMAIN m.path \cup {new}
        /\ r.path[new] = path
        /\ \A i \in DOMAIN m.path : i # new => r.path[i] = m.path[i]
    BY <1>2 DEF GetOrInsert
  <2>2. new \in DOMAIN m.path => new \in D
    BY <1>2 DEF Collides
  <2>. HIDE DEF r, new, D
  <2>3. ASSUME NEW p \in DOMAIN m.inode
        PROVE  r.inode[p] \in D \/ (r.inode[p] \in DOMAIN r.path /\ r.path[r.inode[p]] = p)
    <3>1. m.inode[p] \in C \/ (m.inode[p] \in DOMAIN m.path /\ m.path[m.inode[p]] = p)
      BY DEF Agree
    <3>2. C \subseteq D
      BY DEF D
    <3>. QED
      BY <2>1, <2>2, <3>1, <3>2
  <2>. QED
    BY <2>1, <2>3 DEF Agree, r, D, new
<1>. QED
  BY <1>1, <1>2

LEMMA RemoveAgrees ==
  ASSUME NEW m, NEW C, NEW path, Agree(m, C)
  PROVE  Agree(RemovePath(m, path), C)
<1>. DEFINE r == RemovePath(m, path)
<1>1. CASE path \notin DOMAIN m.inode
  BY <1>1 DEF RemovePath
<1>2. CASE path \in DOMAIN m.inode
  <2>1. /\ DOMAIN r.inode = DOMAIN m.inode \ {path}
        /\ \A p \in DOMAIN r.inode : r.inode[p] = m.inode[p]
        /\ DOMAIN r.path = DOMAIN m.path \ {m.inode[path]}
        /\ \A i \in DOMAIN r.path : r.path[i] = m.path[i]
    BY <1>2 DEF RemovePath, Restrict
  <2>. HIDE DEF r
  <2>2. ASSUME NEW p \in DOMAIN r.inode, r.inode[p] \notin C
        PROVE  r.inode[p] \in DOMAIN r.path /\ r.path[r.inode[p]] = p
    <3>1. /\ p \in DOMAIN m.inode /\ p # path
          /\ m.inode[p] \in DOMAIN m.path /\ m.path[m.inode[p]] = p
      BY <2>1, <2>2 DEF Agree
    <3>2. m.inode[p] # m.inode[path]
      BY <1>2, <2>1, <2>2, <3>1 DEF Agree
    <3>. QED
      BY <2>1, <3>1, <3>2
  <2>. QED
    BY <2>2 DEF Agree, r
<1>. QED
  BY <1>1, <1>2

(* A number without a collision leads to its only holder, so the order in  *)
(* which the subtree is moved does not matter for it.                      *)
LEMMA RenameAgrees ==
  ASSUME NEW m, NEW C, NEW from, NEW to, Agree(m, C), NEW r \in RenameSubtree(m, from, to)
  PROVE  Agree(r, C)
<1>. DEFINE moving == {p \in DOMAIN m.inode : IsPrefix(from, p)}
            source(q) == {p \in moving : Moved(p, from, to) = q}
            targets == {Moved(p, from, to) : p \in moving}
            holders(i) == {p \in moving : m.inode[p] = i}
            numbers == {m.inode[p] : p \in moving}
<1>1. PICK last \in {f \in [numbers -> moving] : \A i \in numbers : f[i] \in holders(i)} :
        r = [ inode |-> [q \in (DOMAIN m.inode \ moving) \cup targets |->
                           IF q \in targets
                           THEN m.inode[CHOOSE p \in source(q) : TRUE] ELSE m.inode[q]],
              path  |-> [i \in DOMAIN m.path \cup numbers |->
                           IF i \in numbers THEN Moved(last[i], from, to) ELSE m.path[i]] ]
  BY DEF RenameSubtree
<1>2. /\ DOMAIN r.inode = (DOMAIN m.inode \ moving) \cup targets
      /\ \A q \in targets : r.inode[q] = m.inode[CHOOSE p \in source(q) : TRUE]
      /\ \A q \in (DOMAIN m.inode \ moving) \ targets : r.inode[q] = m.inode[q]
      /\ DOMAIN r.path = DOMAIN m.path \cup numbers
      /\ \A i \in numbers : r.path[i] = Moved(last[i], from, to)
      /\ \A i \in DOMAIN m.path \ numbers : r.path[i] = m.path[i]
  BY <1>1
<1>3. \A i \in numbers : last[i] \in moving /\ m.inode[last[i]] = i
  BY <1>1
<1>4. \A p, x \in DOMAIN m.inode : m.inode[p] = m.inode[x] /\ m.inode[p] \notin C => p = x
  BY DEF Agree
<1>5. ASSUME NEW q \in targets, r.inode[q] \notin C
      PROVE  r.inode[q] \in DOMAIN r.path /\ r.path[r.inode[q]] = q
  <2>1. PICK p \in source(q) : r.inode[q] = m.inode[p]
    <3>1. source(q) # {}
      OBVIOUS
    <3>. QED
      BY <1>2, <3>1
  <2>2. p \in moving /\ Moved(p, from, to) = q
    BY <2>1
  <2>3. m.inode[p] \in numbers
    BY <2>2
  <2>4. last[m.inode[p]] = p
    BY <1>3, <1>4, <1>5, <2>1, <2>2, <2>3
  <2>. QED
    BY <1>2, <2>1, <2>2, <2>3, <2>4
<1>6. ASSUME NEW q \in (DOMAIN m.inode \ moving) \ targets, r.inode[q] \notin C
      PROVE  r.inode[q] \in DOMAIN r.path /\ r.path[r.inode[q]] = q
  <2>1. m.inode[q] \notin numbers
    BY <1>2, <1>4, <1>6
  <2>2. m.inode[q] \in DOMAIN m.path /\ m.path[m.inode[q]] = q
    BY <1>2, <1>6 DEF Agree
  <2>. QED
    BY <1>2, <1>6, <2>1, <2>2
<1>. QED
  BY <1>2, <1>5, <1>6 DEF Agree

LEMMA MapsStep == MapsAgree /\ [Next]_vars => MapsAgree'
<1>. SUFFICES ASSUME MapsAgree, [Next]_vars PROVE MapsAgree'
  OBVIOUS
<1>1. Agree(map, collided)
  BY DEF Agree, MapsAgree
<1>2. ASSUME Agree(map', collided') PROVE MapsAgree'
  BY <1>2 DEF Agree, MapsAgree
<1>3. CASE UNCHANGED <<map, collided>>
  BY <1>3 DEF MapsAgree
<1>4. ASSUME NEW path, NEW kind, Register(path, kind) PROVE MapsAgree'
  BY <1>1, <1>2, <1>4, InsertAgrees DEF Register
<1>5. ASSUME NEW t \in Tasks, AnswerEntry(t) \/ AnswerReaddir(t) PROVE MapsAgree'
  BY <1>3, <1>4, <1>5 DEF AnswerEntry, AnswerReaddir
<1>6. ASSUME NEW t \in Tasks, AnswerRemove(t) PROVE MapsAgree'
  BY <1>1, <1>2, <1>6, RemoveAgrees DEF AnswerRemove
<1>7. ASSUME NEW t \in Tasks, AnswerRename(t) PROVE MapsAgree'
  BY <1>1, <1>2, <1>7, RenameAgrees DEF AnswerRename
<1>8. ASSUME NEW t \in Tasks, Arrive(t) PROVE UNCHANGED <<map, collided>>
  BY <1>8 DEF Arrive, Ask, AskRename, AskReaddir, Start
<1>9. ASSUME NEW t \in Tasks,
             \/ LookupDisk(t) \/ ReaddirDisk(t) \/ CreateDisk(t) \/ CreateOpen(t)
             \/ MkdirDisk(t) \/ UnlinkDisk(t) \/ RmdirDisk(t) \/ RenameDisk(t) \/ RenameStat(t)
      PROVE  UNCHANGED <<map, collided>>
  BY <1>9 DEF LookupDisk, ReaddirDisk, CreateDisk, CreateOpen, MkdirDisk, UnlinkDisk, RmdirDisk,
              RenameDisk, RenameStat, Fail
<1>10. ASSUME (\E p \in Paths : Forget(p)) \/ Remote \/ UNCHANGED vars
       PROVE  UNCHANGED <<map, collided>>
  BY <1>10 DEF Forget, Remote, vars
<1>. QED
  BY <1>3, <1>5, <1>6, <1>7, <1>8, <1>9, <1>10 DEF Next, Handle

(* A registered path is the one its number leads to, unless a collision    *)
(* was logged for the number, whatever requests overlap and whatever       *)
(* directories are renamed meanwhile.                                      *)
THEOREM MapsStayInverse == Spec => []MapsAgree
<1>1. Init => MapsAgree
  BY DEF Init, MapsAgree, NewMap
<1>. QED
  BY <1>1, MapsStep, PTL DEF Spec

(***************************************************************************)
(* Paths: what a rename makes of them.                                     *)
(***************************************************************************)
LEMMA PathsAreNames == Paths \subseteq Seq(Names)
<1>1. ASSUME NEW n \in 0..MaxDepth PROVE [1..n -> Names] \subseteq Seq(Names)
  BY AdapterAssumption
<1>. QED
  BY <1>1 DEF Paths

LEMMA PrefixIs ==
  ASSUME NEW s \in Seq(Names), NEW u \in Seq(Names)
  PROVE  IsPrefix(s, u) <=> Len(s) <= Len(u) /\ \A i \in 1..Len(s) : s[i] = u[i]
<1>1. CASE Len(s) <= Len(u)
  <2>1. /\ SubSeq(s, 1, Len(s)) \in Seq(Names) /\ Len(SubSeq(s, 1, Len(s))) = Len(s)
        /\ \A i \in 1..Len(s) : SubSeq(s, 1, Len(s))[i] = s[i]
    OBVIOUS
  <2>2. /\ SubSeq(u, 1, Len(s)) \in Seq(Names) /\ Len(SubSeq(u, 1, Len(s))) = Len(s)
        /\ \A i \in 1..Len(s) : SubSeq(u, 1, Len(s))[i] = u[i]
    BY <1>1
  <2>3. SubSeq(s, 1, Len(s)) = SubSeq(u, 1, Len(s)) <=> \A i \in 1..Len(s) : s[i] = u[i]
    BY <2>1, <2>2
  <2>. QED
    BY <1>1, <2>3 DEF IsPrefix
<1>2. CASE ~(Len(s) <= Len(u))
  BY <1>2 DEF IsPrefix
<1>. QED
  BY <1>1, <1>2

LEMMA MovedIs ==
  ASSUME NEW from \in Seq(Names), NEW to \in Seq(Names), NEW p \in Seq(Names), IsPrefix(from, p)
  PROVE  /\ Moved(p, from, to) \in Seq(Names)
         /\ Len(Moved(p, from, to)) = Len(to) + (Len(p) - Len(from))
         /\ \A i \in 1..Len(to) : Moved(p, from, to)[i] = to[i]
         /\ \A i \in 1..(Len(p) - Len(from)) : Moved(p, from, to)[Len(to) + i] = p[Len(from) + i]
<1>. DEFINE b == SubSeq(p, Len(from) + 1, Len(p))
<1>1. Len(from) \in Nat /\ Len(p) \in Nat /\ Len(to) \in Nat /\ Len(from) <= Len(p)
  BY DEF IsPrefix
<1>2. /\ b \in Seq(Names) /\ Len(b) = Len(p) - Len(from)
      /\ \A i \in 1..(Len(p) - Len(from)) : b[i] = p[Len(from) + i]
  BY <1>1, SubSeqProperties
<1>. HIDE DEF b
<1>3. /\ to \o b \in Seq(Names) /\ Len(to \o b) = Len(to) + Len(b)
      /\ \A i \in 1..Len(to) : (to \o b)[i] = to[i]
      /\ \A i \in 1..Len(b) : (to \o b)[Len(to) + i] = b[i]
  <2>1. /\ to \o b \in Seq(Names) /\ Len(to \o b) = Len(to) + Len(b)
        /\ \A i \in 1..(Len(to) + Len(b)) : (to \o b)[i] = IF i <= Len(to) THEN to[i] ELSE b[i - Len(to)]
    BY <1>2, ConcatProperties
  <2>2. ASSUME NEW i \in 1..Len(b) PROVE (to \o b)[Len(to) + i] = b[i]
    <3>1. Len(to) + i \in 1..(Len(to) + Len(b)) /\ ~(Len(to) + i <= Len(to)) /\ (Len(to) + i) - Len(to) = i
      BY <1>1, <1>2
    <3>. QED
      BY <2>1, <3>1
  <2>3. ASSUME NEW i \in 1..Len(to) PROVE (to \o b)[i] = to[i]
    <3>1. i \in 1..(Len(to) + Len(b)) /\ i <= Len(to)
      BY <1>1, <1>2
    <3>. QED
      BY <2>1, <3>1
  <2>. QED
    BY <2>1, <2>2, <2>3
<1>4. Moved(p, from, to) = to \o b
  BY DEF Moved, b
<1>. QED
  BY <1>2, <1>3, <1>4

(* Moved there and back again.                                             *)
LEMMA MovedBack ==
  ASSUME NEW from \in Seq(Names), NEW to \in Seq(Names), NEW p \in Seq(Names), IsPrefix(from, p)
  PROVE  /\ Moved(p, from, to) \in Seq(Names)
         /\ IsPrefix(to, Moved(p, from, to))
         /\ Moved(Moved(p, from, to), to, from) = p
<1>. DEFINE m == Moved(p, from, to)
            back == Moved(m, to, from)
<1>1. /\ m \in Seq(Names) /\ Len(m) = Len(to) + (Len(p) - Len(from))
      /\ \A i \in 1..Len(to) : m[i] = to[i]
      /\ \A i \in 1..(Len(p) - Len(from)) : m[Len(to) + i] = p[Len(from) + i]
  BY MovedIs
<1>. HIDE DEF m
<1>2. /\ Len(from) \in Nat /\ Len(p) \in Nat /\ Len(to) \in Nat /\ Len(from) <= Len(p)
      /\ \A i \in 1..Len(from) : from[i] = p[i]
  BY PrefixIs
<1>3. IsPrefix(to, m)
  BY <1>1, <1>2, PrefixIs
<1>4. /\ back \in Seq(Names) /\ Len(back) = Len(from) + (Len(m) - Len(to))
      /\ \A i \in 1..Len(from) : back[i] = from[i]
      /\ \A i \in 1..(Len(m) - Len(to)) : back[Len(from) + i] = m[Len(to) + i]
  BY <1>1, <1>3, MovedIs
<1>. HIDE DEF back
<1>5. Len(m) - Len(to) = Len(p) - Len(from) /\ Len(back) = Len(p)
  BY <1>1, <1>2, <1>4
<1>6. \A i \in 1..Len(p) : back[i] = p[i]
  <2>1. ASSUME NEW i \in 1..Len(p), i <= Len(from) PROVE back[i] = p[i]
    BY <1>2, <1>4, <2>1
  <2>2. ASSUME NEW i \in 1..Len(p), i > Len(from) PROVE back[i] = p[i]
    <3>1. i - Len(from) \in 1..(Len(p) - Len(from)) /\ Len(from) + (i - Len(from)) = i
      BY <1>2, <2>2
    <3>. DEFINE j == i - Len(from)
    <3>2. back[Len(from) + j] = m[Len(to) + j] /\ m[Len(to) + j] = p[Len(from) + j]
      BY <1>1, <1>4, <1>5, <3>1
    <3>. QED
      BY <3>1, <3>2
  <2>. QED
    BY <1>2, <2>1, <2>2
<1>7. back = p
  BY <1>4, <1>5, <1>6
<1>. QED
  BY <1>1, <1>3, <1>7 DEF m, back

LEMMA MovedRoot ==
  ASSUME NEW from \in Seq(Names), NEW to \in Seq(Names)
  PROVE  IsPrefix(from, from) /\ Moved(from, from, to) = to
<1>1. IsPrefix(from, from)
  BY PrefixIs
<1>. DEFINE m == Moved(from, from, to)
<1>2. /\ m \in Seq(Names) /\ Len(m) = Len(to) + (Len(from) - Len(from))
      /\ \A i \in 1..Len(to) : m[i] = to[i]
  BY <1>1, MovedIs
<1>. HIDE DEF m
<1>3. Len(m) = Len(to)
  BY <1>2
<1>4. m = to
  BY <1>2, <1>3
<1>. QED
  BY <1>1, <1>4 DEF m

LEMMA ParentIs ==
  ASSUME NEW p \in Seq(Names), p # <<>>
  PROVE  /\ Parent(p) \in Seq(Names) /\ Len(Parent(p)) = Len(p) - 1
         /\ \A i \in 1..(Len(p) - 1) : Parent(p)[i] = p[i]
         /\ Append(Parent(p), Last(p)) = p
<1>1. Len(p) \in Nat /\ Len(p) > 0
  OBVIOUS
<1>. DEFINE f == SubSeq(p, 1, Len(p) - 1)
<1>2. /\ f \in Seq(Names) /\ Len(f) = Len(p) - 1
      /\ \A i \in 1..(Len(p) - 1) : f[i] = p[i]
  <2>1. \A i \in 1..(Len(p) - 1) : p[i] \in Names
    BY <1>1
  <2>2. /\ f \in Seq(Names) /\ Len(f) = (IF 1 <= Len(p) - 1 THEN (Len(p) - 1) - 1 + 1 ELSE 0)
        /\ \A i \in 1..((Len(p) - 1) - 1 + 1) : f[i] = p[1 + i - 1]
    BY <1>1, <2>1, SubSeqProperties
  <2>. HIDE DEF f
  <2>3. (Len(p) - 1) - 1 + 1 = Len(p) - 1 /\ \A i \in 1..(Len(p) - 1) : 1 + i - 1 = i
    BY <1>1
  <2>4. CASE 1 <= Len(p) - 1
    BY <1>1, <2>2, <2>3, <2>4
  <2>5. CASE ~(1 <= Len(p) - 1)
    <3>. DEFINE n == Len(p)
    <3>0. n \in Nat /\ n > 0 /\ ~(1 <= n - 1)
      BY <1>1, <2>5
    <3>. HIDE DEF n
    <3>1. n - 1 = 0
      BY <3>0
    <3>2. Len(f) = 0
      BY <2>2, <2>5
    <3>. QED
      BY <2>2, <2>3, <3>1, <3>2 DEF n
  <2>. QED
    BY <2>4, <2>5
<1>. HIDE DEF f
<1>3. Parent(p) = f /\ Last(p) = p[Len(p)] /\ p[Len(p)] \in Names
  BY <1>1 DEF Parent, Front, Last, f
<1>4. Append(f, p[Len(p)]) = p
  BY <1>1, <1>2, <1>3
<1>. QED
  BY <1>2, <1>3, <1>4

(* What is below a directory, above its own parent.                        *)
LEMMA ParentBelow ==
  ASSUME NEW from \in Seq(Names), NEW p \in Seq(Names)
  PROVE  /\ p # <<>> /\ IsPrefix(from, Parent(p)) => IsPrefix(from, p)
         /\ IsPrefix(from, p) /\ p # from => p # <<>> /\ IsPrefix(from, Parent(p))
<1>1. ASSUME p # <<>>, IsPrefix(from, Parent(p)) PROVE IsPrefix(from, p)
  <2>1. Parent(p) \in Seq(Names) /\ Len(Parent(p)) = Len(p) - 1 /\ Len(p) \in Nat /\ Len(from) \in Nat
        /\ \A i \in 1..(Len(p) - 1) : Parent(p)[i] = p[i]
    BY <1>1, ParentIs
  <2>2. Len(from) <= Len(Parent(p)) /\ \A i \in 1..Len(from) : from[i] = Parent(p)[i]
    BY <1>1, <2>1, PrefixIs
  <2>3. Len(from) <= Len(p) /\ \A i \in 1..Len(from) : i \in 1..(Len(p) - 1)
    BY <2>1, <2>2
  <2>4. \A i \in 1..Len(from) : from[i] = p[i]
    BY <2>1, <2>2, <2>3
  <2>. QED
    BY <2>3, <2>4, PrefixIs
<1>2. ASSUME IsPrefix(from, p), p # from PROVE p # <<>> /\ IsPrefix(from, Parent(p))
  <2>1. /\ Len(from) \in Nat /\ Len(p) \in Nat /\ Len(from) <= Len(p)
        /\ \A i \in 1..Len(from) : from[i] = p[i]
    BY <1>2, PrefixIs
  <2>2. Len(from) # Len(p)
    BY <1>2, <2>1
  <2>3. p # <<>>
    BY <2>1, <2>2
  <2>4. Parent(p) \in Seq(Names) /\ Len(Parent(p)) = Len(p) - 1
        /\ \A i \in 1..(Len(p) - 1) : Parent(p)[i] = p[i]
    BY <2>3, ParentIs
  <2>5. Len(from) <= Len(Parent(p)) /\ \A i \in 1..Len(from) : from[i] = Parent(p)[i]
    BY <2>1, <2>2, <2>4
  <2>. QED
    BY <2>3, <2>4, <2>5, PrefixIs
<1>. QED
  BY <1>1, <1>2

LEMMA ParentMoved ==
  ASSUME NEW from \in Seq(Names), NEW to \in Seq(Names), NEW p \in Seq(Names),
         IsPrefix(from, p), p # from
  PROVE  Parent(Moved(p, from, to)) = Moved(Parent(p), from, to) /\ Moved(p, from, to) # <<>>
<1>. DEFINE m == Moved(p, from, to)
            n == Moved(Parent(p), from, to)
<1>1. /\ Len(from) \in Nat /\ Len(p) \in Nat /\ Len(to) \in Nat /\ Len(from) < Len(p) /\ p # <<>>
      /\ IsPrefix(from, Parent(p))
  <2>1. p # <<>> /\ IsPrefix(from, Parent(p))
    BY ParentBelow
  <2>2. Parent(p) \in Seq(Names) /\ Len(Parent(p)) = Len(p) - 1
    BY <2>1, ParentIs
  <2>3. Len(from) <= Len(Parent(p))
    BY <2>1, <2>2, PrefixIs
  <2>. QED
    BY <2>1, <2>2, <2>3
<1>2. /\ Parent(p) \in Seq(Names) /\ Len(Parent(p)) = Len(p) - 1
      /\ \A i \in 1..(Len(p) - 1) : Parent(p)[i] = p[i]
  BY <1>1, ParentIs
<1>3. /\ m \in Seq(Names) /\ Len(m) = Len(to) + (Len(p) - Len(from))
      /\ \A i \in 1..Len(to) : m[i] = to[i]
      /\ \A i \in 1..(Len(p) - Len(from)) : m[Len(to) + i] = p[Len(from) + i]
  BY MovedIs
<1>4. /\ n \in Seq(Names) /\ Len(n) = Len(to) + (Len(Parent(p)) - Len(from))
      /\ \A i \in 1..Len(to) : n[i] = to[i]
      /\ \A i \in 1..(Len(Parent(p)) - Len(from)) : n[Len(to) + i] = Parent(p)[Len(from) + i]
  BY <1>1, <1>2, MovedIs
<1>. HIDE DEF m, n
<1>5. m # <<>>
  BY <1>1, <1>3
<1>6. /\ Parent(m) \in Seq(Names) /\ Len(Parent(m)) = Len(m) - 1
      /\ \A i \in 1..(Len(m) - 1) : Parent(m)[i] = m[i]
  BY <1>3, <1>5, ParentIs
<1>7. Len(Parent(m)) = Len(n)
  BY <1>1, <1>2, <1>3, <1>4, <1>6
<1>8. \A i \in 1..Len(n) : Parent(m)[i] = n[i]
  <2>1. ASSUME NEW i \in 1..Len(n), i <= Len(to) PROVE Parent(m)[i] = n[i]
    BY <1>1, <1>3, <1>4, <1>6, <1>7, <2>1
  <2>2. ASSUME NEW i \in 1..Len(n), i > Len(to) PROVE Parent(m)[i] = n[i]
    <3>. DEFINE j == i - Len(to)
    <3>1. /\ j \in 1..(Len(Parent(p)) - Len(from)) /\ j \in 1..(Len(p) - Len(from))
          /\ Len(to) + j = i /\ Len(from) + j \in 1..(Len(p) - 1) /\ i \in 1..(Len(m) - 1)
      BY <1>1, <1>2, <1>3, <1>4, <2>2
    <3>. HIDE DEF j
    <3>2. Parent(m)[i] = m[i] /\ m[i] = p[Len(from) + j]
      BY <1>3, <1>6, <3>1
    <3>3. n[i] = Parent(p)[Len(from) + j] /\ Parent(p)[Len(from) + j] = p[Len(from) + j]
      BY <1>2, <1>4, <3>1
    <3>. QED
      BY <3>2, <3>3
  <2>. QED
    BY <1>1, <1>4, <2>1, <2>2
<1>9. Parent(m) = n
  BY <1>4, <1>6, <1>7, <1>8, SeqEqual
<1>. QED
  BY <1>5, <1>9 DEF m, n

(***************************************************************************)
(* Types: the tables, the kernel's names and the requests.                 *)
(***************************************************************************)
TreeOK(d) == DOMAIN d \subseteq Seq(Names) /\ \A p \in DOMAIN d : d[p] \in Kinds

MapOK(m) ==
  /\ DOMAIN m.inode \subseteq Seq(Names)
  /\ \A p \in DOMAIN m.inode : m.inode[p] \in Inodes
  /\ DOMAIN m.path \subseteq Inodes
  /\ \A i \in DOMAIN m.path : m.path[i] \in Seq(Names)

KernelOK(d) ==
  /\ DOMAIN d \subseteq Seq(Names)
  /\ \A p \in DOMAIN d : d[p] \in Inodes
  /\ \A p \in DOMAIN d \ {<<>>} : Parent(p) \in DOMAIN d

Requests == {Idle} \cup NameRequests \cup RenameRequests \cup ListRequests

LEMMA TypeParts ==
  TypeOK <=> /\ TreeOK(tree) /\ MapOK(map) /\ KernelOK(dcache) /\ request \in [Tasks -> Requests]
             /\ collided \subseteq Inodes /\ misled \subseteq Inodes
BY DEF TypeOK, TreeOK, MapOK, KernelOK, Requests

LEMMA InsertTypes ==
  ASSUME NEW m, MapOK(m), NEW path \in Seq(Names), NEW kind \in Kinds
  PROVE  /\ MapOK(GetOrInsert(m, path, kind))
         /\ path \in DOMAIN GetOrInsert(m, path, kind).inode
         /\ ComputeInode(path, kind) \in Inodes
<1>1. ComputeInode(path, kind) \in Inodes
  BY DEF ComputeInode, Inodes
<1>2. CASE path \in DOMAIN m.inode
  BY <1>1, <1>2 DEF GetOrInsert
<1>3. CASE path \notin DOMAIN m.inode
  <2>. DEFINE new == ComputeInode(path, kind)
              r == GetOrInsert(m, path, kind)
  <2>1. /\ DOMAIN r.inode = DOMAIN m.inode \cup {path}
        /\ \A p \in DOMAIN r.inode : r.inode[p] = IF p = path THEN new ELSE m.inode[p]
        /\ DOMAIN r.path = DOMAIN m.path \cup {new}
        /\ \A i \in DOMAIN r.path : r.path[i] = IF i = new THEN path ELSE m.path[i]
    BY <1>3 DEF GetOrInsert
  <2>. HIDE DEF r, new
  <2>2. new \in Inodes
    BY <1>1 DEF new
  <2>3. MapOK(r)
    BY <2>1, <2>2 DEF MapOK
  <2>. QED
    BY <1>1, <2>1, <2>3 DEF r
<1>. QED
  BY <1>2, <1>3

LEMMA RemoveTypes ==
  ASSUME NEW m, MapOK(m), NEW path
  PROVE  MapOK(RemovePath(m, path))
BY DEF MapOK, RemovePath, Restrict

LEMMA RenameTypes ==
  ASSUME NEW m, MapOK(m), NEW from \in Seq(Names), NEW to \in Seq(Names),
         NEW r \in RenameSubtree(m, from, to)
  PROVE  MapOK(r)
<1>. DEFINE moving == {p \in DOMAIN m.inode : IsPrefix(from, p)}
            source(q) == {p \in moving : Moved(p, from, to) = q}
            targets == {Moved(p, from, to) : p \in moving}
            holders(i) == {p \in moving : m.inode[p] = i}
            numbers == {m.inode[p] : p \in moving}
<1>1. PICK last \in {f \in [numbers -> moving] : \A i \in numbers : f[i] \in holders(i)} :
        r = [ inode |-> [q \in (DOMAIN m.inode \ moving) \cup targets |->
                           IF q \in targets
                           THEN m.inode[CHOOSE p \in source(q) : TRUE] ELSE m.inode[q]],
              path  |-> [i \in DOMAIN m.path \cup numbers |->
                           IF i \in numbers THEN Moved(last[i], from, to) ELSE m.path[i]] ]
  BY DEF RenameSubtree
<1>2. /\ DOMAIN r.inode = (DOMAIN m.inode \ moving) \cup targets
      /\ \A q \in targets : r.inode[q] = m.inode[CHOOSE p \in source(q) : TRUE]
      /\ \A q \in (DOMAIN m.inode \ moving) \ targets : r.inode[q] = m.inode[q]
      /\ DOMAIN r.path = DOMAIN m.path \cup numbers
      /\ \A i \in numbers : r.path[i] = Moved(last[i], from, to)
      /\ \A i \in DOMAIN m.path \ numbers : r.path[i] = m.path[i]
  BY <1>1
<1>3. \A i \in numbers : last[i] \in moving
  BY <1>1
<1>4. /\ DOMAIN m.inode \subseteq Seq(Names) /\ DOMAIN m.path \subseteq Inodes
      /\ \A p \in DOMAIN m.inode : m.inode[p] \in Inodes
      /\ \A i \in DOMAIN m.path : m.path[i] \in Seq(Names)
  BY DEF MapOK
<1>5. \A p \in moving : Moved(p, from, to) \in Seq(Names)
  BY <1>4, MovedBack
<1>6. \A q \in targets : r.inode[q] \in Inodes
  <2>1. ASSUME NEW q \in targets PROVE (CHOOSE p \in source(q) : TRUE) \in moving
    <3>1. source(q) # {}
      OBVIOUS
    <3>. QED
      BY <3>1
  <2>. QED
    BY <1>2, <1>4, <2>1
<1>7. targets \subseteq Seq(Names) /\ numbers \subseteq Inodes
  BY <1>4, <1>5
<1>8. \A i \in numbers : r.path[i] \in Seq(Names)
  BY <1>2, <1>3, <1>5
<1>. HIDE DEF moving, targets, numbers
<1>. QED
  BY <1>2, <1>4, <1>6, <1>7, <1>8 DEF MapOK

LEMMA LearnTypes ==
  ASSUME KernelOK(dcache), NEW p \in Seq(Names), NEW i \in Inodes, Learn(p, i)
  PROVE  KernelOK(dcache')
<1>1. CASE Parent(p) \notin DOMAIN dcache
  BY <1>1 DEF Learn
<1>2. CASE Parent(p) \in DOMAIN dcache
  <2>. DEFINE keep == IF p \in DOMAIN dcache /\ dcache[p] = i THEN DOMAIN dcache
                      ELSE DOMAIN dcache \ Known(p)
  <2>1. dcache' = [q \in keep \cup {p} |-> IF q = p THEN i ELSE dcache[q]]
    BY <1>2 DEF Learn
  <2>2. keep \subseteq DOMAIN dcache
    OBVIOUS
  <2>3. ASSUME NEW q \in keep, q # <<>> PROVE Parent(q) \in keep
    <3>1. Parent(q) \in DOMAIN dcache /\ q \in Seq(Names)
      BY <2>2, <2>3 DEF KernelOK
    <3>2. ~IsPrefix(p, q) => ~IsPrefix(p, Parent(q))
      BY <2>3, <3>1, ParentBelow
    <3>. QED
      BY <2>3, <3>1, <3>2 DEF Known
  <2>4. p # <<>> => Parent(p) \in keep
    <3>1. ASSUME p # <<>> PROVE ~IsPrefix(p, Parent(p))
      <4>1. Parent(p) \in Seq(Names) /\ Len(Parent(p)) = Len(p) - 1 /\ Len(p) \in Nat
        BY <3>1, ParentIs
      <4>. QED
        BY <4>1 DEF IsPrefix
    <3>. QED
      BY <1>2, <3>1 DEF Known
  <2>. HIDE DEF keep
  <2>. QED
    BY <2>1, <2>2, <2>3, <2>4 DEF KernelOK
<1>. QED
  BY <1>1, <1>2

LEMMA UnlearnTypes ==
  ASSUME KernelOK(dcache), NEW p \in Seq(Names), Unlearn(p)
  PROVE  KernelOK(dcache')
<1>1. /\ DOMAIN dcache' = DOMAIN dcache \ Known(p)
      /\ \A q \in DOMAIN dcache' : dcache'[q] = dcache[q]
  BY DEF Unlearn, Restrict
<1>2. ASSUME NEW q \in DOMAIN dcache' \ {<<>>} PROVE Parent(q) \in DOMAIN dcache'
  <2>1. Parent(q) \in DOMAIN dcache /\ q \in Seq(Names) /\ ~IsPrefix(p, q)
    BY <1>1, <1>2 DEF KernelOK, Known
  <2>. QED
    BY <1>1, <1>2, <2>1, ParentBelow DEF Known
<1>. QED
  BY <1>1, <1>2 DEF KernelOK

(* What the kernel has after a rename.                                     *)
LEMMA MoveIs ==
  ASSUME KernelOK(dcache), NEW from \in Seq(Names), NEW to \in Seq(Names), MoveNames(from, to)
  PROVE  \A q \in DOMAIN dcache' :
           \/ /\ q \in DOMAIN dcache /\ ~IsPrefix(from, q) /\ ~IsPrefix(to, q)
              /\ dcache'[q] = dcache[q]
           \/ \E p \in Known(from) :
                /\ q = Moved(p, from, to) /\ dcache'[q] = dcache[p]
                /\ p # from => Moved(Parent(p), from, to) \in DOMAIN dcache'
                /\ p = from => Parent(to) \in DOMAIN dcache'
<1>. DEFINE stay == DOMAIN dcache \ (Known(from) \cup Known(to))
            moving == IF Parent(to) \in stay THEN Known(from) ELSE {}
<1>1. dcache' = [q \in stay \cup {Moved(p, from, to) : p \in moving} |->
                   IF q \in stay THEN dcache[q] ELSE dcache[Moved(q, to, from)]]
  BY DEF MoveNames
<1>2. ASSUME NEW p \in moving
      PROVE  /\ Moved(p, from, to) \in DOMAIN dcache' /\ Moved(p, from, to) \notin stay
             /\ dcache'[Moved(p, from, to)] = dcache[p]
             /\ p \in Known(from) /\ Parent(to) \in stay
             /\ p # from => Parent(p) \in moving
  <2>1. p \in DOMAIN dcache /\ IsPrefix(from, p) /\ p \in Seq(Names) /\ p \in Known(from)
        /\ Parent(to) \in stay
    BY DEF Known, KernelOK
  <2>2. IsPrefix(to, Moved(p, from, to)) /\ Moved(Moved(p, from, to), to, from) = p
    BY <2>1, MovedBack
  <2>3. Moved(p, from, to) \in DOMAIN dcache' /\ Moved(p, from, to) \notin stay
    BY <1>1, <2>2 DEF Known
  <2>4. ASSUME p # from PROVE Parent(p) \in moving
    <3>1. p # <<>> /\ IsPrefix(from, Parent(p))
      BY <2>1, <2>4, ParentBelow
    <3>. QED
      BY <2>1, <3>1 DEF Known, KernelOK
  <2>. HIDE DEF stay, moving
  <2>. QED
    BY <1>1, <2>1, <2>2, <2>3, <2>4
<1>3. \A q \in stay : q \in DOMAIN dcache' /\ dcache'[q] = dcache[q]
                      /\ q \in DOMAIN dcache /\ ~IsPrefix(from, q) /\ ~IsPrefix(to, q)
  BY <1>1 DEF Known
<1>4. DOMAIN dcache' = stay \cup {Moved(p, from, to) : p \in moving}
  BY <1>1
<1>. HIDE DEF stay, moving
<1>5. ASSUME NEW p \in moving
      PROVE  \E x \in Known(from) :
                /\ Moved(p, from, to) = Moved(x, from, to)
                /\ dcache'[Moved(p, from, to)] = dcache[x]
                /\ x # from => Moved(Parent(x), from, to) \in DOMAIN dcache'
                /\ x = from => Parent(to) \in DOMAIN dcache'
  BY <1>2, <1>3, <1>4
<1>. QED
  BY <1>3, <1>4, <1>5

LEMMA MoveTypes ==
  ASSUME KernelOK(dcache), NEW from \in Seq(Names), NEW to \in Seq(Names), MoveNames(from, to)
  PROVE  KernelOK(dcache')
<1>1. ASSUME NEW q \in DOMAIN dcache'
      PROVE  /\ q \in Seq(Names) /\ dcache'[q] \in Inodes
             /\ q # <<>> => Parent(q) \in DOMAIN dcache'
  <2>1. CASE \E p \in Known(from) :
                /\ q = Moved(p, from, to) /\ dcache'[q] = dcache[p]
                /\ p # from => Moved(Parent(p), from, to) \in DOMAIN dcache'
                /\ p = from => Parent(to) \in DOMAIN dcache'
    <3>1. PICK p \in Known(from) :
                /\ q = Moved(p, from, to) /\ dcache'[q] = dcache[p]
                /\ p # from => Moved(Parent(p), from, to) \in DOMAIN dcache'
                /\ p = from => Parent(to) \in DOMAIN dcache'
      BY <2>1
    <3>2. p \in DOMAIN dcache /\ p \in Seq(Names) /\ IsPrefix(from, p)
      BY DEF Known, KernelOK
    <3>3. q \in Seq(Names) /\ dcache'[q] \in Inodes
      BY <3>1, <3>2, MovedBack DEF KernelOK
    <3>4. CASE p = from
      BY <3>1, <3>3, <3>4, MovedRoot
    <3>5. CASE p # from
      BY <3>1, <3>2, <3>3, <3>5, ParentMoved
    <3>. QED
      BY <3>4, <3>5
  <2>2. CASE /\ q \in DOMAIN dcache /\ ~IsPrefix(from, q) /\ ~IsPrefix(to, q)
             /\ dcache'[q] = dcache[q]
    <3>1. q \in Seq(Names) /\ dcache[q] \in Inodes /\ (q # <<>> => Parent(q) \in DOMAIN dcache)
      BY <2>2 DEF KernelOK
    <3>2. ASSUME q # <<>> PROVE Parent(q) \in DOMAIN dcache'
      <4>1. ~IsPrefix(from, Parent(q)) /\ ~IsPrefix(to, Parent(q))
        BY <2>2, <3>1, <3>2, ParentBelow
      <4>. QED
        BY <3>1, <3>2, <4>1 DEF MoveNames, Known
    <3>. QED
      BY <2>2, <3>1, <3>2
  <2>. QED
    BY <2>1, <2>2, MoveIs
<1>. QED
  BY <1>1 DEF KernelOK

(***************************************************************************)
(* The invariant.  A name the kernel has a sure number for is registered   *)
(* under that number, and a request that is not misled works on the name   *)
(* the kernel asked about.                                                 *)
(***************************************************************************)
NamesKnown ==
  \A p \in DOMAIN dcache : InDoubt(p) \/ (p \in DOMAIN map.inode /\ map.inode[p] = dcache[p])

RightRequest(r) ==
  /\ r \in NameRequests /\ ~r.misled => r.path = r.at
  /\ r \in RenameRequests /\ ~r.misled => r.path = r.at /\ r.toPath = r.toAt

RequestsRight == \A t \in Tasks : RightRequest(request[t])

AInv == TypeOK /\ MapsAgree /\ NamesKnown /\ RequestsRight

LEMMA TypePartsAfter ==
  TypeOK' <=> /\ TreeOK(tree') /\ MapOK(map') /\ KernelOK(dcache') /\ request' \in [Tasks -> Requests]
              /\ collided' \subseteq Inodes /\ misled' \subseteq Inodes
BY DEF TypeOK, TreeOK, MapOK, KernelOK, Requests

LEMMA AdapterInit == Init => AInv
<1>. SUFFICES ASSUME Init PROVE AInv
  OBVIOUS
<1>1. ROOT_INODE \in Inodes /\ <<>> \in Seq(Names)
  <2>1. <<>> \in Seq(Names) /\ "dir" \in Kinds
    BY EmptySeq DEF Kinds
  <2>2. ROOT_INODE = <<"dir", <<>>>>
    BY DEF ROOT_INODE, ComputeInode
  <2>. QED
    BY <2>1, <2>2 DEF Inodes
<1>2. /\ DOMAIN map.inode = {<<>>} /\ map.inode[<<>>] = ROOT_INODE
      /\ DOMAIN map.path = {ROOT_INODE} /\ map.path[ROOT_INODE] = <<>>
      /\ DOMAIN dcache = {<<>>} /\ dcache[<<>>] = ROOT_INODE
      /\ DOMAIN tree = {<<>>} /\ tree[<<>>] = "dir"
  BY DEF Init, NewMap
<1>3. TypeOK
  <2>1. TreeOK(tree) /\ MapOK(map) /\ KernelOK(dcache)
    BY <1>1, <1>2 DEF TreeOK, MapOK, KernelOK, Kinds
  <2>2. request \in [Tasks -> Requests] /\ collided = {} /\ misled = {}
    BY DEF Init, Requests
  <2>. QED
    BY <2>1, <2>2, TypeParts
<1>4. MapsAgree /\ NamesKnown
  BY <1>2 DEF MapsAgree, NamesKnown
<1>5. RequestsRight
  BY DEF Init, RequestsRight, RightRequest, Idle, NameRequests, RenameRequests
<1>. QED
  BY <1>3, <1>4, <1>5 DEF AInv

LEMMA RequestKinds ==
  ASSUME NEW r \in Requests
  PROVE  /\ r.op \in {"lookup", "create", "mkdir", "unlink", "rmdir"} => r \in NameRequests
         /\ r.op = "rename" => r \in RenameRequests
         /\ r.op = "readdir" => r \in ListRequests
BY DEF Requests, Idle, NameRequests, RenameRequests, ListRequests

(* Steps of a request that change nothing but the tree and the request.    *)
LEMMA Frame ==
  ASSUME AInv, MapsAgree', TreeOK(tree'), UNCHANGED <<map, dcache, collided, misled>>,
         NEW t \in Tasks, NEW r \in Requests, RightRequest(r), request' = [request EXCEPT ![t] = r]
  PROVE  AInv'
<1>1. /\ MapOK(map) /\ KernelOK(dcache) /\ request \in [Tasks -> Requests]
      /\ collided \subseteq Inodes /\ misled \subseteq Inodes
  BY TypeParts DEF AInv
<1>2. request' \in [Tasks -> Requests] /\ \A u \in Tasks : RightRequest(request'[u])
  <2>1. request' \in [Tasks -> Requests]
    BY <1>1
  <2>2. ASSUME NEW u \in Tasks PROVE request'[u] = IF u = t THEN r ELSE request[u]
    BY <1>1
  <2>3. \A u \in Tasks : RightRequest(request[u])
    BY DEF AInv, RequestsRight
  <2>. QED
    BY <2>1, <2>2, <2>3
<1>3. TypeOK'
  BY <1>1, <1>2, TypePartsAfter
<1>4. NamesKnown'
  BY DEF AInv, NamesKnown, InDoubt
<1>5. RequestsRight'
  BY <1>2 DEF RequestsRight
<1>. QED
  BY <1>3, <1>4, <1>5 DEF AInv

(* A request through a sure number works on the name it is about.          *)
LEMMA Resolved ==
  ASSUME AInv, NEW p \in Seq(Names), p # <<>>, Resolves(Parent(p)), ~InDoubt(Parent(p))
  PROVE  ResolveChild(p) = p
<1>1. map.path[dcache[Parent(p)]] = Parent(p)
  BY DEF AInv, NamesKnown, MapsAgree, Resolves, InDoubt
<1>. QED
  BY <1>1, ParentIs DEF ResolveChild, ResolvePath

LEMMA ArriveStep == ASSUME AInv, MapsAgree', NEW t \in Tasks, Arrive(t) PROVE AInv'
<1>0. TreeOK(tree) /\ MapOK(map)
  BY TypeParts DEF AInv
<1>1. ASSUME NEW p \in Paths, NEW op \in {"lookup", "create", "mkdir", "unlink", "rmdir"}, Ask(t, op, p)
      PROVE  AInv'
  <2>. DEFINE d == InDoubt(Parent(p))
              r == [op |-> op, step |-> "disk", at |-> p, path |-> ResolveChild(p),
                    kind |-> "file", misled |-> d]
  <2>1. /\ p # <<>> /\ Resolves(Parent(p)) /\ ResolveChild(p) \in Seq(Names) /\ p \in Seq(Names)
        /\ request' = [request EXCEPT ![t] = r]
        /\ UNCHANGED <<tree, map, dcache, collided, misled>>
    BY <1>1, PathsAreNames DEF Ask, CanAsk, Start
  <2>2. d \in BOOLEAN /\ (~d => ResolveChild(p) = p)
    BY <2>1, Resolved DEF InDoubt
  <2>. HIDE DEF d
  <2>3. r \in NameRequests /\ r.op # "rename"
    BY <2>1, <2>2 DEF NameRequests, Kinds
  <2>4. RightRequest(r)
    BY <2>2, <2>3 DEF RightRequest, RenameRequests
  <2>5. r \in Requests
    BY <2>3 DEF Requests
  <2>6. TreeOK(tree')
    BY <1>0, <2>1
  <2>. HIDE DEF r
  <2>. QED
    BY <2>1, <2>4, <2>5, <2>6, Frame
<1>2. ASSUME NEW p \in Paths, AskReaddir(t, p) PROVE AInv'
  <2>. DEFINE r == [op |-> "readdir", step |-> "disk", at |-> p, path |-> ResolvePath(p), entries |-> {}]
  <2>1. /\ ResolvePath(p) \in Seq(Names) /\ p \in Seq(Names)
        /\ request' = [request EXCEPT ![t] = r]
        /\ UNCHANGED <<tree, map, dcache, collided, misled>>
    BY <1>0, <1>2, PathsAreNames DEF AskReaddir, Start, Resolves, ResolvePath, MapOK
  <2>2. r \in ListRequests
    BY <2>1 DEF ListRequests
  <2>3. RightRequest(r)
    BY DEF RightRequest, NameRequests, RenameRequests
  <2>4. r \in Requests /\ TreeOK(tree')
    BY <1>0, <2>1, <2>2 DEF Requests
  <2>. HIDE DEF r
  <2>. QED
    BY <2>1, <2>3, <2>4, Frame
<1>3. ASSUME NEW p \in Paths, NEW q \in Paths, AskRename(t, p, q) PROVE AInv'
  <2>. DEFINE d == InDoubt(Parent(p)) \/ InDoubt(Parent(q))
              r == [op |-> "rename", step |-> "disk", at |-> p, toAt |-> q,
                    path |-> ResolveChild(p), toPath |-> ResolveChild(q), misled |-> d]
  <2>1. /\ p # <<>> /\ Resolves(Parent(p)) /\ ResolveChild(p) \in Seq(Names) /\ p \in Seq(Names)
        /\ q # <<>> /\ Resolves(Parent(q)) /\ ResolveChild(q) \in Seq(Names) /\ q \in Seq(Names)
        /\ request' = [request EXCEPT ![t] = r]
        /\ UNCHANGED <<tree, map, dcache, collided, misled>>
    BY <1>3, PathsAreNames DEF AskRename, CanAsk, Start
  <2>2. d \in BOOLEAN /\ (~d => ResolveChild(p) = p /\ ResolveChild(q) = q)
    BY <2>1, Resolved
  <2>. HIDE DEF d
  <2>3. r \in RenameRequests
    BY <2>1, <2>2 DEF RenameRequests
  <2>4. RightRequest(r)
    BY <2>2, <2>3 DEF RightRequest, NameRequests
  <2>5. r \in Requests /\ TreeOK(tree')
    BY <1>0, <2>1, <2>3 DEF Requests
  <2>. HIDE DEF r
  <2>. QED
    BY <2>1, <2>4, <2>5, Frame
<1>. QED
  BY <1>1, <1>2, <1>3 DEF Arrive

(***************************************************************************)
(* The call of the file system.                                            *)
(***************************************************************************)
LEMMA PutTree ==
  ASSUME TreeOK(tree), NEW p \in Seq(Names), NEW kind \in Kinds, Put(p, kind)
  PROVE  TreeOK(tree')
BY DEF Put, TreeOK

LEMMA DeleteTree == ASSUME TreeOK(tree), NEW p, Delete(p) PROVE TreeOK(tree')
BY DEF Delete, Restrict, TreeOK

LEMMA MoveTreeTypes ==
  ASSUME TreeOK(tree), NEW from \in Seq(Names), NEW to \in Seq(Names), MoveTree(from, to)
  PROVE  TreeOK(tree')
<1>. DEFINE stay == {p \in DOMAIN tree : ~IsPrefix(from, p) /\ p # to}
            moving == {p \in DOMAIN tree : IsPrefix(from, p)}
<1>1. tree' = [q \in stay \cup {Moved(p, from, to) : p \in moving} |->
                 IF q \in stay THEN tree[q] ELSE tree[Moved(q, to, from)]]
  BY DEF MoveTree
<1>2. \A p \in DOMAIN tree : p \in Seq(Names) /\ tree[p] \in Kinds
  BY DEF TreeOK
<1>3. \A p \in moving : Moved(p, from, to) \in Seq(Names) /\ Moved(Moved(p, from, to), to, from) = p
  BY <1>2, MovedBack
<1>4. stay \subseteq DOMAIN tree /\ moving \subseteq DOMAIN tree
  OBVIOUS
<1>. HIDE DEF stay, moving
<1>5. ASSUME NEW q \in stay \cup {Moved(p, from, to) : p \in moving}
      PROVE  q \in Seq(Names) /\ tree'[q] \in Kinds
  BY <1>1, <1>2, <1>3, <1>4
<1>. QED
  BY <1>1, <1>5 DEF TreeOK

(* A request that goes on with the same paths, or ends.                    *)
LEMMA GoesOn ==
  ASSUME AInv, NEW t \in Tasks, NEW r, request[t].op # "idle",
         \/ r = Idle
         \/ request[t] \in NameRequests /\ r \in NameRequests /\ r.misled = request[t].misled
            /\ r.at = request[t].at /\ r.path = request[t].path
         \/ request[t] \in RenameRequests /\ r \in RenameRequests /\ r.misled = request[t].misled
            /\ r.at = request[t].at /\ r.path = request[t].path
            /\ r.toAt = request[t].toAt /\ r.toPath = request[t].toPath
         \/ request[t] \in ListRequests /\ r \in ListRequests
  PROVE  r \in Requests /\ RightRequest(r)
<1>1. RightRequest(request[t])
  BY DEF AInv, RequestsRight
<1>2. r \in Requests
  BY DEF Requests
<1>3. ASSUME r \in NameRequests, ~r.misled PROVE r.path = r.at
  BY <1>1, <1>3 DEF RightRequest, NameRequests, RenameRequests, ListRequests, Idle
<1>4. ASSUME r \in RenameRequests, ~r.misled PROVE r.path = r.at /\ r.toPath = r.toAt
  BY <1>1, <1>4 DEF RightRequest, NameRequests, RenameRequests, ListRequests, Idle
<1>. QED
  BY <1>2, <1>3, <1>4 DEF RightRequest

LEMMA Ends ==
  ASSUME AInv, MapsAgree', NEW t \in Tasks, TreeOK(tree'), UNCHANGED <<map, dcache, collided, misled>>,
         request' = [request EXCEPT ![t] = Idle]
  PROVE  AInv'
<1>1. Idle \in Requests /\ RightRequest(Idle)
  BY DEF Requests, RightRequest, Idle, NameRequests, RenameRequests
<1>. QED
  BY <1>1, Frame

LEMMA Reaches ==
  ASSUME AInv, MapsAgree', NEW t \in Tasks, TreeOK(tree'), UNCHANGED <<map, dcache, collided, misled>>,
         NEW s, Reach(t, s),
         \/ request[t] \in NameRequests /\ s \in {"open", "map"}
         \/ request[t] \in RenameRequests /\ s \in {"stat", "map"}
  PROVE  AInv'
<1>. DEFINE r == [request[t] EXCEPT !.step = s]
<1>1. request' = [request EXCEPT ![t] = r]
  BY DEF Reach
<1>2. \/ request[t] \in NameRequests /\ r \in NameRequests /\ r.misled = request[t].misled
         /\ r.at = request[t].at /\ r.path = request[t].path
      \/ request[t] \in RenameRequests /\ r \in RenameRequests /\ r.misled = request[t].misled
         /\ r.at = request[t].at /\ r.path = request[t].path
         /\ r.toAt = request[t].toAt /\ r.toPath = request[t].toPath
  <2>1. CASE request[t] \in NameRequests /\ s \in {"open", "map"}
    BY <2>1 DEF NameRequests
  <2>2. CASE request[t] \in RenameRequests /\ s \in {"stat", "map"}
    BY <2>2 DEF RenameRequests
  <2>. QED
    BY <2>1, <2>2
<1>3. request[t].op # "idle"
  BY DEF NameRequests, RenameRequests
<1>. HIDE DEF r
<1>4. r \in Requests /\ RightRequest(r)
  BY <1>2, <1>3, GoesOn
<1>. QED
  BY <1>1, <1>4, Frame

LEMMA UnlearnStep ==
  ASSUME AInv, MapsAgree', TreeOK(tree'), UNCHANGED <<map, collided, misled>>, NEW p \in Seq(Names), Unlearn(p),
         \/ UNCHANGED request
         \/ \E t \in Tasks : request' = [request EXCEPT ![t] = Idle]
  PROVE  AInv'
<1>1. /\ MapOK(map) /\ KernelOK(dcache) /\ request \in [Tasks -> Requests]
      /\ collided \subseteq Inodes /\ misled \subseteq Inodes
  BY TypeParts DEF AInv
<1>2. KernelOK(dcache')
  BY <1>1, UnlearnTypes
<1>3. Idle \in Requests /\ RightRequest(Idle)
  BY DEF Requests, RightRequest, Idle, NameRequests, RenameRequests
<1>4. request' \in [Tasks -> Requests] /\ RequestsRight'
  BY <1>1, <1>3 DEF AInv, RequestsRight
<1>5. NamesKnown'
  <2>1. \A q \in DOMAIN dcache' : q \in DOMAIN dcache /\ dcache'[q] = dcache[q]
    BY DEF Unlearn, Restrict
  <2>. QED
    BY <2>1 DEF AInv, NamesKnown, InDoubt
<1>. QED
  BY <1>1, <1>2, <1>4, <1>5, TypePartsAfter DEF AInv

LEMMA DiskStep ==
  ASSUME AInv, MapsAgree', NEW t \in Tasks,
         \/ LookupDisk(t) \/ ReaddirDisk(t) \/ CreateDisk(t) \/ CreateOpen(t)
         \/ MkdirDisk(t) \/ UnlinkDisk(t) \/ RmdirDisk(t) \/ RenameDisk(t) \/ RenameStat(t)
  PROVE  AInv'
<1>. DEFINE r == request[t]
<1>1. TreeOK(tree) /\ request \in [Tasks -> Requests] /\ r \in Requests
  BY TypeParts DEF AInv
<1>2. ASSUME Fail(t) PROVE AInv'
  BY <1>1, <1>2, Ends DEF Fail
<1>3. CASE LookupDisk(t)
  <2>1. r \in NameRequests /\ r.op = "lookup"
    BY <1>1, <1>3, RequestKinds DEF LookupDisk
  <2>2. CASE r.path \in DOMAIN tree
    <3>. DEFINE n == [[r EXCEPT !.step = "map"] EXCEPT !.kind = tree[r.path]]
    <3>1. /\ request' = [request EXCEPT ![t] = n]
          /\ UNCHANGED <<tree, map, dcache, collided, misled>>
      <4>1. request' = [request EXCEPT ![t].step = "map", ![t].kind = tree[request[t].path]]
            /\ UNCHANGED <<tree, map, dcache, collided, misled>>
        BY <1>3, <2>2 DEF LookupDisk
      <4>. QED
        BY <1>1, <4>1
    <3>2. tree[r.path] \in Kinds
      BY <1>1, <2>2 DEF TreeOK
    <3>3. n \in NameRequests /\ n.misled = r.misled /\ n.at = r.at /\ n.path = r.path
      BY <2>1, <3>2 DEF NameRequests
    <3>. HIDE DEF n
    <3>4. n \in Requests /\ RightRequest(n)
      BY <2>1, <3>3, GoesOn
    <3>. QED
      BY <1>1, <3>1, <3>4, Frame
  <2>3. CASE r.path \notin DOMAIN tree
    <3>1. /\ request' = [request EXCEPT ![t] = Idle] /\ Unlearn(r.at)
          /\ UNCHANGED <<tree, map, collided, misled>>
      BY <1>3, <2>3 DEF LookupDisk
    <3>2. r.at \in Seq(Names)
      BY <2>1 DEF NameRequests
    <3>. QED
      BY <1>1, <3>1, <3>2, UnlearnStep
  <2>. QED
    BY <2>2, <2>3
<1>4. CASE ReaddirDisk(t)
  <2>1. r \in ListRequests /\ r.op = "readdir"
    BY <1>1, <1>4, RequestKinds DEF ReaddirDisk
  <2>2. CASE IsDir(r.path)
    <3>1. PICK S \in SUBSET Children(r.path) :
             request' = [request EXCEPT ![t].step = "map", ![t].entries = {<<p, tree[p]>> : p \in S}]
      BY <1>4, <2>2 DEF ReaddirDisk
    <3>. DEFINE e == {<<p, tree[p]>> : p \in S}
                n == [[r EXCEPT !.step = "map"] EXCEPT !.entries = e]
    <3>2. request' = [request EXCEPT ![t] = n]
      BY <1>1, <3>1
    <3>3. \A p \in S : p \in Seq(Names) /\ tree[p] \in Kinds
      BY <1>1 DEF Children, TreeOK
    <3>4. e \in SUBSET (Seq(Names) \X Kinds)
      BY <3>3
    <3>. HIDE DEF e
    <3>5. n \in ListRequests
      BY <2>1, <3>4 DEF ListRequests
    <3>. HIDE DEF n
    <3>6. n \in Requests /\ RightRequest(n)
      BY <2>1, <3>5, GoesOn
    <3>7. UNCHANGED <<tree, map, dcache, collided, misled>>
      BY <1>4, <2>2 DEF ReaddirDisk
    <3>. QED
      BY <1>1, <3>2, <3>6, <3>7, Frame
  <2>3. CASE ~IsDir(r.path)
    BY <1>2, <1>4, <2>3 DEF ReaddirDisk
  <2>. QED
    BY <2>2, <2>3
<1>5. CASE CreateDisk(t) \/ UnlinkDisk(t) \/ RmdirDisk(t)
  <2>1. r \in NameRequests
    BY <1>1, <1>5, RequestKinds DEF CreateDisk, UnlinkDisk, RmdirDisk
  <2>2. r.path \in Seq(Names)
    BY <2>1 DEF NameRequests
  <2>3. CASE Fail(t)
    BY <1>2, <2>3
  <2>4. CASE ~Fail(t)
    <3>1. /\ UNCHANGED <<map, dcache, collided, misled>>
          /\ Reach(t, "open") \/ Reach(t, "map")
          /\ Put(r.path, "file") \/ Delete(r.path)
      BY <1>5, <2>4 DEF CreateDisk, UnlinkDisk, RmdirDisk
    <3>2. TreeOK(tree')
      BY <1>1, <2>2, <3>1, PutTree, DeleteTree DEF Kinds
    <3>. QED
      BY <2>1, <3>1, <3>2, Reaches
  <2>. QED
    BY <2>3, <2>4
<1>6. CASE CreateOpen(t)
  <2>1. r \in NameRequests
    BY <1>1, <1>6, RequestKinds DEF CreateOpen
  <2>2. CASE IsFile(r.path)
    <3>1. Reach(t, "map") /\ UNCHANGED <<tree, map, dcache, collided, misled>>
      BY <1>6, <2>2 DEF CreateOpen
    <3>. QED
      BY <1>1, <2>1, <3>1, Reaches
  <2>. QED
    BY <1>2, <1>6, <2>2 DEF CreateOpen
<1>7. CASE MkdirDisk(t)
  <2>1. r \in NameRequests
    BY <1>1, <1>7, RequestKinds DEF MkdirDisk
  <2>2. CASE IsDir(Parent(r.path)) /\ r.path \notin DOMAIN tree
    <3>. DEFINE n == [[r EXCEPT !.step = "map"] EXCEPT !.kind = "dir"]
    <3>1. /\ request' = [request EXCEPT ![t] = n]
          /\ Put(r.path, "dir") /\ UNCHANGED <<map, dcache, collided, misled>>
      <4>1. /\ request' = [request EXCEPT ![t].step = "map", ![t].kind = "dir"]
            /\ Put(r.path, "dir") /\ UNCHANGED <<map, dcache, collided, misled>>
        BY <1>7, <2>2 DEF MkdirDisk
      <4>. QED
        BY <1>1, <4>1
    <3>2. n \in NameRequests /\ n.misled = r.misled /\ n.at = r.at /\ n.path = r.path /\ r.path \in Seq(Names)
          /\ r.op # "idle"
      BY <2>1 DEF NameRequests, Kinds
    <3>. HIDE DEF n
    <3>3. n \in Requests /\ RightRequest(n)
      BY <2>1, <3>2, GoesOn
    <3>4. TreeOK(tree')
      BY <1>1, <3>1, <3>2, PutTree DEF Kinds
    <3>. QED
      BY <3>1, <3>3, <3>4, Frame
  <2>. QED
    BY <1>2, <1>7, <2>2 DEF MkdirDisk
<1>8. CASE RenameDisk(t)
  <2>1. r \in RenameRequests
    BY <1>1, <1>8, RequestKinds DEF RenameDisk
  <2>2. CASE CanRename(r.path, r.toPath)
    <3>1. /\ MoveTree(r.path, r.toPath) /\ Reach(t, "stat")
          /\ UNCHANGED <<map, dcache, collided, misled>>
      BY <1>8, <2>2 DEF RenameDisk
    <3>2. r.path \in Seq(Names) /\ r.toPath \in Seq(Names)
      BY <2>1 DEF RenameRequests
    <3>3. TreeOK(tree')
      BY <1>1, <3>1, <3>2, MoveTreeTypes
    <3>. QED
      BY <2>1, <3>1, <3>3, Reaches
  <2>. QED
    BY <1>2, <1>8, <2>2 DEF RenameDisk
<1>9. CASE RenameStat(t)
  <2>1. r \in RenameRequests
    BY <1>1, <1>9, RequestKinds DEF RenameStat
  <2>2. CASE r.toPath \in DOMAIN tree
    <3>1. Reach(t, "map") /\ UNCHANGED <<tree, map, dcache, collided, misled>>
      BY <1>9, <2>2 DEF RenameStat
    <3>. QED
      BY <1>1, <2>1, <3>1, Reaches
  <2>. QED
    BY <1>2, <1>9, <2>2 DEF RenameStat
<1>. QED
  BY <1>3, <1>4, <1>5, <1>6, <1>7, <1>8, <1>9

(***************************************************************************)
(* The answers, which change the map and the kernel's names.               *)
(***************************************************************************)
LEMMA InsertKeeps ==
  ASSUME NEW m, NEW path, NEW kind
  PROVE  \A p \in DOMAIN m.inode : /\ p \in DOMAIN GetOrInsert(m, path, kind).inode
                                   /\ GetOrInsert(m, path, kind).inode[p] = m.inode[p]
<1>1. CASE path \in DOMAIN m.inode
  BY <1>1 DEF GetOrInsert
<1>2. CASE path \notin DOMAIN m.inode
  BY <1>2 DEF GetOrInsert
<1>. QED
  BY <1>1, <1>2

LEMMA RegisterTypes ==
  ASSUME MapOK(map), collided \subseteq Inodes, NEW path \in Seq(Names), NEW kind \in Kinds,
         Register(path, kind)
  PROVE  /\ MapOK(map') /\ collided' \subseteq Inodes /\ collided \subseteq collided'
         /\ path \in DOMAIN map'.inode /\ map'.inode[path] \in Inodes
         /\ \A p \in DOMAIN map.inode : p \in DOMAIN map'.inode /\ map'.inode[p] = map.inode[p]
<1>1. /\ map' = GetOrInsert(map, path, kind)
      /\ collided' = collided \cup
           (IF Collides(map, path, kind) THEN {ComputeInode(path, kind)} ELSE {})
  BY DEF Register
<1>2. /\ MapOK(GetOrInsert(map, path, kind)) /\ path \in DOMAIN GetOrInsert(map, path, kind).inode
      /\ ComputeInode(path, kind) \in Inodes
  BY InsertTypes
<1>3. collided' \subseteq Inodes /\ collided \subseteq collided'
  BY <1>1, <1>2
<1>4. MapOK(map') /\ path \in DOMAIN map'.inode
  BY <1>1, <1>2
<1>5. map'.inode[path] \in Inodes
  BY <1>4 DEF MapOK
<1>6. \A p \in DOMAIN map.inode : p \in DOMAIN map'.inode /\ map'.inode[p] = map.inode[p]
  BY <1>1, InsertKeeps
<1>. QED
  BY <1>3, <1>4, <1>5, <1>6

LEMMA Ended ==
  ASSUME AInv, NEW t \in Tasks, request' = [request EXCEPT ![t] = Idle]
  PROVE  request' \in [Tasks -> Requests] /\ RequestsRight'
<1>1. Idle \in Requests /\ RightRequest(Idle)
  BY DEF Requests, RightRequest, Idle, NameRequests, RenameRequests
<1>2. request \in [Tasks -> Requests]
  BY TypeParts DEF AInv
<1>. QED
  BY <1>1, <1>2 DEF AInv, RequestsRight

LEMMA EntryStep == ASSUME AInv, MapsAgree', NEW t \in Tasks, AnswerEntry(t) PROVE AInv'
<1>. DEFINE r == request[t]
            i == map'.inode[r.path]
<1>1. /\ TreeOK(tree) /\ MapOK(map) /\ KernelOK(dcache) /\ request \in [Tasks -> Requests]
      /\ collided \subseteq Inodes /\ misled \subseteq Inodes /\ r \in Requests
  BY TypeParts DEF AInv
<1>2. /\ r \in NameRequests /\ Register(r.path, r.kind) /\ Learn(r.at, i)
      /\ misled' = misled \cup (IF r.misled THEN {i} ELSE {})
      /\ request' = [request EXCEPT ![t] = Idle] /\ UNCHANGED tree
  BY <1>1, RequestKinds DEF AnswerEntry, Mislead
<1>3. r.at \in Seq(Names) /\ r.path \in Seq(Names) /\ r.kind \in Kinds
  BY <1>2 DEF NameRequests
<1>4. /\ MapOK(map') /\ collided' \subseteq Inodes /\ collided \subseteq collided'
      /\ r.path \in DOMAIN map'.inode /\ i \in Inodes
      /\ \A p \in DOMAIN map.inode : p \in DOMAIN map'.inode /\ map'.inode[p] = map.inode[p]
  BY <1>1, <1>2, <1>3, RegisterTypes
<1>5. KernelOK(dcache')
  BY <1>1, <1>2, <1>3, <1>4, LearnTypes
<1>6. misled' \subseteq Inodes /\ misled \subseteq misled' /\ (r.misled => i \in misled')
  BY <1>1, <1>2, <1>4
<1>7. request' \in [Tasks -> Requests] /\ RequestsRight'
  BY <1>2, Ended
<1>8. ~r.misled => r.path = r.at
  BY <1>2 DEF AInv, RequestsRight, RightRequest
<1>9. NamesKnown'
  <2>1. ASSUME NEW q \in DOMAIN dcache'
        PROVE  (q = r.at /\ dcache'[q] = i) \/ (q \in DOMAIN dcache /\ dcache'[q] = dcache[q])
    BY <1>2 DEF Learn
  <2>. HIDE DEF i
  <2>2. ASSUME NEW q \in DOMAIN dcache'
        PROVE  \/ dcache'[q] \in collided' \cup misled'
               \/ q \in DOMAIN map'.inode /\ map'.inode[q] = dcache'[q]
    <3>1. CASE q = r.at /\ dcache'[q] = i
      BY <1>4, <1>6, <1>8, <3>1 DEF i
    <3>2. CASE q \in DOMAIN dcache /\ dcache'[q] = dcache[q]
      <4>1. dcache[q] \in collided \cup misled \/ (q \in DOMAIN map.inode /\ map.inode[q] = dcache[q])
        BY <3>2 DEF AInv, NamesKnown, InDoubt
      <4>. QED
        BY <1>4, <1>6, <3>2, <4>1
    <3>. QED
      BY <2>1, <3>1, <3>2
  <2>. QED
    BY <2>2 DEF NamesKnown, InDoubt
<1>10. TypeOK'
  BY <1>1, <1>2, <1>4, <1>5, <1>6, <1>7, TypePartsAfter DEF TreeOK
<1>. QED
  BY <1>7, <1>9, <1>10 DEF AInv

LEMMA ListStep == ASSUME AInv, MapsAgree', NEW t \in Tasks, AnswerReaddir(t) PROVE AInv'
<1>. DEFINE r == request[t]
<1>1. /\ TreeOK(tree) /\ MapOK(map) /\ KernelOK(dcache) /\ request \in [Tasks -> Requests]
      /\ collided \subseteq Inodes /\ misled \subseteq Inodes /\ r \in Requests
  BY TypeParts DEF AInv
<1>2. r \in ListRequests /\ UNCHANGED <<tree, dcache, changes, misled>>
  BY <1>1, RequestKinds DEF AnswerReaddir
<1>3. TreeOK(tree') /\ KernelOK(dcache')
  BY <1>1, <1>2
<1>4. CASE r.entries = {} /\ request' = [request EXCEPT ![t] = Idle] /\ UNCHANGED <<map, collided>>
  BY <1>2, <1>3, <1>4, Ends
<1>5. ASSUME NEW e \in r.entries, Register(e[1], e[2]),
             request' = [request EXCEPT ![t].entries = @ \ {e}]
      PROVE  AInv'
  <2>1. r.entries \in SUBSET (Seq(Names) \X Kinds)
    BY <1>2 DEF ListRequests
  <2>2. e[1] \in Seq(Names) /\ e[2] \in Kinds
    BY <2>1
  <2>3. /\ MapOK(map') /\ collided' \subseteq Inodes /\ collided \subseteq collided'
        /\ \A p \in DOMAIN map.inode : p \in DOMAIN map'.inode /\ map'.inode[p] = map.inode[p]
    BY <1>1, <1>5, <2>2, RegisterTypes
  <2>. DEFINE n == [r EXCEPT !.entries = @ \ {e}]
  <2>4. request' = [request EXCEPT ![t] = n]
    BY <1>1, <1>5
  <2>5. n \in ListRequests
    BY <1>2, <2>1 DEF ListRequests
  <2>6. r.op # "idle"
    BY <1>2 DEF ListRequests
  <2>. HIDE DEF n
  <2>7. n \in Requests /\ RightRequest(n)
    BY <1>2, <2>5, <2>6, GoesOn
  <2>8. request' \in [Tasks -> Requests] /\ RequestsRight'
    BY <1>1, <2>4, <2>7 DEF AInv, RequestsRight
  <2>9. NamesKnown'
    BY <1>2, <2>3 DEF AInv, NamesKnown, InDoubt
  <2>10. TypeOK'
    BY <1>1, <1>2, <1>3, <2>3, <2>8, TypePartsAfter
  <2>. QED
    BY <2>8, <2>9, <2>10 DEF AInv
<1>. QED
  BY <1>4, <1>5 DEF AnswerReaddir

(* A sure number is removed with its name.                                 *)
LEMMA RemoveStep == ASSUME AInv, MapsAgree', NEW t \in Tasks, AnswerRemove(t) PROVE AInv'
<1>. DEFINE r == request[t]
<1>1. /\ TreeOK(tree) /\ MapOK(map) /\ KernelOK(dcache) /\ request \in [Tasks -> Requests]
      /\ collided \subseteq Inodes /\ misled \subseteq Inodes /\ r \in Requests
  BY TypeParts DEF AInv
<1>2. /\ r \in NameRequests /\ map' = RemovePath(map, r.path) /\ Unlearn(r.at)
      /\ misled' = misled \cup (IF r.misled THEN {map.inode[p] : p \in DOMAIN map.inode \cap {r.path}} ELSE {})
      /\ request' = [request EXCEPT ![t] = Idle] /\ UNCHANGED <<tree, collided>>
  BY <1>1, RequestKinds DEF AnswerRemove, Mislead
<1>3. r.at \in Seq(Names) /\ r.path \in Seq(Names)
  BY <1>2 DEF NameRequests
<1>4. MapOK(map') /\ KernelOK(dcache')
  BY <1>1, <1>2, <1>3, RemoveTypes, UnlearnTypes
<1>5. misled' \subseteq Inodes /\ misled \subseteq misled'
  BY <1>1, <1>2 DEF MapOK
<1>6. request' \in [Tasks -> Requests] /\ RequestsRight'
  BY <1>2, Ended
<1>7. \A q \in DOMAIN dcache' : q \in DOMAIN dcache /\ dcache'[q] = dcache[q] /\ ~IsPrefix(r.at, q)
  BY <1>2 DEF Unlearn, Restrict, Known
<1>8. \A q \in DOMAIN map.inode : q # r.path => q \in DOMAIN map'.inode /\ map'.inode[q] = map.inode[q]
  BY <1>2 DEF RemovePath, Restrict
<1>9. NamesKnown'
  <2>1. ASSUME NEW q \in DOMAIN dcache'
        PROVE  \/ dcache'[q] \in collided' \cup misled'
               \/ q \in DOMAIN map'.inode /\ map'.inode[q] = dcache'[q]
    <3>1. dcache[q] \in collided \cup misled \/ (q \in DOMAIN map.inode /\ map.inode[q] = dcache[q])
      BY <1>7 DEF AInv, NamesKnown, InDoubt
    <3>2. ASSUME q = r.path, q \in DOMAIN map.inode, map.inode[q] = dcache[q]
          PROVE  dcache'[q] \in misled'
      <4>1. r.misled
        <5>1. ~r.misled => r.path = r.at
          BY <1>2 DEF AInv, RequestsRight, RightRequest
        <5>2. q # r.at
          BY <1>3, <1>7, MovedRoot
        <5>. QED
          BY <3>2, <5>1, <5>2
      <4>. QED
        BY <1>2, <1>7, <3>2, <4>1
    <3>. QED
      BY <1>2, <1>5, <1>7, <1>8, <3>1, <3>2
  <2>. QED
    BY <2>1 DEF NamesKnown, InDoubt
<1>10. TypeOK'
  BY <1>1, <1>2, <1>4, <1>5, <1>6, TypePartsAfter DEF TreeOK
<1>. QED
  BY <1>6, <1>9, <1>10 DEF AInv

(* Requests under way go with a directory that is renamed above them.      *)
LEMMA OvertakeTypes ==
  ASSUME NEW r \in Requests, RightRequest(r), NEW from \in Seq(Names), NEW to \in Seq(Names)
  PROVE  Overtake(r, from, to) \in Requests /\ RightRequest(Overtake(r, from, to))
<1>. DEFINE n == Overtake(r, from, to)
<1>1. CASE r \in NameRequests /\ IsPrefix(from, r.at)
  <2>1. r.op \notin {"idle", "rename", "readdir"} /\ r.at \in Seq(Names)
    BY <1>1 DEF NameRequests
  <2>2. n = [[r EXCEPT !.misled = TRUE] EXCEPT !.at = Moved(r.at, from, to)]
    <3>1. n = [r EXCEPT !.misled = TRUE, !.at = Moved(@, from, to)]
      BY <1>1, <2>1 DEF Overtake
    <3>. QED
      BY <1>1, <3>1 DEF NameRequests
  <2>3. Moved(r.at, from, to) \in Seq(Names)
    BY <1>1, <2>1, MovedBack
  <2>. DEFINE a == Moved(r.at, from, to)
  <2>. HIDE DEF n, a
  <2>4. n \in NameRequests /\ n.misled
    BY <1>1, <2>2, <2>3 DEF NameRequests, a
  <2>5. n \notin RenameRequests
    BY <2>4 DEF NameRequests, RenameRequests
  <2>. QED
    BY <2>4, <2>5 DEF n, Requests, RightRequest
<1>2. CASE r \in ListRequests /\ IsPrefix(from, r.at)
  <2>1. r.op = "readdir" /\ r.at \in Seq(Names)
    BY <1>2 DEF ListRequests
  <2>2. n = [r EXCEPT !.at = Moved(r.at, from, to)]
    BY <1>2, <2>1 DEF Overtake
  <2>3. Moved(r.at, from, to) \in Seq(Names)
    BY <1>2, <2>1, MovedBack
  <2>. DEFINE a == Moved(r.at, from, to)
  <2>. HIDE DEF n, a
  <2>4. n \in ListRequests
    BY <1>2, <2>2, <2>3 DEF ListRequests, a
  <2>5. n \notin RenameRequests /\ n \notin NameRequests
    BY <2>4 DEF NameRequests, RenameRequests, ListRequests
  <2>. QED
    BY <2>4, <2>5 DEF n, Requests, RightRequest
<1>3. CASE r \in RenameRequests /\ (IsPrefix(from, r.at) \/ IsPrefix(from, r.toAt))
  <2>1. r.op = "rename" /\ r.at \in Seq(Names) /\ r.toAt \in Seq(Names)
    BY <1>3 DEF RenameRequests
  <2>. DEFINE a == IF IsPrefix(from, r.at) THEN Moved(r.at, from, to) ELSE r.at
              b == IF IsPrefix(from, r.toAt) THEN Moved(r.toAt, from, to) ELSE r.toAt
  <2>2. a \in Seq(Names) /\ b \in Seq(Names)
    BY <2>1, MovedBack
  <2>3. n = [[[r EXCEPT !.misled = TRUE] EXCEPT !.at = a] EXCEPT !.toAt = b]
    <3>1. n = [r EXCEPT !.misled = TRUE,
                 !.at = IF IsPrefix(from, @) THEN Moved(@, from, to) ELSE @,
                 !.toAt = IF IsPrefix(from, @) THEN Moved(@, from, to) ELSE @]
      BY <1>3, <2>1 DEF Overtake
    <3>. QED
      BY <1>3, <3>1 DEF RenameRequests
  <2>. HIDE DEF n, a, b
  <2>4. n \in RenameRequests /\ n.misled
    BY <1>3, <2>2, <2>3 DEF RenameRequests
  <2>5. n \notin NameRequests
    BY <2>4 DEF NameRequests, RenameRequests
  <2>. QED
    BY <2>4, <2>5 DEF n, Requests, RightRequest
<1>4. CASE n = r
  BY <1>4
<1>5. r = Idle => n = r
  BY DEF Overtake, Idle
<1>6. r \in NameRequests /\ ~IsPrefix(from, r.at) => n = r
  BY DEF Overtake, NameRequests
<1>7. r \in ListRequests /\ ~IsPrefix(from, r.at) => n = r
  BY DEF Overtake, ListRequests
<1>8. r \in RenameRequests /\ ~IsPrefix(from, r.at) /\ ~IsPrefix(from, r.toAt) => n = r
  BY DEF Overtake, RenameRequests
<1>. QED
  BY <1>1, <1>2, <1>3, <1>4, <1>5, <1>6, <1>7, <1>8 DEF Requests

LEMMA RenameKeeps ==
  ASSUME NEW m, MapOK(m), NEW from \in Seq(Names), NEW to \in Seq(Names),
         NEW r \in RenameSubtree(m, from, to), NEW p \in DOMAIN m.inode
  PROVE  /\ IsPrefix(from, p) =>
              Moved(p, from, to) \in DOMAIN r.inode /\ r.inode[Moved(p, from, to)] = m.inode[p]
         /\ ~IsPrefix(from, p) /\ ~IsPrefix(to, p) => p \in DOMAIN r.inode /\ r.inode[p] = m.inode[p]
<1>. DEFINE moving == {x \in DOMAIN m.inode : IsPrefix(from, x)}
            source(q) == {x \in moving : Moved(x, from, to) = q}
            targets == {Moved(x, from, to) : x \in moving}
            holders(i) == {x \in moving : m.inode[x] = i}
            numbers == {m.inode[x] : x \in moving}
<1>1. PICK last \in {f \in [numbers -> moving] : \A i \in numbers : f[i] \in holders(i)} :
        r = [ inode |-> [q \in (DOMAIN m.inode \ moving) \cup targets |->
                           IF q \in targets
                           THEN m.inode[CHOOSE x \in source(q) : TRUE] ELSE m.inode[q]],
              path  |-> [i \in DOMAIN m.path \cup numbers |->
                           IF i \in numbers THEN Moved(last[i], from, to) ELSE m.path[i]] ]
  BY DEF RenameSubtree
<1>2. /\ DOMAIN r.inode = (DOMAIN m.inode \ moving) \cup targets
      /\ \A q \in targets : r.inode[q] = m.inode[CHOOSE x \in source(q) : TRUE]
      /\ \A q \in (DOMAIN m.inode \ moving) \ targets : r.inode[q] = m.inode[q]
  BY <1>1
<1>3. \A x \in moving : /\ x \in Seq(Names) /\ Moved(Moved(x, from, to), to, from) = x
                        /\ IsPrefix(to, Moved(x, from, to))
  BY MovedBack DEF MapOK
<1>4. CASE IsPrefix(from, p)
  <2>1. p \in moving /\ Moved(p, from, to) \in targets
    BY <1>4
  <2>2. p \in source(Moved(p, from, to)) /\ \A x \in source(Moved(p, from, to)) : x = p
    BY <1>3, <2>1
  <2>3. (CHOOSE x \in source(Moved(p, from, to)) : TRUE) = p
    BY <2>2
  <2>. QED
    BY <1>2, <1>4, <2>1, <2>3
<1>5. CASE ~IsPrefix(from, p) /\ ~IsPrefix(to, p)
  <2>1. p \notin moving /\ p \notin targets
    BY <1>3, <1>5
  <2>. QED
    BY <1>2, <1>5, <2>1
<1>. QED
  BY <1>4, <1>5

(* A sure number goes with its name.                                       *)
LEMMA RenameStep == ASSUME AInv, MapsAgree', NEW t \in Tasks, AnswerRename(t) PROVE AInv'
<1>. DEFINE r == request[t]
<1>1. /\ TreeOK(tree) /\ MapOK(map) /\ KernelOK(dcache) /\ request \in [Tasks -> Requests]
      /\ collided \subseteq Inodes /\ misled \subseteq Inodes /\ r \in Requests
  BY TypeParts DEF AInv
<1>2. /\ r \in RenameRequests /\ map' \in RenameSubtree(map, r.path, r.toPath)
      /\ MoveNames(r.at, r.toAt) /\ UNCHANGED <<tree, collided>>
      /\ request' = [u \in Tasks |-> IF u = t THEN Idle ELSE Overtake(request[u], r.at, r.toAt)]
      /\ misled' = misled \cup
           (IF r.misled
            THEN {dcache[p] : p \in Known(r.at)} \cup
                 {map.inode[p] : p \in {q \in DOMAIN map.inode :
                                          IsPrefix(r.path, q) \/ IsPrefix(r.toPath, q)}}
            ELSE {})
  BY <1>1, RequestKinds DEF AnswerRename, Mislead
<1>3. r.at \in Seq(Names) /\ r.toAt \in Seq(Names) /\ r.path \in Seq(Names) /\ r.toPath \in Seq(Names)
  BY <1>2 DEF RenameRequests
<1>4. ~r.misled => r.path = r.at /\ r.toPath = r.toAt
  BY <1>2 DEF AInv, RequestsRight, RightRequest
<1>5. MapOK(map')
  BY <1>1, <1>2, <1>3, RenameTypes
<1>6. KernelOK(dcache')
  BY <1>1, <1>2, <1>3, MoveTypes
<1>7. /\ misled \subseteq misled'
      /\ r.misled => /\ \A p \in Known(r.at) : dcache[p] \in misled'
                     /\ \A p \in DOMAIN map.inode :
                          IsPrefix(r.path, p) \/ IsPrefix(r.toPath, p) => map.inode[p] \in misled'
  BY <1>2
<1>8. misled' \subseteq Inodes
  BY <1>1, <1>2 DEF MapOK, KernelOK, Known
<1>9. request' \in [Tasks -> Requests] /\ RequestsRight'
  <2>1. Idle \in Requests /\ RightRequest(Idle)
    BY DEF Requests, RightRequest, Idle, NameRequests, RenameRequests
  <2>2. ASSUME NEW u \in Tasks PROVE request'[u] \in Requests /\ RightRequest(request'[u])
    <3>1. request[u] \in Requests /\ RightRequest(request[u])
      BY <1>1 DEF AInv, RequestsRight
    <3>2. /\ Overtake(request[u], r.at, r.toAt) \in Requests
          /\ RightRequest(Overtake(request[u], r.at, r.toAt))
      BY <1>3, <3>1, OvertakeTypes
    <3>3. request'[u] = IF u = t THEN Idle ELSE Overtake(request[u], r.at, r.toAt)
      BY <1>2
    <3>. QED
      BY <2>1, <3>2, <3>3
  <2>3. request' = [u \in Tasks |-> request'[u]]
    BY <1>2
  <2>. QED
    BY <2>2, <2>3 DEF RequestsRight
<1>10. NamesKnown'
  <2>1. ASSUME NEW p \in DOMAIN dcache
        PROVE  dcache[p] \in collided \cup misled \/ (p \in DOMAIN map.inode /\ map.inode[p] = dcache[p])
    BY DEF AInv, NamesKnown, InDoubt
  <2>2. ASSUME NEW q \in DOMAIN dcache'
        PROVE  \/ dcache'[q] \in collided' \cup misled'
               \/ q \in DOMAIN map'.inode /\ map'.inode[q] = dcache'[q]
    <3>1. CASE /\ q \in DOMAIN dcache /\ ~IsPrefix(r.at, q) /\ ~IsPrefix(r.toAt, q)
               /\ dcache'[q] = dcache[q]
      <4>1. ASSUME q \in DOMAIN map.inode, map.inode[q] = dcache[q], dcache[q] \notin misled'
            PROVE  q \in DOMAIN map'.inode /\ map'.inode[q] = dcache[q]
        <5>1. ~IsPrefix(r.path, q) /\ ~IsPrefix(r.toPath, q)
          BY <1>4, <1>7, <3>1, <4>1
        <5>. QED
          BY <1>1, <1>2, <1>3, <4>1, <5>1, RenameKeeps
      <4>. QED
        BY <1>2, <1>7, <2>1, <3>1, <4>1
    <3>2. CASE \E p \in Known(r.at) : q = Moved(p, r.at, r.toAt) /\ dcache'[q] = dcache[p]
      <4>1. PICK p \in Known(r.at) : q = Moved(p, r.at, r.toAt) /\ dcache'[q] = dcache[p]
        BY <3>2
      <4>2. p \in DOMAIN dcache /\ IsPrefix(r.at, p)
        BY DEF Known
      <4>3. ASSUME ~r.misled, p \in DOMAIN map.inode, map.inode[p] = dcache[p]
            PROVE  q \in DOMAIN map'.inode /\ map'.inode[q] = dcache'[q]
        BY <1>1, <1>2, <1>3, <1>4, <4>1, <4>2, <4>3, RenameKeeps
      <4>. QED
        BY <1>2, <1>7, <2>1, <4>1, <4>2, <4>3
    <3>. QED
      BY <1>1, <1>2, <1>3, <3>1, <3>2, MoveIs
  <2>. QED
    BY <2>2 DEF NamesKnown, InDoubt
<1>11. TypeOK'
  BY <1>1, <1>2, <1>5, <1>6, <1>8, <1>9, TypePartsAfter
<1>. QED
  BY <1>9, <1>10, <1>11 DEF AInv

LEMMA AdapterStep == AInv /\ [Next]_vars => AInv'
<1>. SUFFICES ASSUME AInv, [Next]_vars PROVE AInv'
  OBVIOUS
<1>1. MapsAgree'
  BY MapsStep DEF AInv
<1>2. /\ TreeOK(tree) /\ MapOK(map) /\ KernelOK(dcache) /\ request \in [Tasks -> Requests]
      /\ collided \subseteq Inodes /\ misled \subseteq Inodes
  BY TypeParts DEF AInv
<1>3. ASSUME TreeOK(tree'), UNCHANGED <<map, dcache, request, collided, misled>> PROVE AInv'
  <2>1. TypeOK'
    BY <1>2, <1>3, TypePartsAfter
  <2>2. NamesKnown' /\ RequestsRight'
    BY <1>3 DEF AInv, NamesKnown, InDoubt, RequestsRight
  <2>. QED
    BY <1>1, <2>1, <2>2 DEF AInv
<1>4. CASE UNCHANGED vars
  BY <1>2, <1>3, <1>4 DEF vars
<1>5. CASE Remote
  <2>1. UNCHANGED <<map, dcache, request, collided, misled>>
    BY <1>5 DEF Remote
  <2>2. CASE \E p \in Paths \ DOMAIN tree, k \in Kinds : IsDir(Parent(p)) /\ Put(p, k)
    BY <1>2, <1>3, <2>1, <2>2, PutTree, PathsAreNames
  <2>3. CASE \E p \in DOMAIN tree \ {<<>>} : Children(p) = {} /\ Delete(p)
    BY <1>2, <1>3, <2>1, <2>3, DeleteTree
  <2>. QED
    BY <1>5, <2>2, <2>3 DEF Remote
<1>6. ASSUME NEW p \in Paths, Forget(p) PROVE AInv'
  <2>1. UNCHANGED <<tree, map, request, collided, misled>> /\ Unlearn(p) /\ p \in Seq(Names)
    BY <1>6, PathsAreNames DEF Forget
  <2>. QED
    BY <1>1, <1>2, <2>1, UnlearnStep
<1>7. ASSUME NEW t \in Tasks, Arrive(t) PROVE AInv'
  BY <1>1, <1>7, ArriveStep
<1>8. ASSUME NEW t \in Tasks, Handle(t) PROVE AInv'
  BY <1>1, <1>8, DiskStep, EntryStep, ListStep, RemoveStep, RenameStep DEF Handle
<1>. QED
  BY <1>4, <1>5, <1>6, <1>7, <1>8 DEF Next

(* The tables, the kernel's names and the requests keep their types.       *)
THEOREM AdapterTypeCorrect == Spec => []TypeOK
<1>1. AInv => TypeOK
  BY DEF AInv
<1>. QED
  BY <1>1, AdapterInit, AdapterStep, PTL DEF Spec

(* A request by number reaches the name the kernel means by it, unless a   *)
(* collision was logged for the number or a request answered with it,      *)
(* moved or removed it that a rename had overtaken or that had gone        *)
(* through such a number (resolve_path).                                   *)
THEOREM NumbersLeadToNames == Spec => []NamesResolve
<1>1. AInv => NamesResolve
  BY DEF AInv, NamesKnown, MapsAgree, NamesResolve, InDoubt
<1>. QED
  BY <1>1, AdapterInit, AdapterStep, PTL DEF Spec
===============================================================================
