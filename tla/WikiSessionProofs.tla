--------------------------- MODULE WikiSessionProofs ---------------------------
(***************************************************************************)
(* Proofs about the wiki backend: for any set of pages, any number of      *)
(* changes, removals, failures and crashes.                                *)
(***************************************************************************)
EXTENDS WikiSession, TLAPS

(***************************************************************************)
(* Types.  Whatever names a revision names one the server has given.       *)
(***************************************************************************)
Pair == [id : Nat, rev : Nat]
PageType == [id : Nat, rev : Nat, body : SUBSET Changes]
FileType == (SUBSET Changes) \cup {NoFile}
Given(s) == s.rev \in 1..count.rev

StateType ==
  /\ remote \in [Pages -> PageType]
  /\ local \in [Pages -> FileType]
  /\ known \in [Pages -> Pair]
  /\ stored \in [Pages -> [snapshot : Pair, base : SUBSET Changes]]
  /\ mode \in {"down", "starting", "up"}
  /\ dirty \subseteq Pages /\ conflicted \subseteq Pages
  /\ count \in [edits : 0..MaxEdits, foreign : 0..MaxForeign, rev : Nat, removals : Nat,
                failures : Nat, crashes : Nat]
  /\ gone \subseteq Changes

RevisionsType ==
  \A p \in Pages : /\ remote[p] = Absent \/ Given(remote[p])
                   /\ known[p] = NoSnapshot \/ Given(known[p])
                   /\ stored[p].snapshot = NoSnapshot \/ Given(stored[p].snapshot)

AtNoPage == {"idle", "next"}
SyncRecord ==
  [ pc : {"idle", "next", "snapshot", "create", "get", "decide", "post", "meta", "base", "write"},
    batch : SUBSET Pages, todo : SUBSET Pages, conflicts : SUBSET Pages,
    page : Pages \cup {"none"}, mine : SUBSET Changes, snapshot : Pair, seen : PageType,
    act : {"none", "upload", "synced", "accept", "merge", "conflict"}, bytes : SUBSET Changes,
    allow : BOOLEAN, saved : Pair ]
SyncControl ==
  /\ sync.todo \subseteq sync.batch /\ sync.conflicts \subseteq sync.batch
  /\ sync.pc = "idle" => sync.batch = {}
  /\ sync.pc \notin AtNoPage => sync.page \in Pages /\ sync.page \in sync.todo
  /\ sync.pc = "get" => Given(sync.snapshot)
  /\ sync.pc \in {"decide", "post"} => Given(sync.seen)
  /\ sync.pc = "post" => sync.act \in {"upload", "conflict", "merge"}
  /\ sync.pc = "write" => sync.act \in {"accept", "merge"}
  /\ sync.pc \in {"meta", "base"} => sync.act # "none"
  /\ sync.pc \in {"meta", "base", "write"} => Given(sync.saved)
SyncType == sync \in SyncRecord /\ SyncControl

Item == [page : Pages, snapshot : Pair, body : SUBSET Changes]
Items(s) == s \subseteq Item /\ \A e \in s : Given(e.snapshot)
Listing(tree, todo) ==
  /\ DOMAIN tree \subseteq Pages /\ todo \subseteq DOMAIN tree
  /\ \A p \in DOMAIN tree : tree[p] \in PageType /\ Given(tree[p])
PollType ==
  /\ mode = "down" => poll.pc = "idle"
  /\ mode = "starting" => poll.pc \in {"init", "initMeta", "initBase"}
  /\ mode = "up" => poll.pc \in {"idle", "read", "apply", "meta", "base"}
  /\ poll.pc \in {"init", "initMeta", "initBase", "read"} => Listing(poll.tree, poll.todo)
  /\ poll.pc \in {"read", "apply", "meta", "base"} => Items(poll.batch)
  /\ poll.pc \in {"apply", "meta", "base"} => poll.free \subseteq Pages
  /\ poll.pc \in {"meta", "base"} =>
       /\ poll = [pc |-> poll.pc, batch |-> poll.batch, free |-> poll.free, now |-> poll.now]
       /\ poll.now \in poll.batch
  /\ poll.pc \in {"initMeta", "initBase"} =>
       /\ poll = [pc |-> poll.pc, tree |-> poll.tree, todo |-> poll.todo, now |-> poll.now]
       /\ Items({poll.now})
       /\ poll.now.page \in DOMAIN poll.tree /\ poll.now.page \notin poll.todo
       /\ poll.now.snapshot = Snapshot(poll.tree[poll.now.page])

Control ==
  mode # "up" => /\ sync.pc = "idle" /\ dirty = {} /\ conflicted = {}
                 /\ \A p \in Pages : known[p] = NoSnapshot

TInv == StateType /\ RevisionsType /\ SyncType /\ PollType /\ Control

(***************************************************************************)
(* Lemmas about the types.                                                 *)
(***************************************************************************)
LEMMA Numbers ==
  /\ MaxEdits \in Nat /\ MaxForeign \in Nat /\ MaxRemovals \in Nat /\ MaxFailures \in Nat
  /\ MaxCrashes \in Nat
BY WikiSessionAssumption

LEMMA ChangesType == Changes \subseteq Nat /\ 0 \notin Changes /\ Edits \subseteq Changes
BY Numbers DEF Changes, Edits

LEMMA NoneTypes == NoSnapshot \in Pair /\ Absent \in PageType /\ NoFile \in FileType
<1>1. NoFile \in FileType
  BY DEF FileType
<1>2. NoSnapshot \in Pair /\ Absent \in PageType
  BY DEF NoSnapshot, Absent, Pair, PageType
<1>. QED
  BY <1>1, <1>2

LEMMA SnapshotType == ASSUME NEW page \in PageType
                      PROVE  Snapshot(page) \in Pair /\ Snapshot(page).rev = page.rev
BY DEF Snapshot, Pair, PageType

LEMMA BetweenType ==
  ASSUME NEW pc \in AtNoPage, NEW batch \in SUBSET Pages, NEW todo \in SUBSET Pages,
         NEW conflicts \in SUBSET Pages
  PROVE  /\ Between(pc, batch, todo, conflicts) \in SyncRecord
         /\ Between(pc, batch, todo, conflicts).pc = pc
         /\ Between(pc, batch, todo, conflicts).batch = batch
         /\ Between(pc, batch, todo, conflicts).todo = todo
         /\ Between(pc, batch, todo, conflicts).conflicts = conflicts
BY NoneTypes DEF Between, SyncRecord, AtNoPage

LEMMA NoSyncType ==
  /\ NoSync \in SyncRecord /\ NoSync.pc = "idle" /\ NoSync.batch = {} /\ NoSync.todo = {}
  /\ NoSync.conflicts = {}
BY BetweenType DEF NoSync, AtNoPage

LEMMA SnapshotForType ==
  ASSUME TInv, NEW p \in Pages
  PROVE  SnapshotFor(p) \in Pair /\ (SnapshotFor(p) = NoSnapshot \/ Given(SnapshotFor(p)))
BY DEF TInv, StateType, RevisionsType, SnapshotFor

\* What was given stays given: the revisions only grow.
LEMMA GivenStays == ASSUME TInv, count'.rev \in Nat, count.rev \leq count'.rev
                    PROVE  \A s : Given(s) => Given(s)'
BY DEF TInv, StateType, Given

CountType == [edits : 0..MaxEdits, foreign : 0..MaxForeign, rev : Nat, removals : Nat,
              failures : Nat, crashes : Nat]
Later == count' \in CountType /\ count.rev \leq count'.rev

LEMMA CountTypes ==
  ASSUME TInv
  PROVE  /\ Count("edits") /\ count.edits < MaxEdits => Later /\ count'.edits = count.edits + 1
         /\ Count("removals") => Later /\ count'.rev = count.rev
         /\ Count("failures") => Later /\ count'.rev = count.rev
         /\ Count("crashes") => Later /\ count'.rev = count.rev
         /\ Count("rev") => Later /\ count'.rev = NewRevision
<1>. count \in CountType
  BY DEF TInv, StateType, CountType
<1>. QED
  BY Numbers DEF Count, CountType, Later, NewRevision

LEMMA ForeignCount ==
  ASSUME TInv
  PROVE  /\ count.foreign < MaxForeign /\ count' = [count EXCEPT !.foreign = @ + 1, !.rev = NewRevision] =>
              Later /\ count'.rev = NewRevision /\ count'.foreign \in 1..MaxForeign
         /\ count' = [count EXCEPT !.removals = @ + 1, !.rev = NewRevision] =>
              Later /\ count'.rev = NewRevision
<1>1. count \in CountType /\ NewRevision \in Nat /\ count.rev \leq NewRevision
  BY DEF TInv, StateType, CountType, NewRevision
<1>2. ASSUME count.foreign < MaxForeign, count' = [count EXCEPT !.foreign = @ + 1, !.rev = NewRevision]
      PROVE  Later /\ count'.rev = NewRevision /\ count'.foreign \in 1..MaxForeign
  <2>1. count' = [edits |-> count.edits, foreign |-> count.foreign + 1, rev |-> NewRevision,
                  removals |-> count.removals, failures |-> count.failures, crashes |-> count.crashes]
    BY <1>1, <1>2 DEF CountType
  <2>. QED
    BY <1>1, <1>2, <2>1, Numbers DEF CountType, Later
<1>3. ASSUME count' = [count EXCEPT !.removals = @ + 1, !.rev = NewRevision]
      PROVE  Later /\ count'.rev = NewRevision
  <2>1. count' = [edits |-> count.edits, foreign |-> count.foreign, rev |-> NewRevision,
                  removals |-> count.removals + 1, failures |-> count.failures, crashes |-> count.crashes]
    BY <1>1, <1>3 DEF CountType
  <2>. QED
    BY <1>1, <2>1 DEF CountType, Later
<1>. QED
  BY <1>2, <1>3

LEMMA RevisionsStay == ASSUME TInv, Later, UNCHANGED <<remote, known, stored>> PROVE RevisionsType'
<1>1. \A s : Given(s) => Given(s)'
  BY GivenStays DEF Later, CountType
<1>. QED
  BY <1>1 DEF TInv, RevisionsType

LEMMA SyncStays == ASSUME TInv, Later, UNCHANGED sync PROVE SyncType'
<1>1. \A s : Given(s) => Given(s)'
  BY GivenStays DEF Later, CountType
<1>. QED
  BY <1>1 DEF TInv, SyncType, SyncControl

LEMMA PollStays == ASSUME TInv, Later, UNCHANGED <<poll, mode>> PROVE PollType'
<1>1. \A s : Given(s) => Given(s)'
  BY GivenStays DEF Later, CountType
<1>. QED
  BY <1>1 DEF TInv, PollType, Listing, Items

LEMMA CountSame == ASSUME TInv, UNCHANGED count PROVE Later
BY DEF TInv, StateType, CountType, Later

(***************************************************************************)
(* The types are kept.                                                     *)
(***************************************************************************)
LEMMA UserTypes == ASSUME TInv, NEW p \in Pages, Edit(p) \/ Remove(p) PROVE TInv'
<1>1. /\ mode = "up" /\ UNCHANGED <<remote, known, stored, mode, conflicted, sync, poll>>
      /\ dirty' = dirty \cup {p}
  BY DEF Edit, Remove
<1>2. Later /\ local' \in [Pages -> FileType] /\ gone' \subseteq Changes
  <2>1. CASE Edit(p)
    <3>1. Later /\ count'.edits \in Changes
      BY <2>1, CountTypes, Numbers DEF Edit, Changes, TInv, StateType
    <3>2. Text(local[p]) \in SUBSET Changes
      BY DEF TInv, StateType, FileType, Text
    <3>3. Text(local[p]) \cup {count'.edits} \in FileType
      BY <3>1, <3>2 DEF FileType
    <3>4. local' = [local EXCEPT ![p] = Text(local[p]) \cup {count'.edits}] /\ gone' = gone
      BY <2>1 DEF Edit
    <3>. QED
      BY <3>1, <3>3, <3>4 DEF TInv, StateType
  <2>2. CASE Remove(p)
    BY <2>2, CountTypes, NoneTypes DEF Remove, TInv, StateType, FileType
  <2>. QED
    BY <2>1, <2>2
<1>3. StateType'
  BY <1>1, <1>2 DEF TInv, StateType, Later, CountType
<1>. QED
  BY <1>1, <1>2, <1>3, RevisionsStay, SyncStays, PollStays DEF TInv, Control

LEMMA ForeignTypes == ASSUME TInv, NEW p \in Pages, ForeignEdit(p) \/ ForeignRemove(p) PROVE TInv'
<1>1. UNCHANGED <<local, known, stored, mode, dirty, conflicted, sync, poll>>
  BY DEF ForeignEdit, ForeignRemove
<1>2. /\ remote \in [Pages -> PageType] /\ count \in CountType /\ remote[p] \in PageType
      /\ NewRevision \in Nat \ {0}
  BY DEF TInv, StateType, CountType, NewRevision
<1>3. /\ Later /\ count'.rev = NewRevision /\ gone' \subseteq Changes
      /\ \E page \in PageType : /\ remote' = [remote EXCEPT ![p] = page]
                                /\ page = Absent \/ page.rev = NewRevision
  <2>1. CASE ForeignEdit(p)
    <3>. DEFINE page == [ id |-> IF remote[p] = Absent THEN NewRevision ELSE remote[p].id,
                          rev |-> NewRevision,
                          body |-> remote[p].body \cup {MaxEdits + count'.foreign} ]
    <3>1. /\ count' = [count EXCEPT !.foreign = @ + 1, !.rev = NewRevision]
          /\ remote' = [remote EXCEPT ![p] = page] /\ count.foreign < MaxForeign /\ gone' = gone
      BY <2>1 DEF ForeignEdit
    <3>2. Later /\ count'.rev = NewRevision /\ count'.foreign \in 1..MaxForeign
      BY <3>1, ForeignCount
    <3>3. MaxEdits + count'.foreign \in Changes
      BY <3>2, Numbers DEF Changes
    <3>4. page \in PageType /\ page.rev = NewRevision
      BY <1>2, <3>3 DEF PageType
    <3>. HIDE DEF page
    <3>. QED
      BY <3>1, <3>2, <3>4 DEF TInv, StateType
  <2>2. CASE ForeignRemove(p)
    <3>. DEFINE page == [remote[p] EXCEPT !.body = {}, !.rev = NewRevision]
    <3>1. Later /\ count'.rev = NewRevision
      BY <2>2, ForeignCount DEF ForeignRemove
    <3>2. page \in PageType /\ page.rev = NewRevision
      BY <1>2 DEF PageType
    <3>3. remote' = [remote EXCEPT ![p] = Absent] \/ remote' = [remote EXCEPT ![p] = page]
      BY <1>2, <2>2 DEF ForeignRemove
    <3>4. gone' \subseteq Changes
      BY <1>2, <2>2 DEF ForeignRemove, TInv, StateType, PageType
    <3>. HIDE DEF page
    <3>. QED
      BY <3>1, <3>2, <3>3, <3>4, NoneTypes
  <2>. QED
    BY <2>1, <2>2
<1>4. StateType'
  BY <1>1, <1>2, <1>3 DEF TInv, StateType, Later, CountType
<1>5. \A s : Given(s) => Given(s)'
  BY <1>3, GivenStays DEF Later, CountType
<1>6. RevisionsType'
  BY <1>1, <1>2, <1>3, <1>5 DEF TInv, RevisionsType, Given
<1>. QED
  BY <1>1, <1>3, <1>4, <1>6, SyncStays, PollStays DEF TInv, Control

LEMMA SyncStep ==
  ASSUME TInv, mode = "up", Later, UNCHANGED <<mode, poll>>, StateType', RevisionsType', SyncType'
  PROVE  TInv'
BY PollStays DEF TInv, Control

\* sync' but for the fields a step assigns.
SameBatch ==
  sync'.batch = sync.batch /\ sync'.todo = sync.todo /\ sync'.conflicts = sync.conflicts
SameFile == SameBatch /\ sync'.page = sync.page /\ sync'.mine = sync.mine

LEMMA PageEndsType ==
  ASSUME TInv, NEW c, PageEnds(c), sync.pc \notin AtNoPage
  PROVE  /\ SyncType' /\ sync'.pc = "next" /\ sync'.batch = sync.batch
         /\ sync'.todo = sync.todo \ {sync.page}
         /\ sync'.conflicts = sync.conflicts \cup (IF c THEN {sync.page} ELSE {})
<1>. DEFINE conflicts == sync.conflicts \cup (IF c THEN {sync.page} ELSE {})
            todo == sync.todo \ {sync.page}
<1>1. /\ sync.batch \in SUBSET Pages /\ todo \in SUBSET Pages /\ conflicts \in SUBSET Pages
      /\ todo \subseteq sync.batch /\ conflicts \subseteq sync.batch
  BY DEF TInv, SyncType, SyncRecord, SyncControl
<1>2. sync' = Between("next", sync.batch, todo, conflicts)
  BY DEF PageEnds, Page
<1>. HIDE DEF todo, conflicts
<1>3. /\ sync' \in SyncRecord /\ sync'.pc = "next" /\ sync'.batch = sync.batch
      /\ sync'.todo = todo /\ sync'.conflicts = conflicts
  BY <1>1, <1>2, BetweenType DEF AtNoPage
<1>4. SyncControl'
  BY <1>1, <1>3 DEF SyncControl, AtNoPage
<1>. QED
  BY <1>3, <1>4 DEF SyncType, todo, conflicts

LEMMA FailType ==
  ASSUME TInv, Fail
  PROVE  /\ SyncType' /\ sync'.pc = "idle" /\ sync'.batch = {} /\ sync'.todo = {}
         /\ sync'.conflicts = {} /\ Later /\ dirty' \subseteq Pages
         /\ dirty' = dirty \cup sync.batch
<1>1. Later /\ sync' = NoSync /\ dirty' = dirty \cup sync.batch
  BY CountTypes DEF Fail
<1>2. dirty' \subseteq Pages
  BY <1>1 DEF TInv, StateType, SyncType, SyncRecord
<1>. QED
  BY <1>1, <1>2, NoSyncType DEF SyncType, SyncControl, AtNoPage

WithFields(pc, page, mine, snapshot, seen, act, bytes, allow, saved) ==
  [ pc |-> pc, batch |-> sync.batch, todo |-> sync.todo, conflicts |-> sync.conflicts,
    page |-> page, mine |-> mine, snapshot |-> snapshot, seen |-> seen, act |-> act,
    bytes |-> bytes, allow |-> allow, saved |-> saved ]

LEMMA FieldsOf ==
  ASSUME NEW pc, NEW page, NEW mine, NEW snapshot, NEW seen, NEW act, NEW bytes, NEW allow, NEW saved,
         NEW r, r = WithFields(pc, page, mine, snapshot, seen, act, bytes, allow, saved)
  PROVE  /\ r.pc = pc /\ r.batch = sync.batch /\ r.todo = sync.todo /\ r.conflicts = sync.conflicts
         /\ r.page = page /\ r.mine = mine /\ r.snapshot = snapshot /\ r.seen = seen /\ r.act = act
         /\ r.bytes = bytes /\ r.allow = allow /\ r.saved = saved
BY DEF WithFields

Steps == {"snapshot", "create", "get", "decide", "post", "meta", "base", "write"}
Acts == {"upload", "synced", "accept", "merge", "conflict"}
LEMMA FieldsType ==
  ASSUME sync \in SyncRecord, NEW pc \in Steps, NEW page \in Pages, NEW mine \in SUBSET Changes,
         NEW snapshot \in Pair, NEW seen \in PageType, NEW act \in Acts \cup {"none"},
         NEW bytes \in SUBSET Changes, NEW allow \in BOOLEAN, NEW saved \in Pair
  PROVE  WithFields(pc, page, mine, snapshot, seen, act, bytes, allow, saved) \in SyncRecord
BY DEF SyncRecord, WithFields, Steps, Acts

LEMMA FieldTypes ==
  ASSUME sync \in SyncRecord
  PROVE  /\ sync.mine \in SUBSET Changes /\ sync.snapshot \in Pair /\ sync.seen \in PageType
         /\ sync.act \in Acts \cup {"none"} /\ sync.bytes \in SUBSET Changes
         /\ sync.allow \in BOOLEAN /\ sync.saved \in Pair
BY DEF SyncRecord, Acts

LEMMA SyncReadFields ==
  ASSUME TInv, NEW p \in sync.todo, sync.pc = "next",
         sync' = [sync EXCEPT !.pc = "snapshot", !.page = p, !.mine = local[p]], local[p] # NoFile
  PROVE  SyncType' /\ SameBatch /\ sync'.pc = "snapshot" /\ sync'.page = p /\ sync'.mine = local[p]
<1>1. p \in Pages /\ local[p] \in SUBSET Changes
  BY DEF TInv, StateType, SyncType, SyncRecord, FileType
<1>2. sync \in SyncRecord
  BY DEF TInv, SyncType
<1>3. sync' = WithFields("snapshot", p, local[p], sync.snapshot, sync.seen, sync.act, sync.bytes,
                         sync.allow, sync.saved)
  BY <1>2 DEF SyncRecord, WithFields
<1>4. sync' \in SyncRecord
  BY <1>1, <1>2, <1>3 DEF SyncRecord, WithFields
<1>5. SameBatch /\ sync'.pc = "snapshot" /\ sync'.page = p /\ sync'.mine = local[p]
  BY <1>3, FieldsOf DEF SameBatch
<1>. QED
  BY <1>1, <1>4, <1>5 DEF TInv, SyncType, SyncControl, SameBatch, AtNoPage

LEMMA SyncSnapshotFields ==
  ASSUME TInv, SyncSnapshot
  PROVE  /\ SyncType' /\ SameFile /\ sync'.pc \in {"create", "get"}
         /\ sync'.snapshot = SnapshotFor(sync.page)
<1>. DEFINE s == SnapshotFor(sync.page)
            pc == IF s = NoSnapshot THEN "create" ELSE "get"
<1>1. sync.page \in sync.todo /\ sync.page \in Pages /\ s \in Pair /\ (s # NoSnapshot => Given(s)) /\ Later
  BY SnapshotForType, CountSame DEF SyncSnapshot, At, TInv, SyncType, Page, SyncControl, AtNoPage
<1>2. sync' = [sync EXCEPT !.pc = pc, !.snapshot = s]
  BY DEF SyncSnapshot, Page
<1>. HIDE DEF s
<1>3. sync \in SyncRecord
  BY DEF TInv, SyncType
<1>4. sync' = WithFields(pc, sync.page, sync.mine, s, sync.seen, sync.act, sync.bytes,
                         sync.allow, sync.saved)
  BY <1>2, <1>3 DEF SyncRecord, WithFields
<1>5. sync' \in SyncRecord
  BY <1>1, <1>3, <1>4 DEF SyncRecord, WithFields
<1>6. SameFile /\ sync'.pc = pc /\ sync'.snapshot = s
  BY <1>4, FieldsOf DEF SameFile, SameBatch
<1>7. s # NoSnapshot => Given(sync.snapshot)'
  BY <1>1, <1>6 DEF SyncSnapshot, Given
<1>8. SyncControl'
  BY <1>1, <1>6, <1>7 DEF TInv, SyncType, SyncControl, SameFile, SameBatch, AtNoPage
<1>. QED
  BY <1>5, <1>6, <1>8 DEF SyncType, s

LEMMA SyncCreateFields ==
  ASSUME TInv, SyncCreate, remote[Page] = Absent
  PROVE  /\ SyncType' /\ SameFile /\ sync'.pc = "meta" /\ sync'.act = "upload"
         /\ sync'.bytes = sync.mine /\ sync'.saved.rev = NewRevision
         /\ Later /\ remote'[sync.page].rev = NewRevision /\ remote'[sync.page].body = sync.mine
         /\ remote' \in [Pages -> PageType] /\ remote'[sync.page].rev \in 1..count'.rev
         /\ \A p \in Pages : p # sync.page => remote'[p] = remote[p]
<1>. DEFINE new == [id |-> NewRevision, rev |-> NewRevision]
<1>1. sync.page \in sync.todo /\ sync.page \in Pages /\ sync \in SyncRecord
  BY DEF SyncCreate, At, TInv, SyncType, SyncControl, AtNoPage
<1>2. Later /\ count'.rev = NewRevision /\ NewRevision \in Nat \ {0} /\ new \in Pair /\ new.rev = NewRevision
  BY CountTypes DEF SyncCreate, TInv, StateType, NewRevision, Pair
<1>. HIDE DEF new
<1>3. sync' = WithFields("meta", sync.page, sync.mine, sync.snapshot, sync.seen, "upload", sync.mine,
                         sync.allow, new)
  BY <1>1 DEF SyncCreate, SyncRecord, WithFields, new
<1>4. sync' \in SyncRecord
  BY <1>1, <1>2, <1>3 DEF SyncRecord, WithFields
<1>5. /\ SameFile /\ sync'.pc = "meta" /\ sync'.act = "upload" /\ sync'.bytes = sync.mine
      /\ sync'.saved = new
  BY <1>3, FieldsOf DEF SameFile, SameBatch
<1>6. Given(sync.saved)'
  BY <1>2, <1>5 DEF Given
<1>7. SyncControl'
  BY <1>1, <1>5, <1>6 DEF TInv, SyncType, SyncControl, SameFile, SameBatch, AtNoPage
<1>8. /\ remote' \in [Pages -> PageType] /\ remote'[sync.page].rev = NewRevision
      /\ remote'[sync.page].body = sync.mine /\ \A p \in Pages : p # sync.page => remote'[p] = remote[p]
  <2>1. [id |-> NewRevision, rev |-> NewRevision, body |-> sync.mine] \in PageType
    BY <1>1, <1>2 DEF PageType, SyncRecord
  <2>. QED
    BY <1>1, <2>1 DEF SyncCreate, TInv, StateType, Page
<1>. QED
  BY <1>2, <1>4, <1>5, <1>7, <1>8 DEF SyncType

LEMMA SyncGetFields ==
  ASSUME TInv, SyncGet, remote[Page] # Absent
  PROVE  /\ SyncType' /\ SameFile /\ sync'.pc = "decide" /\ sync'.seen = remote[sync.page]
         /\ sync'.snapshot = sync.snapshot
<1>1. sync.page \in sync.todo /\ sync.page \in Pages /\ sync \in SyncRecord /\ UNCHANGED count
  BY DEF SyncGet, At, TInv, SyncType, SyncControl, AtNoPage
<1>2. remote[sync.page] \in PageType /\ Given(remote[sync.page])
  BY <1>1 DEF TInv, StateType, RevisionsType, Page
<1>3. sync' = WithFields("decide", sync.page, sync.mine, sync.snapshot, remote[sync.page], sync.act,
                         sync.bytes, sync.allow, sync.saved)
  BY <1>1 DEF SyncGet, SyncRecord, WithFields, Page
<1>4. sync' \in SyncRecord
  BY <1>1, <1>2, <1>3 DEF SyncRecord, WithFields
<1>5. SameFile /\ sync'.pc = "decide" /\ sync'.seen = remote[sync.page] /\ sync'.snapshot = sync.snapshot
  BY <1>3, FieldsOf DEF SameFile, SameBatch
<1>6. Given(sync.seen)'
  BY <1>1, <1>2, <1>5 DEF Given
<1>7. SyncControl'
  BY <1>1, <1>5, <1>6 DEF TInv, SyncType, SyncControl, SameFile, SameBatch, AtNoPage
<1>. QED
  BY <1>4, <1>5, <1>7 DEF SyncType

\* The four outcomes of the merge policy.
LEMMA Outcomes ==
  ASSUME NEW base, NEW mine, NEW theirs, NEW d \in Decide(base, mine, theirs)
  PROVE  \/ d.act = "upload" /\ d.bytes = mine /\ base = theirs
         \/ d.act = "synced" /\ d.bytes = mine /\ mine = theirs
         \/ d.act = "accept" /\ d.bytes = theirs /\ base = mine
         \/ d.act = "conflict" /\ d.bytes = mine
         \/ /\ d.act = "merge"
            /\ d.bytes = (mine \cap theirs) \cup (mine \ base) \cup (theirs \ base)
BY DEF Decide

PcAfter(act) ==
  IF act = "accept" THEN "write" ELSE IF act = "synced" THEN "meta" ELSE "post"

LEMMA SyncDecideFields ==
  ASSUME TInv, SyncDecide, sync.seen.rev # sync.snapshot.rev
  PROVE  \E d \in Decide(stored[sync.page].base, sync.mine, sync.seen.body) :
            /\ SyncType' /\ SameFile /\ sync'.pc = PcAfter(d.act) /\ sync'.act = d.act
            /\ sync'.bytes = d.bytes /\ sync'.seen = sync.seen /\ sync'.saved.rev = sync.seen.rev
<1>0. PICK d \in Decide(stored[Page].base, sync.mine, sync.seen.body) :
         sync' = [sync EXCEPT !.act = d.act, !.bytes = d.bytes, !.allow = TRUE,
                              !.saved = Snapshot(sync.seen),
                              !.pc = CASE d.act = "accept" -> "write"
                                       [] d.act = "synced" -> "meta"
                                       [] OTHER            -> "post"]
  BY DEF SyncDecide
<1>. DEFINE pc == CASE d.act = "accept" -> "write" [] d.act = "synced" -> "meta" [] OTHER -> "post"
<1>1. /\ sync.page \in sync.todo /\ sync.page \in Pages /\ sync \in SyncRecord /\ Given(sync.seen)
      /\ UNCHANGED count
  BY DEF SyncDecide, At, TInv, SyncType, SyncControl, AtNoPage
<1>2. sync.mine \in SUBSET Changes /\ sync.seen \in PageType /\ sync.seen.body \in SUBSET Changes
  BY <1>1 DEF SyncRecord, PageType
<1>3. /\ d.act \in {"upload", "synced", "accept", "merge", "conflict"} /\ d.bytes \in SUBSET Changes
  BY <1>2, Outcomes
<1>4. pc = PcAfter(d.act)
  BY <1>3 DEF PcAfter
<1>5. Snapshot(sync.seen) \in Pair /\ Snapshot(sync.seen).rev = sync.seen.rev
  BY <1>2, SnapshotType
<1>6. sync' = WithFields(pc, sync.page, sync.mine, sync.snapshot, sync.seen, d.act, d.bytes, TRUE,
                         Snapshot(sync.seen))
  <2>1. sync' = [sync EXCEPT !.act = d.act, !.bytes = d.bytes, !.allow = TRUE,
                             !.saved = Snapshot(sync.seen), !.pc = pc]
    BY <1>0
  <2>. HIDE DEF pc
  <2>. QED
    BY <1>1, <2>1 DEF SyncRecord, WithFields
<1>. HIDE DEF pc
<1>7. PcAfter(d.act) \in {"write", "meta", "post"}
  BY DEF PcAfter
<1>8. sync' \in SyncRecord
  <2>1. d.act \in Acts \cup {"none"} /\ PcAfter(d.act) \in Steps
    BY <1>3, <1>7 DEF Acts, Steps
  <2>2. sync' = WithFields(PcAfter(d.act), sync.page, sync.mine, sync.snapshot, sync.seen, d.act,
                           d.bytes, TRUE, Snapshot(sync.seen))
    BY <1>4, <1>6
  <2>. QED
    BY <1>1, <1>3, <1>5, <2>1, <2>2, FieldsType, FieldTypes
<1>9. /\ SameFile /\ sync'.pc = PcAfter(d.act) /\ sync'.act = d.act /\ sync'.bytes = d.bytes
      /\ sync'.seen = sync.seen /\ sync'.saved = Snapshot(sync.seen)
  BY <1>4, <1>6 DEF SameFile, SameBatch, WithFields
<1>10. Given(sync.saved)' /\ Given(sync.seen)'
  BY <1>1, <1>5, <1>9 DEF Given
<1>11. SyncControl'
  BY <1>1, <1>3, <1>9, <1>10 DEF TInv, SyncType, SyncControl, SameFile, SameBatch, AtNoPage, PcAfter
<1>12. d \in Decide(stored[sync.page].base, sync.mine, sync.seen.body)
  BY DEF Page
<1>13. SyncType'
  BY <1>8, <1>11 DEF SyncType
<1>. QED
  BY <1>5, <1>9, <1>12, <1>13

LEMMA SyncUploadFields ==
  ASSUME TInv, SyncDecide, sync.seen.rev = sync.snapshot.rev
  PROVE  /\ SyncType' /\ SameFile /\ sync'.pc = "post" /\ sync'.act = "upload"
         /\ sync'.bytes = sync.mine /\ sync'.seen = sync.seen
<1>1. /\ sync.page \in sync.todo /\ sync.page \in Pages /\ sync \in SyncRecord /\ Given(sync.seen)
      /\ UNCHANGED count
  BY DEF SyncDecide, At, TInv, SyncType, SyncControl, AtNoPage
<1>2. sync' = WithFields("post", sync.page, sync.mine, sync.snapshot, sync.seen, "upload", sync.mine,
                         sync.allow, sync.saved)
  BY <1>1 DEF SyncDecide, SyncRecord, WithFields
<1>3. sync' \in SyncRecord
  BY <1>1, <1>2 DEF SyncRecord, WithFields
<1>4. /\ SameFile /\ sync'.pc = "post" /\ sync'.act = "upload" /\ sync'.bytes = sync.mine
      /\ sync'.seen = sync.seen
  BY <1>2, FieldsOf DEF SameFile, SameBatch
<1>5. Given(sync.seen)'
  BY <1>1, <1>4 DEF Given
<1>6. SyncControl'
  BY <1>1, <1>4, <1>5 DEF TInv, SyncType, SyncControl, SameFile, SameBatch, AtNoPage
<1>. QED
  BY <1>3, <1>4, <1>6 DEF SyncType

LEMMA Replaced ==
  /\ \A page \in PageType : \A n, b : [page EXCEPT !.rev = n, !.body = b] = [id |-> page.id, rev |-> n, body |-> b]
  /\ \A row \in [snapshot : Pair, base : SUBSET Changes] :
       /\ \A s : [row EXCEPT !.snapshot = s] = [snapshot |-> s, base |-> row.base]
       /\ \A b : [row EXCEPT !.base = b] = [snapshot |-> row.snapshot, base |-> b]
<1>1. ASSUME NEW page \in PageType, NEW n, NEW b
      PROVE  [page EXCEPT !.rev = n, !.body = b] = [id |-> page.id, rev |-> n, body |-> b]
  <2>1. ASSUME NEW q, q = [page EXCEPT !.rev = n, !.body = b]
        PROVE  q = [id |-> page.id, rev |-> n, body |-> b]
    BY <2>1 DEF PageType
  <2>. QED
    BY <2>1
<1>2. ASSUME NEW row \in [snapshot : Pair, base : SUBSET Changes], NEW s
      PROVE  /\ [row EXCEPT !.snapshot = s] = [snapshot |-> s, base |-> row.base]
             /\ [row EXCEPT !.base = s] = [snapshot |-> row.snapshot, base |-> s]
  OBVIOUS
<1>. QED
  BY <1>1, <1>2

LEMMA SyncPostFields ==
  ASSUME TInv, SyncPost, NEW body \in SUBSET Changes, PostStored(body)
  PROVE  /\ SyncType' /\ SameFile /\ sync'.pc = "meta" /\ sync'.act = sync.act
         /\ sync'.bytes = sync.bytes /\ sync'.saved.rev = NewRevision
         /\ Later /\ remote' \in [Pages -> PageType]
         /\ remote'[sync.page].rev = NewRevision /\ remote'[sync.page].rev \in 1..count'.rev
         /\ remote'[sync.page].body = body /\ \A p \in Pages : p # sync.page => remote'[p] = remote[p]
<1>. DEFINE new == [id |-> remote[sync.page].id, rev |-> NewRevision]
<1>1. /\ sync.page \in sync.todo /\ sync.page \in Pages /\ sync \in SyncRecord
      /\ sync.pc = "post" /\ sync.act \in {"upload", "conflict", "merge"}
  BY DEF SyncPost, At, TInv, SyncType, SyncControl, AtNoPage
<1>2. Later /\ count'.rev = NewRevision /\ NewRevision \in Nat \ {0}
  BY CountTypes DEF PostStored, TInv, StateType, NewRevision
<1>3. new \in Pair /\ new.rev = NewRevision
  BY <1>1, <1>2 DEF TInv, StateType, Pair, PageType
<1>. HIDE DEF new
<1>4. sync' = WithFields("meta", sync.page, sync.mine, sync.snapshot, sync.seen, sync.act, sync.bytes,
                         sync.allow, new)
  BY <1>1 DEF PostStored, SyncRecord, WithFields, new, Page
<1>5. sync' \in SyncRecord
  BY <1>1, <1>3, <1>4, FieldsType, FieldTypes DEF Steps
<1>6. /\ SameFile /\ sync'.pc = "meta" /\ sync'.act = sync.act /\ sync'.bytes = sync.bytes
      /\ sync'.saved = new
  BY <1>4, FieldsOf DEF SameFile, SameBatch
<1>7. Given(sync.saved)'
  BY <1>2, <1>3, <1>6 DEF Given
<1>8. SyncControl'
  BY <1>1, <1>6, <1>7 DEF TInv, SyncType, SyncControl, SameFile, SameBatch, AtNoPage
<1>9. /\ remote' \in [Pages -> PageType] /\ remote'[sync.page].rev = NewRevision
      /\ remote'[sync.page].body = body /\ \A p \in Pages : p # sync.page => remote'[p] = remote[p]
  <2>. DEFINE page == [id |-> remote[sync.page].id, rev |-> NewRevision, body |-> body]
  <2>1. remote \in [Pages -> PageType] /\ remote[sync.page] \in PageType
    BY <1>1 DEF TInv, StateType
  <2>2. page \in PageType /\ page.rev = NewRevision /\ page.body = body
    BY <1>2, <2>1 DEF PageType
  <2>3. [remote[sync.page] EXCEPT !.rev = NewRevision, !.body = body] = page
    BY <2>1, Replaced
  <2>. HIDE DEF page
  <2>4. remote' = [remote EXCEPT ![sync.page] = [remote[sync.page] EXCEPT !.rev = NewRevision, !.body = body]]
    BY <1>1, <2>1 DEF PostStored, Page
  <2>5. remote' = [remote EXCEPT ![sync.page] = page]
    BY <2>3, <2>4
  <2>. QED
    BY <1>1, <2>1, <2>2, <2>5
<1>. QED
  BY <1>2, <1>3, <1>5, <1>6, <1>8, <1>9 DEF SyncType

\* A step of the same page, that leaves what was decided for it.
LEMMA SyncGoesOn ==
  ASSUME TInv, UNCHANGED count, NEW pc \in {"meta", "base", "write"},
         sync.pc \in {"meta", "base", "write"}, pc = "write" => sync.act \in {"accept", "merge"},
         sync' = [sync EXCEPT !.pc = pc]
  PROVE  /\ SyncType' /\ SameFile /\ sync'.pc = pc /\ sync'.act = sync.act
         /\ sync'.bytes = sync.bytes /\ sync'.saved = sync.saved
<1>1. /\ sync.page \in sync.todo /\ sync.page \in Pages /\ sync \in SyncRecord /\ Given(sync.saved)
      /\ sync.act # "none"
  BY DEF TInv, SyncType, SyncControl, AtNoPage
<1>2. sync' = WithFields(pc, sync.page, sync.mine, sync.snapshot, sync.seen, sync.act, sync.bytes,
                         sync.allow, sync.saved)
  BY <1>1 DEF SyncRecord, WithFields
<1>3. sync' \in SyncRecord
  BY <1>1, <1>2, FieldsType, FieldTypes DEF Steps
<1>4. /\ SameFile /\ sync'.pc = pc /\ sync'.act = sync.act /\ sync'.bytes = sync.bytes
      /\ sync'.saved = sync.saved
  BY <1>2, FieldsOf DEF SameFile, SameBatch
<1>5. Given(sync.saved)'
  BY <1>1, <1>4 DEF Given
<1>6. SyncControl'
  BY <1>1, <1>4, <1>5 DEF TInv, SyncType, SyncControl, SameFile, SameBatch, AtNoPage
<1>. QED
  BY <1>3, <1>4, <1>6 DEF SyncType

\* The state of one page is saved.
LEMMA SnapshotSaved ==
  ASSUME TInv, UNCHANGED <<remote, known, count>>, NEW p \in Pages, NEW s \in Pair, Given(s),
         stored' = [stored EXCEPT ![p].snapshot = s]
  PROVE  /\ stored' \in [Pages -> [snapshot : Pair, base : SUBSET Changes]] /\ RevisionsType'
         /\ stored'[p].snapshot = s /\ \A q \in Pages : stored'[q].base = stored[q].base
         /\ \A q \in Pages : q # p => stored'[q] = stored[q]
<1>. DEFINE row == [snapshot |-> s, base |-> stored[p].base]
<1>1. stored \in [Pages -> [snapshot : Pair, base : SUBSET Changes]]
  BY DEF TInv, StateType
<1>2. row \in [snapshot : Pair, base : SUBSET Changes] /\ stored' = [stored EXCEPT ![p] = row]
  <2>1. stored[p] \in [snapshot : Pair, base : SUBSET Changes]
    BY <1>1
  <2>2. [stored[p] EXCEPT !.snapshot = s] = row
    BY <2>1, Replaced
  <2>3. row \in [snapshot : Pair, base : SUBSET Changes]
    BY <2>1
  <2>. HIDE DEF row
  <2>. QED
    BY <2>2, <2>3
<1>3. row.snapshot = s /\ row.base = stored[p].base
  OBVIOUS
<1>. HIDE DEF row
<1>4. stored'[p] = row /\ \A q \in Pages : q # p => stored'[q] = stored[q]
  BY <1>1, <1>2
<1>5. /\ stored'[p].snapshot = s /\ \A q \in Pages : stored'[q].base = stored[q].base
      /\ stored' \in [Pages -> [snapshot : Pair, base : SUBSET Changes]]
  BY <1>1, <1>2, <1>3, <1>4
<1>6. \A x : Given(x) => Given(x)'
  BY DEF Given
<1>7. RevisionsType'
  BY <1>4, <1>5, <1>6 DEF TInv, RevisionsType
<1>. QED
  BY <1>4, <1>5, <1>7

LEMMA BaseSaved ==
  ASSUME TInv, NEW p \in Pages, NEW body \in SUBSET Changes,
         stored' = [stored EXCEPT ![p].base = body]
  PROVE  /\ stored' \in [Pages -> [snapshot : Pair, base : SUBSET Changes]]
         /\ stored'[p].base = body /\ \A q \in Pages : stored'[q].snapshot = stored[q].snapshot
         /\ \A q \in Pages : q # p => stored'[q] = stored[q]
<1>. DEFINE row == [snapshot |-> stored[p].snapshot, base |-> body]
<1>1. stored \in [Pages -> [snapshot : Pair, base : SUBSET Changes]]
  BY DEF TInv, StateType
<1>2. row \in [snapshot : Pair, base : SUBSET Changes] /\ stored' = [stored EXCEPT ![p] = row]
  <2>1. stored[p] \in [snapshot : Pair, base : SUBSET Changes]
    BY <1>1
  <2>2. [stored[p] EXCEPT !.base = body] = row
    BY <2>1, Replaced
  <2>3. row \in [snapshot : Pair, base : SUBSET Changes]
    BY <2>1
  <2>. HIDE DEF row
  <2>. QED
    BY <2>2, <2>3
<1>3. row.base = body /\ row.snapshot = stored[p].snapshot
  OBVIOUS
<1>. HIDE DEF row
<1>4. stored'[p] = row /\ \A q \in Pages : q # p => stored'[q] = stored[q]
  BY <1>1, <1>2
<1>. QED
  BY <1>1, <1>2, <1>3, <1>4

LEMMA KnownSaved ==
  ASSUME TInv, UNCHANGED <<remote, count>>, NEW p \in Pages, NEW s \in Pair, Given(s),
         known' = [known EXCEPT ![p] = s],
         \A q \in Pages : stored'[q].snapshot = stored[q].snapshot
  PROVE  /\ known' \in [Pages -> Pair] /\ RevisionsType' /\ known'[p] = s
         /\ \A q \in Pages : q # p => known'[q] = known[q]
<1>1. known \in [Pages -> Pair]
  BY DEF TInv, StateType
<1>2. known' \in [Pages -> Pair] /\ known'[p] = s /\ \A q \in Pages : q # p => known'[q] = known[q]
  BY <1>1
<1>3. \A x : Given(x) => Given(x)'
  BY DEF Given
<1>. QED
  BY <1>2, <1>3 DEF TInv, RevisionsType

LEMMA FileWritten ==
  ASSUME TInv, NEW p \in Pages, NEW body \in SUBSET Changes, local' = [local EXCEPT ![p] = body]
  PROVE  /\ local' \in [Pages -> FileType] /\ local'[p] = body
         /\ \A q \in Pages : q # p => local'[q] = local[q]
BY DEF TInv, StateType, FileType

LEMMA SyncTypes == ASSUME TInv, Sync PROVE TInv'
<1>1. mode = "up" /\ UNCHANGED <<mode, poll>>
  BY DEF Sync, SyncBegin, SyncRead, SyncSnapshot, SyncCreate, SyncGet, SyncDecide, SyncPost, SyncMeta,
         SyncBase, SyncWrite, SyncFails, SyncEnd, At
<1>2. ASSUME UNCHANGED <<remote, local, known, stored, gone>>, Later, SyncType', dirty' \subseteq Pages,
             conflicted' \subseteq Pages
      PROVE  TInv'
  <2>1. StateType'
    BY <1>1, <1>2 DEF TInv, StateType, Later, CountType
  <2>. QED
    BY <1>1, <1>2, <2>1, RevisionsStay, SyncStep
<1>3. dirty \subseteq Pages /\ conflicted \subseteq Pages /\ sync \in SyncRecord /\ SyncControl
      /\ count \in CountType
  BY DEF TInv, StateType, SyncType, CountType
<1>4. CASE SyncBegin
  <2>1. /\ sync' = Between("next", dirty, dirty, {}) /\ UNCHANGED <<remote, local, known, stored, gone, count>>
        /\ dirty' = {} /\ conflicted' \subseteq Pages
    BY <1>3, <1>4 DEF SyncBegin
  <2>2. /\ sync' \in SyncRecord /\ sync'.pc = "next" /\ sync'.batch = dirty /\ sync'.todo = dirty
        /\ sync'.conflicts = {}
    BY <1>3, <2>1, BetweenType DEF AtNoPage
  <2>3. SyncType'
    BY <2>2 DEF SyncType, SyncControl, AtNoPage
  <2>. QED
    BY <1>2, <2>1, <2>3, CountSame
<1>5. CASE \E p \in Pages : SyncRead(p)
  <2>1. PICK p \in Pages : SyncRead(p)
    BY <1>5
  <2>2. CASE local[p] # NoFile
    BY <1>2, <1>3, <2>1, <2>2, SyncReadFields, CountSame DEF SyncRead, At
  <2>3. CASE local[p] = NoFile
    BY <1>2, <1>3, <2>1, <2>3, FailType DEF SyncRead
  <2>. QED
    BY <2>2, <2>3
<1>6. CASE SyncSnapshot
  BY <1>2, <1>3, <1>6, SyncSnapshotFields, CountSame DEF SyncSnapshot
<1>7. CASE SyncCreate
  <2>1. CASE remote[Page] = Absent
    <3>1. UNCHANGED <<local, known, stored, dirty, conflicted, gone>>
      BY <1>7, <2>1 DEF SyncCreate
    <3>2. /\ Later /\ remote' \in [Pages -> PageType] /\ remote'[sync.page].rev \in 1..count'.rev
          /\ \A p \in Pages : p # sync.page => remote'[p] = remote[p]
          /\ SyncType'
      BY <1>7, <2>1, SyncCreateFields
    <3>3. StateType'
      BY <1>1, <3>1, <3>2 DEF TInv, StateType, Later, CountType
    <3>4. \A s : Given(s) => Given(s)'
      BY <3>2, GivenStays DEF Later, CountType
    <3>5. RevisionsType'
      <4>1. ASSUME NEW p \in Pages PROVE remote'[p] = Absent \/ remote'[p].rev \in 1..count'.rev
        BY <3>2, <3>4 DEF TInv, RevisionsType, Given
      <4>. QED
        BY <3>1, <3>4, <4>1 DEF TInv, RevisionsType, Given
    <3>. QED
      BY <1>1, <3>2, <3>3, <3>5, SyncStep
  <2>2. CASE remote[Page] # Absent
    BY <1>2, <1>3, <1>7, <2>2, FailType DEF SyncCreate
  <2>. QED
    BY <2>1, <2>2
<1>8. CASE SyncGet
  <2>1. CASE remote[Page] # Absent
    BY <1>2, <1>3, <1>8, <2>1, SyncGetFields, CountSame DEF SyncGet
  <2>2. CASE remote[Page] = Absent
    <3>1. PageEnds(FALSE) /\ sync.pc \notin AtNoPage
      BY <1>8, <2>2 DEF SyncGet, Skip, At, AtNoPage
    <3>. QED
      BY <1>2, <1>3, <1>8, <3>1, PageEndsType, CountSame DEF SyncGet
  <2>. QED
    BY <2>1, <2>2
<1>9. CASE SyncDecide
  BY <1>2, <1>3, <1>9, SyncDecideFields, SyncUploadFields, CountSame DEF SyncDecide
<1>10. CASE SyncPost
  <2>1. UNCHANGED <<local, known, stored, dirty, conflicted>> /\ sync.pc = "post" /\ sync.pc \notin AtNoPage
    BY <1>10 DEF SyncPost, At, AtNoPage
  <2>2. ASSUME NEW body \in SUBSET Changes, PostStored(body) PROVE TInv'
    <3>1. /\ Later /\ remote' \in [Pages -> PageType] /\ remote'[sync.page].rev \in 1..count'.rev
          /\ \A p \in Pages : p # sync.page => remote'[p] = remote[p]
          /\ SyncType'
      BY <1>10, <2>2, SyncPostFields
    <3>2. gone' \subseteq Changes
      <4>1. sync.seen.body \subseteq Changes
        BY <1>3 DEF SyncRecord, PageType
      <4>. QED
        BY <2>2, <4>1 DEF PostStored, TInv, StateType
    <3>3. StateType'
      BY <1>1, <2>1, <3>1, <3>2 DEF TInv, StateType, Later, CountType
    <3>4. \A s : Given(s) => Given(s)'
      BY <3>1, GivenStays DEF Later, CountType
    <3>5. RevisionsType'
      <4>1. ASSUME NEW p \in Pages PROVE remote'[p] = Absent \/ remote'[p].rev \in 1..count'.rev
        BY <3>1, <3>4 DEF TInv, RevisionsType, Given
      <4>. QED
        BY <2>1, <3>4, <4>1 DEF TInv, RevisionsType, Given
    <3>. QED
      BY <1>1, <3>1, <3>3, <3>5, SyncStep
  <2>3. sync.bytes \in SUBSET Changes /\ (sync.bytes \cup remote[sync.page].body) \in SUBSET Changes
    BY <1>3, <2>1 DEF SyncRecord, SyncControl, TInv, StateType, PageType
  <2>4. CASE \E c : PageEnds(c) /\ UNCHANGED <<remote, gone, count>>
    <3>1. SyncType'
      BY <2>1, <2>4, PageEndsType
    <3>. QED
      BY <1>2, <1>3, <2>1, <2>4, <3>1, CountSame
  <2>. QED
    BY <1>10, <2>2, <2>3, <2>4 DEF SyncPost, Skip, Page
<1>11. CASE SyncMeta
  <2>1. /\ UNCHANGED <<remote, local, known, dirty, conflicted, count, gone>> /\ sync.pc = "meta"
        /\ stored' = [stored EXCEPT ![sync.page].snapshot = sync.saved]
        /\ sync' = [sync EXCEPT !.pc = "base"]
    BY <1>11 DEF SyncMeta, At, Page
  <2>2. sync.page \in Pages /\ sync.saved \in Pair /\ Given(sync.saved)
    BY <1>3, <2>1, FieldTypes DEF SyncControl, AtNoPage
  <2>3. SyncType'
    BY <2>1, SyncGoesOn
  <2>4. stored' \in [Pages -> [snapshot : Pair, base : SUBSET Changes]] /\ RevisionsType'
    BY <2>1, <2>2, SnapshotSaved
  <2>5. StateType'
    BY <1>1, <2>1, <2>4 DEF TInv, StateType
  <2>. QED
    BY <1>1, <2>1, <2>3, <2>4, <2>5, SyncStep, CountSame
<1>12. CASE SyncBase
  <2>1. /\ UNCHANGED <<remote, local, dirty, conflicted, count, gone>> /\ sync.pc = "base"
        /\ stored' = [stored EXCEPT ![sync.page].base = sync.bytes]
        /\ known' = [known EXCEPT ![sync.page] = sync.saved]
    BY <1>12 DEF SyncBase, At, Page
  <2>2. /\ sync.page \in Pages /\ sync.saved \in Pair /\ Given(sync.saved)
        /\ sync.bytes \in SUBSET Changes /\ sync.pc \notin AtNoPage
    BY <1>3, <2>1, FieldTypes DEF SyncControl, AtNoPage
  <2>3. SyncType'
    <3>1. CASE sync.act = "merge"
      BY <1>12, <2>1, <3>1, SyncGoesOn DEF SyncBase
    <3>2. CASE sync.act # "merge"
      BY <1>12, <2>2, <3>2, PageEndsType DEF SyncBase
    <3>. QED
      BY <3>1, <3>2
  <2>4. /\ stored' \in [Pages -> [snapshot : Pair, base : SUBSET Changes]]
        /\ \A q \in Pages : stored'[q].snapshot = stored[q].snapshot
    BY <2>1, <2>2, BaseSaved
  <2>5. known' \in [Pages -> Pair] /\ RevisionsType'
    BY <2>1, <2>2, <2>4, KnownSaved
  <2>6. StateType'
    BY <1>1, <2>1, <2>4, <2>5 DEF TInv, StateType
  <2>. QED
    BY <1>1, <2>1, <2>3, <2>5, <2>6, SyncStep, CountSame
<1>13. CASE SyncWrite
  <2>1. /\ UNCHANGED <<remote, known, stored, dirty, conflicted, count, gone>> /\ sync.pc = "write"
        /\ local' = [local EXCEPT ![sync.page] = sync.bytes]
    BY <1>13 DEF SyncWrite, At, Page
  <2>2. sync.page \in Pages /\ sync.bytes \in SUBSET Changes /\ sync.pc \notin AtNoPage
    BY <1>3, <2>1, FieldTypes DEF SyncControl, AtNoPage
  <2>3. SyncType'
    <3>1. CASE sync.act = "merge"
      BY <1>13, <2>2, <3>1, PageEndsType DEF SyncWrite
    <3>2. CASE sync.act # "merge"
      BY <1>13, <2>1, <3>2, SyncGoesOn DEF SyncWrite
    <3>. QED
      BY <3>1, <3>2
  <2>4. StateType'
    BY <1>1, <2>1, <2>2, FileWritten DEF TInv, StateType
  <2>. QED
    BY <1>1, <2>1, <2>3, <2>4, SyncStep, CountSame, RevisionsStay
<1>14. CASE SyncFails
  BY <1>2, <1>3, <1>14, FailType DEF SyncFails
<1>15. CASE SyncEnd
  <2>1. /\ sync' = NoSync /\ conflicted' \subseteq Pages
        /\ UNCHANGED <<remote, local, known, stored, dirty, gone, count>>
    BY <1>3, <1>15 DEF SyncEnd, SyncRecord
  <2>2. SyncType'
    BY <2>1, NoSyncType DEF SyncType, SyncControl, AtNoPage
  <2>. QED
    BY <1>2, <1>3, <2>1, <2>2, CountSame
<1>. QED
  BY <1>4, <1>5, <1>6, <1>7, <1>8, <1>9, <1>10, <1>11, <1>12, <1>13, <1>14, <1>15 DEF Sync

\* A tree of the server, and what is made of one of its pages.
LEMMA TreeType ==
  ASSUME TInv
  PROVE  /\ Listing(Tree, DOMAIN Tree)
         /\ \A p \in DOMAIN Tree : p \in Pages /\ remote[p] # Absent /\ Tree[p] = remote[p]
<1>1. /\ DOMAIN Tree = {q \in Pages : remote[q] # Absent}
      /\ \A p \in DOMAIN Tree : Tree[p] = remote[p]
  BY DEF Tree
<1>. QED
  BY <1>1 DEF TInv, StateType, RevisionsType, Listing

LEMMA ItemType ==
  ASSUME TInv, NEW tree, NEW todo, Listing(tree, todo), NEW p \in DOMAIN tree, NEW body \in SUBSET Changes,
         NEW e, e = [page |-> p, snapshot |-> Snapshot(tree[p]), body |-> body]
  PROVE  /\ e \in Item /\ Given(e.snapshot) /\ e.page = p /\ e.snapshot = Snapshot(tree[p])
         /\ e.snapshot.rev = tree[p].rev /\ e.body = body
<1>1. p \in Pages /\ tree[p] \in PageType /\ Given(tree[p])
  BY DEF Listing
<1>2. Snapshot(tree[p]) \in Pair /\ Snapshot(tree[p]).rev = tree[p].rev
  BY <1>1, SnapshotType
<1>. QED
  BY <1>1, <1>2 DEF Item, Given

LEMMA GivenSame == ASSUME UNCHANGED count PROVE \A s : Given(s) <=> Given(s)'
BY DEF Given

LEMMA RefreshTypes == ASSUME TInv, Refresh PROVE TInv'
<1>1. mode = "up" /\ UNCHANGED <<mode, remote, dirty, conflicted, sync, count, gone>>
  BY DEF Refresh, PollBegin, PollRead, PollCheck, PollWrite, PollMeta, PollBase, Polling
<1>2. /\ SyncType' /\ Later /\ \A s : Given(s) <=> Given(s)'
  BY <1>1, SyncStays, CountSame, GivenSame
<1>3. ASSUME PollType', UNCHANGED <<local, known, stored>> PROVE TInv'
  <2>1. StateType'
    BY <1>1, <1>3 DEF TInv, StateType
  <2>. QED
    BY <1>1, <1>2, <1>3, <2>1, RevisionsStay DEF TInv, Control
<1>4. ASSUME poll'.pc = "idle" PROVE PollType'
  BY <1>1, <1>4 DEF PollType
<1>5. NoPoll.pc = "idle"
  BY DEF NoPoll
<1>6. ASSUME NEW batch, Items(batch), NEW free \in SUBSET Pages,
             poll' = [pc |-> "apply", batch |-> batch, free |-> free]
      PROVE  PollType'
  <2>1. poll'.pc = "apply" /\ poll'.batch = batch /\ poll'.free = free
    BY <1>6
  <2>. QED
    BY <1>1, <1>2, <1>6, <2>1 DEF PollType, Items
<1>7. ASSUME NEW tree, NEW todo, Listing(tree, todo), NEW batch, Items(batch),
             poll' = [pc |-> "read", tree |-> tree, todo |-> todo, batch |-> batch]
      PROVE  PollType'
  <2>1. poll'.pc = "read" /\ poll'.tree = tree /\ poll'.todo = todo /\ poll'.batch = batch
    BY <1>7
  <2>. QED
    BY <1>1, <1>2, <1>7, <2>1 DEF PollType, Items, Listing
<1>8. CASE PollBegin
  <2>1. Items({})
    BY DEF Items
  <2>. QED
    BY <1>3, <1>7, <1>8, <2>1, TreeType DEF PollBegin
<1>9. CASE \E p \in Pages : PollRead(p)
  <2>1. PICK p \in Pages : PollRead(p)
    BY <1>9
  <2>2. Listing(poll.tree, poll.todo) /\ Items(poll.batch) /\ p \in poll.todo
    BY <2>1 DEF PollRead, Polling, TInv, PollType
  <2>3. p \in DOMAIN poll.tree /\ Listing(poll.tree, poll.todo \ {p})
    BY <2>2 DEF Listing
  <2>4. CASE PollReadTo(poll.todo \ {p}, poll.batch)
    BY <1>3, <1>7, <2>1, <2>2, <2>3, <2>4 DEF PollRead, PollReadTo
  <2>5. ASSUME NEW body \in SUBSET Changes, NEW e,
               e = [page |-> p, snapshot |-> Snapshot(poll.tree[p]), body |-> body],
               PollReadTo(poll.todo \ {p}, poll.batch \cup {e})
        PROVE  TInv'
    <3>1. Items(poll.batch \cup {e})
      BY <2>2, <2>3, <2>5, ItemType DEF Items
    <3>. QED
      BY <1>3, <1>7, <2>1, <2>3, <2>5, <3>1 DEF PollRead, PollReadTo
  <2>6. CASE poll' = NoPoll
    BY <1>3, <1>4, <1>5, <2>1, <2>6 DEF PollRead
  <2>. QED
    BY <2>1, <2>4, <2>5, <2>6 DEF PollRead
<1>10. CASE PollCheck
  <2>1. Items(poll.batch) /\ Pages \ Protected \in SUBSET Pages
    BY <1>10 DEF PollCheck, Polling, TInv, PollType
  <2>2. PollType'
    BY <1>4, <1>5, <1>6, <1>10, <2>1 DEF PollCheck
  <2>. QED
    BY <1>3, <1>10, <2>2 DEF PollCheck
<1>11. ASSUME NEW e \in poll.batch, poll.pc = "apply", PollWrite(e) PROVE TInv'
  <2>1. Items(poll.batch) /\ poll.free \subseteq Pages
    BY <1>11 DEF TInv, PollType
  <2>2. e.page \in Pages /\ e.body \in SUBSET Changes
    BY <1>11, <2>1 DEF Items, Item
  <2>3. poll' = [pc |-> "meta", batch |-> poll.batch, free |-> poll.free, now |-> e]
        /\ local' = [local EXCEPT ![e.page] = e.body] /\ UNCHANGED <<known, stored>>
    BY <1>11 DEF PollWrite
  <2>4. poll'.pc = "meta" /\ poll'.batch = poll.batch /\ poll'.free = poll.free /\ poll'.now = e
    BY <2>3
  <2>5. PollType'
    BY <1>1, <1>2, <1>11, <2>1, <2>3, <2>4 DEF PollType, Items
  <2>6. StateType'
    BY <1>1, <2>2, <2>3, FileWritten DEF TInv, StateType
  <2>. QED
    BY <1>1, <1>2, <2>3, <2>5, <2>6, RevisionsStay DEF TInv, Control
<1>12. ASSUME poll.pc \in {"meta", "base"}
       PROVE  /\ Items(poll.batch) /\ poll.free \in SUBSET Pages /\ poll.now \in poll.batch
              /\ poll.now.page \in Pages /\ poll.now.snapshot \in Pair /\ Given(poll.now.snapshot)
              /\ poll.now.body \in SUBSET Changes
              /\ poll = [pc |-> poll.pc, batch |-> poll.batch, free |-> poll.free, now |-> poll.now]
  BY <1>12 DEF TInv, PollType, Items, Item
<1>13. CASE PollMeta
  <2>1. /\ poll.pc = "meta" /\ stored' = [stored EXCEPT ![poll.now.page].snapshot = poll.now.snapshot]
        /\ UNCHANGED <<local, known>> /\ poll' = [poll EXCEPT !.pc = "base"]
    BY <1>13 DEF PollMeta, Polling
  <2>2. poll' = [pc |-> "base", batch |-> poll.batch, free |-> poll.free, now |-> poll.now]
    BY <1>12, <2>1
  <2>3. poll'.pc = "base" /\ poll'.batch = poll.batch /\ poll'.free = poll.free /\ poll'.now = poll.now
    BY <2>2
  <2>4. PollType'
    BY <1>1, <1>2, <1>12, <2>1, <2>2, <2>3 DEF PollType, Items
  <2>5. stored' \in [Pages -> [snapshot : Pair, base : SUBSET Changes]] /\ RevisionsType'
    BY <1>1, <1>12, <2>1, SnapshotSaved
  <2>6. StateType'
    BY <1>1, <2>1, <2>5 DEF TInv, StateType
  <2>. QED
    BY <1>1, <1>2, <2>1, <2>4, <2>5, <2>6 DEF TInv, Control
<1>14. CASE PollBase
  <2>1. /\ poll.pc = "base" /\ stored' = [stored EXCEPT ![poll.now.page].base = poll.now.body]
        /\ known' = [known EXCEPT ![poll.now.page] = poll.now.snapshot] /\ UNCHANGED local
        /\ poll' = IF poll.batch = {poll.now} THEN NoPoll
                   ELSE [pc |-> "apply", batch |-> poll.batch \ {poll.now}, free |-> poll.free]
    BY <1>14 DEF PollBase, Polling
  <2>2. PollType'
    <3>1. Items(poll.batch \ {poll.now}) /\ poll.free \in SUBSET Pages
      BY <1>12, <2>1 DEF Items
    <3>2. CASE poll.batch = {poll.now}
      BY <1>4, <1>5, <2>1, <3>2
    <3>3. CASE poll.batch # {poll.now}
      BY <1>6, <2>1, <3>1, <3>3
    <3>. QED
      BY <3>2, <3>3
  <2>3. /\ stored' \in [Pages -> [snapshot : Pair, base : SUBSET Changes]]
        /\ \A q \in Pages : stored'[q].snapshot = stored[q].snapshot
    BY <1>12, <2>1, BaseSaved
  <2>4. known' \in [Pages -> Pair] /\ RevisionsType'
    BY <1>1, <1>12, <2>1, <2>3, KnownSaved
  <2>5. StateType'
    BY <1>1, <2>1, <2>3, <2>4 DEF TInv, StateType
  <2>. QED
    BY <1>1, <1>2, <2>2, <2>4, <2>5 DEF TInv, Control
<1>. QED
  BY <1>8, <1>9, <1>10, <1>11, <1>13, <1>14 DEF Refresh

LEMMA CrashTypes == ASSUME TInv, Crash PROVE TInv'
<1>1. /\ Later /\ mode' = "down" /\ known' = [p \in Pages |-> NoSnapshot] /\ dirty' = {}
      /\ conflicted' = {} /\ sync' = NoSync /\ poll' = NoPoll /\ UNCHANGED <<remote, local, stored, gone>>
  BY CountTypes DEF Crash
<1>2. \A s : Given(s) => Given(s)'
  BY <1>1, GivenStays DEF Later, CountType
<1>3. \A p \in Pages : known'[p] = NoSnapshot
  BY <1>1
<1>4. known' \in [Pages -> Pair]
  BY <1>1, NoneTypes
<1>5. StateType'
  BY <1>1, <1>4 DEF TInv, StateType, Later, CountType
<1>6. RevisionsType'
  BY <1>1, <1>2, <1>3 DEF TInv, RevisionsType
<1>7. SyncType' /\ sync'.pc = "idle"
  BY <1>1, NoSyncType DEF SyncType, SyncControl, AtNoPage
<1>8. PollType'
  BY <1>1 DEF PollType, NoPoll
<1>. QED
  BY <1>1, <1>3, <1>5, <1>6, <1>7, <1>8 DEF TInv, Control

LEMMA InitializeTypes == ASSUME TInv, Initialize PROVE TInv'
<1>1. mode # "up" /\ UNCHANGED <<remote, dirty, conflicted, sync, count, gone>>
  BY DEF Initialize, InitBegin, InitWrite, InitMeta, InitBase, InitEnd, Starting
<1>2. /\ SyncType' /\ Later /\ \A s : Given(s) <=> Given(s)'
  BY <1>1, SyncStays, CountSame, GivenSame
<1>3. /\ sync.pc = "idle" /\ dirty = {} /\ conflicted = {} /\ \A p \in Pages : known[p] = NoSnapshot
  BY <1>1 DEF TInv, Control
<1>4. ASSUME PollType', UNCHANGED <<known, stored>>, local' \in [Pages -> FileType],
             mode' \in {"down", "starting", "up"}
      PROVE  TInv'
  <2>1. StateType'
    BY <1>1, <1>4 DEF TInv, StateType
  <2>. QED
    BY <1>1, <1>2, <1>3, <1>4, <2>1, RevisionsStay DEF TInv, Control
<1>5. local \in [Pages -> FileType]
  BY DEF TInv, StateType
<1>6. ASSUME NEW tree, NEW todo, Listing(tree, todo), poll' = [pc |-> "init", tree |-> tree, todo |-> todo],
             mode' = "starting"
      PROVE  PollType'
  <2>1. poll'.pc = "init" /\ poll'.tree = tree /\ poll'.todo = todo
    BY <1>6
  <2>. QED
    BY <1>2, <1>6, <2>1 DEF PollType, Listing
<1>7. CASE InitBegin
  <2>1. CASE mode' = "starting"
    BY <1>4, <1>5, <1>6, <1>7, <2>1, TreeType DEF InitBegin
  <2>2. CASE mode' = "up"
    <3>1. poll'.pc = "idle"
      BY <1>7, <2>2 DEF InitBegin, TInv, PollType
    <3>2. PollType'
      BY <2>2, <3>1 DEF PollType
    <3>. QED
      BY <1>4, <1>5, <1>7, <2>2, <3>2 DEF InitBegin
  <2>. QED
    BY <1>7, <2>1, <2>2 DEF InitBegin
<1>8. ASSUME NEW p \in Pages, InitWrite(p) PROVE TInv'
  <2>1. Listing(poll.tree, poll.todo) /\ p \in poll.todo /\ mode = "starting"
    BY <1>8 DEF InitWrite, Starting, TInv, PollType
  <2>2. p \in DOMAIN poll.tree /\ Listing(poll.tree, poll.todo \ {p})
    BY <2>1 DEF Listing
  <2>3. ASSUME NEW body \in SUBSET Changes, local' = [local EXCEPT ![p] = body], mode' = mode, NEW e,
               e = [page |-> p, snapshot |-> Snapshot(poll.tree[p]), body |-> body],
               poll' = [pc |-> "initMeta", tree |-> poll.tree, todo |-> poll.todo \ {p}, now |-> e]
        PROVE  TInv'
    <3>1. e \in Item /\ Given(e.snapshot) /\ e.page = p /\ e.snapshot = Snapshot(poll.tree[p])
      BY <2>1, <2>2, <2>3, ItemType
    <3>2. /\ poll'.pc = "initMeta" /\ poll'.tree = poll.tree /\ poll'.todo = poll.todo \ {p}
          /\ poll'.now = e
      BY <2>3
    <3>3. PollType'
      BY <1>2, <2>1, <2>2, <2>3, <3>1, <3>2 DEF PollType, Listing, Items
    <3>4. UNCHANGED <<known, stored>> /\ local' \in [Pages -> FileType]
      BY <1>8, <2>3, FileWritten DEF InitWrite
    <3>. QED
      BY <1>4, <2>1, <2>3, <3>3, <3>4
  <2>4. CASE mode' = "down" /\ poll' = NoPoll /\ UNCHANGED local
    <3>1. PollType'
      BY <2>4 DEF PollType, NoPoll
    <3>. QED
      BY <1>4, <1>5, <1>8, <2>4, <3>1 DEF InitWrite
  <2>. QED
    BY <1>8, <2>3, <2>4 DEF InitWrite
<1>9. ASSUME poll.pc \in {"initMeta", "initBase"}
      PROVE  /\ Listing(poll.tree, poll.todo) /\ Items({poll.now})
             /\ poll.now.page \in DOMAIN poll.tree /\ poll.now.page \notin poll.todo
             /\ poll.now.snapshot = Snapshot(poll.tree[poll.now.page])
             /\ poll.now.page \in Pages /\ poll.now.snapshot \in Pair /\ Given(poll.now.snapshot)
             /\ poll.now.body \in SUBSET Changes
             /\ poll = [pc |-> poll.pc, tree |-> poll.tree, todo |-> poll.todo, now |-> poll.now]
  BY <1>9 DEF TInv, PollType, Items, Item
<1>10. CASE InitMeta
  <2>1. /\ poll.pc = "initMeta" /\ stored' = [stored EXCEPT ![poll.now.page].snapshot = poll.now.snapshot]
        /\ UNCHANGED <<local, known, mode>> /\ poll' = [poll EXCEPT !.pc = "initBase"] /\ mode = "starting"
    BY <1>10 DEF InitMeta, Starting
  <2>2. poll' = [pc |-> "initBase", tree |-> poll.tree, todo |-> poll.todo, now |-> poll.now]
    BY <1>9, <2>1
  <2>3. poll'.pc = "initBase" /\ poll'.tree = poll.tree /\ poll'.todo = poll.todo /\ poll'.now = poll.now
    BY <2>2
  <2>4. PollType'
    BY <1>2, <1>9, <2>1, <2>2, <2>3 DEF PollType, Items, Listing
  <2>5. stored' \in [Pages -> [snapshot : Pair, base : SUBSET Changes]] /\ RevisionsType'
    BY <1>1, <1>9, <2>1, SnapshotSaved
  <2>6. StateType'
    BY <1>1, <2>1, <2>5 DEF TInv, StateType
  <2>. QED
    BY <1>1, <1>2, <1>3, <2>1, <2>4, <2>5, <2>6 DEF TInv, Control
<1>11. CASE InitBase
  <2>1. /\ poll.pc = "initBase" /\ stored' = [stored EXCEPT ![poll.now.page].base = poll.now.body]
        /\ UNCHANGED <<local, known, mode>> /\ mode = "starting"
        /\ poll' = [pc |-> "init", tree |-> poll.tree, todo |-> poll.todo]
    BY <1>11 DEF InitBase, Starting
  <2>2. PollType'
    BY <1>6, <1>9, <2>1
  <2>3. /\ stored' \in [Pages -> [snapshot : Pair, base : SUBSET Changes]]
        /\ \A q \in Pages : stored'[q].snapshot = stored[q].snapshot
    BY <1>9, <2>1, BaseSaved
  <2>4. RevisionsType'
    BY <1>1, <1>2, <2>1, <2>3 DEF TInv, RevisionsType
  <2>5. StateType'
    BY <1>1, <2>1, <2>3 DEF TInv, StateType
  <2>. QED
    BY <1>1, <1>2, <1>3, <2>1, <2>2, <2>4, <2>5 DEF TInv, Control
<1>12. CASE InitEnd
  <2>1. /\ poll.pc = "init" /\ mode' = "up" /\ poll' = NoPoll /\ UNCHANGED <<local, stored>>
        /\ Listing(poll.tree, poll.todo)
    BY <1>12 DEF InitEnd, Starting, TInv, PollType
  <2>2. known' = [p \in Pages |-> IF p \in DOMAIN poll.tree THEN Snapshot(poll.tree[p]) ELSE NoSnapshot]
    BY <1>12 DEF InitEnd
  <2>3. ASSUME NEW p \in Pages
        PROVE  known'[p] \in Pair /\ (known'[p] = NoSnapshot \/ Given(known'[p]))
    BY <2>1, <2>2, <2>3, SnapshotType, NoneTypes DEF Listing, Given
  <2>4. known' \in [Pages -> Pair]
    BY <2>2, <2>3
  <2>5. RevisionsType'
    BY <1>1, <2>1, <2>3 DEF TInv, RevisionsType, Given
  <2>6. PollType'
    BY <2>1 DEF PollType, NoPoll
  <2>7. StateType'
    BY <1>1, <2>1, <2>4 DEF TInv, StateType
  <2>. QED
    BY <1>2, <2>1, <2>5, <2>6, <2>7 DEF TInv, Control
<1>. QED
  BY <1>7, <1>8, <1>10, <1>11, <1>12 DEF Initialize

LEMMA TypeInit == Init => TInv
<1>. SUFFICES ASSUME Init PROVE TInv
  OBVIOUS
<1>1. /\ [id |-> 1, rev |-> 1, body |-> {}] \in PageType
      /\ [snapshot |-> NoSnapshot, base |-> {}] \in [snapshot : Pair, base : SUBSET Changes]
  BY NoneTypes DEF PageType
<1>2. StateType
  <2>1. remote \in [Pages -> PageType] /\ local \in [Pages -> FileType] /\ known \in [Pages -> Pair]
        /\ stored \in [Pages -> [snapshot : Pair, base : SUBSET Changes]]
    BY <1>1, NoneTypes DEF Init
  <2>2. count \in CountType
    BY Numbers DEF Init, CountType
  <2>. QED
    BY <2>1, <2>2 DEF Init, StateType, CountType
<1>3. RevisionsType
  BY DEF Init, RevisionsType, Given
<1>4. SyncType /\ sync.pc = "idle"
  BY NoSyncType DEF Init, SyncType, SyncControl, AtNoPage
<1>5. PollType
  BY DEF Init, PollType, NoPoll
<1>. QED
  BY <1>2, <1>3, <1>4, <1>5 DEF Init, TInv, Control

LEMMA TypeStep == TInv /\ [Next]_vars => TInv'
<1>. SUFFICES ASSUME TInv, [Next]_vars PROVE TInv'
  OBVIOUS
<1>1. CASE UNCHANGED vars
  <2>1. StateType' /\ Later
    BY <1>1, CountSame DEF vars, TInv, StateType
  <2>. QED
    BY <1>1, <2>1, RevisionsStay, SyncStays, PollStays DEF vars, TInv, Control
<1>2. CASE Next
  BY <1>2, UserTypes, ForeignTypes, SyncTypes, RefreshTypes, CrashTypes, InitializeTypes DEF Next
<1>. QED
  BY <1>1, <1>2

LEMMA TypeImplied == TInv => TypeOK
<1>. SUFFICES ASSUME TInv PROVE TypeOK
  OBVIOUS
<1>1. ASSUME NEW p \in Pages
      PROVE  /\ remote[p].body \subseteq Changes /\ (local[p] = NoFile \/ local[p] \subseteq Changes)
             /\ stored[p].base \subseteq Changes
             /\ known[p].rev <= count.rev /\ stored[p].snapshot.rev <= count.rev
  <2>1. remote[p] \in PageType /\ local[p] \in FileType /\ stored[p].base \in SUBSET Changes
        /\ known[p] \in Pair /\ stored[p].snapshot \in Pair /\ count.rev \in Nat
    BY DEF TInv, StateType
  <2>2. \A s \in Pair : s = NoSnapshot \/ Given(s) => s.rev <= count.rev
    BY <2>1 DEF NoSnapshot, Given, Pair
  <2>. QED
    BY <2>1, <2>2 DEF TInv, RevisionsType, PageType, FileType
<1>2. dirty \cup conflicted \cup sync.batch \subseteq Pages
  BY DEF TInv, StateType, SyncType, SyncRecord
<1>. QED
  BY <1>1, <1>2 DEF TypeOK, TInv, StateType

(* What is kept of a page are changes, and no snapshot, in memory or on    *)
(* disk, names a revision the server has not given (meta.rs, page_index.rs *)
(* and session.rs).                                                        *)
THEOREM WikiTypeCorrect == Spec => []TypeOK
<1>1. Spec => []TInv
  BY TypeInit, TypeStep, PTL DEF Spec
<1>. QED
  BY <1>1, TypeImplied, PTL


(***************************************************************************)
(* Where a change is.  What A has of a page, B has too or it is gone, for  *)
(* the changes of the mount and, with one more window, for all.            *)
(***************************************************************************)
W(p, kinds) == \E k \in kinds : <<p, k>> \in windows
Over == {"applied", "ignored"}
OfEdits == [of |-> Edits, but |-> {"applied", "ignored", "crashed"}]
OfAll == [of |-> Changes, but |-> {"posted", "applied", "ignored", "crashed"}]
Views == {OfEdits, OfAll}
Keeps(v, p, A, B) == A \cap v.of \subseteq B \cup gone \/ W(p, v.but)
AllKeep(p, A, B) == \A v \in Views : Keeps(v, p, A, B)

\* A revision is not ahead of the page, and is the page's.
Past(p, s) == remote[p] = Absent \/ s.rev \leq remote[p].rev
Is(p, s) == remote[p].rev = s.rev

(***************************************************************************)
(* Where a sync is.  Until it has written an accepted text, the copy it    *)
(* read stands beside the file.                                            *)
(***************************************************************************)
Settled(p) == p \notin dirty \cup conflicted \cup sync.todo \cup sync.conflicts
SyncIn(p, steps) == sync.pc \in steps /\ sync.page = p
Late(p) == SyncIn(p, {"meta", "base", "write"})
Merging(p) == Late(p) /\ sync.act = "merge"
Written == sync.act = "accept" /\ sync.pc \in {"meta", "base"}
Current == IF Written THEN sync.bytes ELSE sync.mine
Copies(p) == {local[p]} \cup (IF SyncIn(p, Steps) /\ ~Written THEN {sync.mine} ELSE {})
NowAt(p, steps) == poll.pc \in steps /\ poll.now.page = p

\* A page that is not on its way has been uploaded.
MayLack == {"skipped", "applied", "ignored", "crashed"}
Uploaded(p) ==
  Settled(p) => local[p] \cap Edits \subseteq remote[p].body \cup gone \/ W(p, MayLack)

\* The known revision is the file's text.
MayDiffer == {"posted", "applied", "ignored", "skipped"}
SameText(p) == local[p] = NoFile \/ local[p] = remote[p].body \/ W(p, MayDiffer)
KnownFile(p) == Settled(p) /\ known[p] # NoSnapshot /\ Is(p, known[p]) => SameText(p)

\* The base is a common ancestor of the page and the file.
BaseKept(p) ==
  /\ AllKeep(p, stored[p].base, remote[p].body)
  /\ Merging(p) \/ \A t \in Copies(p) : AllKeep(p, stored[p].base, t)

\* The file has all that a page of a saved revision has.
SnapshotKept(p, s) ==
  s # NoSnapshot =>
    /\ Past(p, s)
    /\ Is(p, s) => Merging(p) \/ \A t \in Copies(p) : Keeps(OfAll, p, remote[p].body, t)

\* What is on disk is not ahead of the index, but while a state is saved.
StoredIsKnown(p) ==
  \/ known[p] = NoSnapshot
  \/ stored[p].snapshot.rev \leq known[p].rev
  \/ W(p, OfAll.but)
  \/ SyncIn(p, {"base"})
  \/ NowAt(p, {"base"}) /\ stored[p].snapshot.rev \leq poll.now.snapshot.rev

PageKept(p) ==
  /\ Uploaded(p) /\ KnownFile(p) /\ BaseKept(p) /\ StoredIsKnown(p)
  /\ SnapshotKept(p, known[p]) /\ SnapshotKept(p, stored[p].snapshot)

(***************************************************************************)
(* What a sync knows of its page: the file, the page it got, the text it   *)
(* will leave and the revision it will save.                               *)
(***************************************************************************)
SavedUpTo(p, n) == (known[p].rev \leq n /\ stored[p].snapshot.rev \leq n) \/ W(p, Over)
SyncFile(p) ==
  SyncIn(p, Steps) => /\ AllKeep(p, Current, local[p])
                      /\ p \in dirty \/ local[p] = Current \/ W(p, Over)
SyncGot(p) ==
  SyncIn(p, {"get"}) =>
    /\ Past(p, sync.snapshot)
    /\ Is(p, sync.snapshot) => Keeps(OfAll, p, remote[p].body, sync.mine)
SyncSeen(p) ==
  SyncIn(p, {"decide", "post"}) =>
    /\ Past(p, sync.seen) /\ SavedUpTo(p, sync.seen.rev)
    /\ Is(p, sync.seen) => remote[p].body = sync.seen.body
SyncDecides(p) ==
  SyncIn(p, {"decide"}) =>
    /\ sync.seen.body \subseteq remote[p].body \cup gone
    /\ sync.seen.rev = sync.snapshot.rev => Keeps(OfAll, p, sync.seen.body, sync.mine)
    /\ AllKeep(p, stored[p].base, sync.seen.body)
SyncPosts(p) ==
  SyncIn(p, {"post"}) => sync.act = "conflict" \/ Keeps(OfAll, p, sync.seen.body, sync.bytes)
SyncBytes(p) ==
  SyncIn(p, {"post", "meta", "base", "write"}) =>
    /\ AllKeep(p, sync.mine, sync.bytes)
    /\ sync.act \in {"upload", "conflict", "synced"} => sync.bytes = sync.mine
SyncSaved(p) ==
  Late(p) =>
    /\ Past(p, sync.saved) /\ SavedUpTo(p, sync.saved.rev)
    /\ sync.bytes \subseteq remote[p].body \cup gone
    /\ Is(p, sync.saved) => remote[p].body = sync.bytes \/ W(p, {"posted"})
SyncMerged(p) ==
  SyncIn(p, {"write"}) /\ sync.act = "merge" =>
    (known[p] = sync.saved /\ stored[p].base = sync.bytes) \/ W(p, Over)
SyncKept(p) ==
  /\ SyncFile(p) /\ SyncGot(p) /\ SyncSeen(p) /\ SyncDecides(p) /\ SyncPosts(p) /\ SyncBytes(p)
  /\ SyncSaved(p) /\ SyncMerged(p)

(***************************************************************************)
(* What a refresh has read and not applied: an ancestor of the page and a  *)
(* descendant of the base, unless the page was saved since.                *)
(***************************************************************************)
ItemOf(p, body) == [page |-> p, snapshot |-> Snapshot(poll.tree[p]), body |-> body]
Listed == {ItemOf(p, poll.tree[p].body) : p \in poll.todo}
Unapplied == IF poll.pc = "read" THEN Listed \cup poll.batch
             ELSE IF poll.pc = "apply" THEN poll.batch
             ELSE IF poll.pc \in {"meta", "base"} THEN poll.batch \ {poll.now}
             ELSE {}
SavedSince(p, n) == SnapshotFor(p).rev > n \/ (Late(p) /\ sync.saved.rev > n)
ItemKept(p, e) ==
  LET n == e.snapshot.rev
  IN  /\ Past(p, e.snapshot)
      /\ Is(p, e.snapshot) => remote[p].body = e.body
      /\ \/ SavedSince(p, n)
         \/ AllKeep(p, e.body, remote[p].body) /\ AllKeep(p, stored[p].base, e.body)
      /\ Late(p) => sync.saved.rev > n \/ AllKeep(p, sync.bytes, e.body)
      /\ SyncIn(p, {"decide"}) => sync.seen.rev > n \/ AllKeep(p, sync.seen.body, e.body)
ItemsKept(p) == \A e \in Unapplied : e.page = p => ItemKept(p, e)

\* The item that is being applied: the file has it.
NowKept(p) ==
  NowAt(p, {"meta", "base"}) =>
    LET e == poll.now
    IN  /\ Past(p, e.snapshot)
        /\ Is(p, e.snapshot) => remote[p].body = e.body
        /\ AllKeep(p, e.body, remote[p].body)
        /\ \A t \in Copies(p) : AllKeep(p, e.body, t)
        /\ SyncIn(p, {"decide", "post"}) => e.snapshot.rev \leq sync.seen.rev \/ W(p, Over)
        /\ Late(p) => e.snapshot.rev \leq sync.saved.rev \/ W(p, Over)
        /\ Settled(p) /\ Is(p, e.snapshot) => SameText(p)

(***************************************************************************)
(* What an initialization has read, written and saved.                     *)
(***************************************************************************)
StartTodo(p) ==
  p \in poll.todo =>
    /\ Is(p, poll.tree[p]) => remote[p].body = poll.tree[p].body
    /\ poll.tree[p].body \subseteq remote[p].body \cup gone
    /\ AllKeep(p, stored[p].base, poll.tree[p].body)
StartDone(p) ==
  p \in DOMAIN poll.tree =>
    /\ Past(p, poll.tree[p]) /\ stored[p].snapshot.rev \leq poll.tree[p].rev
    /\ p \notin poll.todo /\ Is(p, poll.tree[p]) => local[p] = remote[p].body
StartNow(p) ==
  NowAt(p, {"initMeta", "initBase"}) =>
    local[p] = poll.now.body /\ poll.now.body \subseteq remote[p].body \cup gone
StartKept(p) == mode = "starting" => StartTodo(p) /\ StartDone(p) /\ StartNow(p)

\* One item per page.
PollShape ==
  /\ \A e, f \in Unapplied : e.page = f.page => e = f
  /\ poll.pc = "read" => \A e \in poll.batch : e.page \notin poll.todo
  /\ poll.pc \in {"meta", "base"} => \A e \in Unapplied : e.page # poll.now.page

Kept(p) == PageKept(p) /\ SyncKept(p) /\ ItemsKept(p) /\ NowKept(p) /\ StartKept(p)
KInv == PollShape /\ \A p \in Pages : Kept(p)

(***************************************************************************)
(* Lemmas about where a change is.                                         *)
(***************************************************************************)
Grown == gone \subseteq gone' /\ windows \subseteq windows'

USE DEF Over

LEMMA ViewFacts ==
  /\ OfAll \in Views /\ OfEdits \in Views
  /\ OfAll.of = Changes /\ OfAll.but = {"posted", "applied", "ignored", "crashed"}
  /\ OfEdits.of = Edits /\ OfEdits.but = {"applied", "ignored", "crashed"}
  /\ \A v \in Views : v.of \subseteq Changes /\ Over \subseteq v.but /\ "crashed" \in v.but
BY ChangesType DEF Views, OfAll, OfEdits

LEMMA KeepsOn ==
  ASSUME NEW v, NEW p, NEW A, NEW B, NEW C, Keeps(v, p, A, B), Keeps(v, p, B, C)
  PROVE  Keeps(v, p, A, C)
BY DEF Keeps

LEMMA AllKeepOn ==
  ASSUME NEW p, NEW A, NEW B, NEW C, AllKeep(p, A, B), AllKeep(p, B, C)
  PROVE  AllKeep(p, A, C)
BY KeepsOn DEF AllKeep

LEMMA KeepsSub ==
  ASSUME NEW p, NEW A, NEW B, A \cap Changes \subseteq B \cup gone
  PROVE  AllKeep(p, A, B)
BY ViewFacts DEF AllKeep, Keeps

LEMMA AllOfAll == ASSUME NEW p, NEW A, NEW B, AllKeep(p, A, B) PROVE Keeps(OfAll, p, A, B)
BY ViewFacts DEF AllKeep

LEMMA KeepsHit ==
  ASSUME NEW p, W(p, Over) \/ W(p, {"crashed"})
  PROVE  (\A A, B : AllKeep(p, A, B)) /\ (\A A, B : Keeps(OfAll, p, A, B))
<1>1. \A v \in Views : W(p, v.but)
  BY ViewFacts DEF W
<1>. QED
  BY <1>1, ViewFacts DEF AllKeep, Keeps

LEMMA WStays == ASSUME Grown PROVE \A p, kinds : W(p, kinds) => W(p, kinds)'
BY DEF W, Grown

\* What was kept is kept, where a text gives way to one that has its changes.
LEMMA KeepsStay ==
  ASSUME Grown, NEW p, NEW B, NEW C, B \cap Changes \subseteq C \cup gone'
  PROVE  /\ \A A : Keeps(OfAll, p, A, B) => Keeps(OfAll, p, A, C)'
         /\ \A A : AllKeep(p, A, B) => AllKeep(p, A, C)'
<1>1. ASSUME NEW v \in Views, NEW A, Keeps(v, p, A, B) PROVE Keeps(v, p, A, C)'
  <2>1. CASE W(p, v.but)
    BY <2>1, WStays DEF Keeps
  <2>2. CASE A \cap v.of \subseteq B \cup gone
    BY <2>2, ViewFacts DEF Keeps, Grown
  <2>. QED
    BY <1>1, <2>1, <2>2 DEF Keeps
<1>2. Views' = Views /\ OfAll' = OfAll
  BY DEF Views, OfAll, OfEdits
<1>. QED
  BY <1>1, <1>2, ViewFacts DEF AllKeep

LEMMA AllStay ==
  ASSUME Grown
  PROVE  /\ \A p, A, B : Keeps(OfAll, p, A, B) => Keeps(OfAll, p, A, B)'
         /\ \A p, A, B : AllKeep(p, A, B) => AllKeep(p, A, B)'
BY KeepsStay

(***************************************************************************)
(* What a step leaves of a page, it leaves as well kept as it was.         *)
(***************************************************************************)
SameRemote(q) == remote'[q] = remote[q]
SameSaved(q) == known'[q] = known[q] /\ stored'[q] = stored[q]
StillMerging(q) == Merging(q) => Merging(q)'
NoCopies(q) == Copies(q)' \subseteq Copies(q)
NotSettled(q) == Settled(q)' => Settled(q)

LEMMA RevisionsSame ==
  ASSUME NEW q, SameRemote(q)
  PROVE  \A s : (Is(q, s) <=> Is(q, s)') /\ (Past(q, s) <=> Past(q, s)')
BY DEF SameRemote, Is, Past

LEMMA TextStays ==
  ASSUME NEW q, Grown, SameRemote(q), local'[q] = local[q]
  PROVE  SameText(q) => SameText(q)'
BY WStays DEF SameText, SameRemote, MayDiffer

LEMMA UploadedStays ==
  ASSUME NEW q, Grown, SameRemote(q), local'[q] = local[q], NotSettled(q)
  PROVE  /\ Uploaded(q) => Uploaded(q)'
         /\ known'[q] = known[q] /\ KnownFile(q) => KnownFile(q)'
<1>1. W(q, MayLack) => W(q, MayLack)'
  BY WStays DEF MayLack
<1>2. Uploaded(q) => Uploaded(q)'
  BY <1>1 DEF Uploaded, Grown, SameRemote, NotSettled
<1>. QED
  BY <1>2, TextStays, RevisionsSame DEF KnownFile, NotSettled

LEMMA BaseStays ==
  ASSUME NEW q, Grown, SameRemote(q), stored'[q].base = stored[q].base, StillMerging(q), NoCopies(q)
  PROVE  BaseKept(q) => BaseKept(q)'
BY AllStay DEF BaseKept, SameRemote, StillMerging, NoCopies

LEMMA SnapshotStays ==
  ASSUME NEW q, Grown, SameRemote(q), StillMerging(q), NoCopies(q)
  PROVE  \A s : SnapshotKept(q, s) => SnapshotKept(q, s)'
BY AllStay, RevisionsSame DEF SnapshotKept, SameRemote, StillMerging, NoCopies

LEMMA StoredStays ==
  ASSUME NEW q, Grown, SameSaved(q), SyncIn(q, {"base"}) => SyncIn(q, {"base"})',
         NowAt(q, {"base"}) => NowAt(q, {"base"})' /\ poll'.now = poll.now
  PROVE  StoredIsKnown(q) => StoredIsKnown(q)'
<1>1. W(q, OfAll.but) => W(q, OfAll.but)'
  BY WStays, ViewFacts DEF OfAll
<1>. QED
  BY <1>1 DEF StoredIsKnown, SameSaved

PollSame(q) == poll' = poll \/ ~(NowAt(q, {"meta", "base"}) \/ NowAt(q, {"meta", "base"})')

LEMMA PageStays ==
  ASSUME NEW q, Grown, SameRemote(q), SameSaved(q), local'[q] = local[q], StillMerging(q),
         NoCopies(q), NotSettled(q), SyncIn(q, {"base"}) => SyncIn(q, {"base"})', PollSame(q)
  PROVE  PageKept(q) => PageKept(q)'
<1>1. NowAt(q, {"base"}) => NowAt(q, {"base"})' /\ poll'.now = poll.now
  BY DEF PollSame, NowAt
<1>2. stored'[q].base = stored[q].base
  BY DEF SameSaved
<1>3. known'[q] = known[q] /\ stored'[q].snapshot = stored[q].snapshot
  BY DEF SameSaved
<1>4. SnapshotKept(q, known[q]) => SnapshotKept(q, known[q])'
  BY <1>3, SnapshotStays
<1>5. SnapshotKept(q, stored[q].snapshot) => SnapshotKept(q, stored[q].snapshot)'
  BY <1>3, SnapshotStays
<1>. QED
  BY <1>1, <1>2, <1>3, <1>4, <1>5, UploadedStays, BaseStays, StoredStays DEF PageKept

\* A sync that is not at the page has nothing to keep of it.
LEMMA SyncElsewhere == ASSUME NEW q, ~SyncIn(q, Steps) PROVE ~Late(q) /\ ~Merging(q) /\ SyncKept(q)
BY DEF SyncIn, Steps, SyncKept, SyncFile, SyncGot, SyncSeen, SyncDecides, SyncPosts, SyncBytes, SyncSaved,
       SyncMerged, Late, Merging

LEMMA SyncLeaves == ASSUME NEW q, ~SyncIn(q, Steps)' PROVE ~Late(q)' /\ ~Merging(q)' /\ SyncKept(q)'
BY DEF SyncIn, Steps, SyncKept, SyncFile, SyncGot, SyncSeen, SyncDecides, SyncPosts, SyncBytes, SyncSaved,
       SyncMerged, Late, Merging

LEMMA CopiesOf ==
  ASSUME NEW q
  PROVE  /\ ~SyncIn(q, Steps) \/ Written => Copies(q) = {local[q]}
         /\ SyncIn(q, Steps) /\ ~Written => Copies(q) = {local[q], sync.mine}
         /\ local[q] \in Copies(q)
BY DEF Copies

LEMMA CopiesAfter ==
  ASSUME NEW q
  PROVE  /\ ~SyncIn(q, Steps)' \/ Written' => Copies(q)' = {local'[q]}
         /\ SyncIn(q, Steps)' /\ ~Written' => Copies(q)' = {local'[q], sync'.mine}
BY DEF Copies

SameSync(q) == sync' = sync \/ ~(SyncIn(q, Steps) \/ SyncIn(q, Steps)')

LEMMA SyncFrame ==
  ASSUME NEW q, SameSync(q), local'[q] = local[q]
  PROVE  /\ StillMerging(q) /\ NoCopies(q)
         /\ \A s \in SUBSET Steps : SyncIn(q, s) <=> SyncIn(q, s)'
         /\ Late(q) <=> Late(q)'
<1>1. CASE sync' = sync
  BY <1>1 DEF StillMerging, NoCopies, Merging, Late, SyncIn, Copies, Written
<1>2. CASE ~(SyncIn(q, Steps) \/ SyncIn(q, Steps)')
  <2>1. \A s \in SUBSET Steps : ~SyncIn(q, s) /\ ~SyncIn(q, s)'
    BY <1>2 DEF SyncIn
  <2>. QED
    BY <1>2, <2>1, SyncElsewhere, SyncLeaves, CopiesOf, CopiesAfter DEF StillMerging, NoCopies
<1>. QED
  BY <1>1, <1>2 DEF SameSync

LEMMA SyncKeptStays ==
  ASSUME NEW q, Grown, SameSync(q), SameRemote(q), SameSaved(q), local'[q] = local[q],
         q \in dirty => q \in dirty' \/ ~SyncIn(q, Steps), SyncKept(q)
  PROVE  SyncKept(q)'
<1>1. CASE ~SyncIn(q, Steps)'
  BY <1>1, SyncLeaves
<1>2. CASE sync' = sync /\ SyncIn(q, Steps)
  <2>1. \A s : SyncIn(q, s) <=> SyncIn(q, s)'
    BY <1>2 DEF SyncIn
  <2>2. /\ \A A, B : AllKeep(q, A, B) => AllKeep(q, A, B)'
        /\ \A A, B : Keeps(OfAll, q, A, B) => Keeps(OfAll, q, A, B)'
    BY AllStay
  <2>3. W(q, Over) => W(q, Over)'
    BY WStays
  <2>4. W(q, {"posted"}) => W(q, {"posted"})'
    BY WStays
  <2>5. \A n : SavedUpTo(q, n) => SavedUpTo(q, n)'
    BY <2>3 DEF SavedUpTo, SameSaved
  <2>6. Current' = Current /\ (Late(q) <=> Late(q)')
    BY <1>2 DEF Current, Written, Late, SyncIn
  <2>7. SyncFile(q)'
    BY <1>2, <2>1, <2>2, <2>3, <2>6 DEF SyncKept, SyncFile
  <2>8. SyncGot(q)'
    BY <1>2, <2>1, <2>2, RevisionsSame DEF SyncKept, SyncGot, SameRemote
  <2>9. SyncSeen(q)'
    BY <1>2, <2>1, <2>5, RevisionsSame DEF SyncKept, SyncSeen, SameRemote
  <2>10. SyncDecides(q)'
    BY <1>2, <2>1, <2>2 DEF SyncKept, SyncDecides, SameRemote, SameSaved, Grown
  <2>11. SyncPosts(q)'
    BY <1>2, <2>1, <2>2 DEF SyncKept, SyncPosts
  <2>12. SyncBytes(q)'
    BY <1>2, <2>1, <2>2 DEF SyncKept, SyncBytes
  <2>13. SyncSaved(q)'
    BY <1>2, <2>4, <2>5, <2>6, RevisionsSame DEF SyncKept, SyncSaved, SameRemote, Grown
  <2>14. SyncMerged(q)'
    BY <1>2, <2>1, <2>3 DEF SyncKept, SyncMerged, SameSaved
  <2>. QED
    BY <2>7, <2>8, <2>9, <2>10, <2>11, <2>12, <2>13, <2>14 DEF SyncKept
<1>. QED
  BY <1>1, <1>2 DEF SameSync, SyncIn

\* What a sync knows of its page, for the items of a refresh.
SyncSees(q) ==
  /\ Late(q) <=> Late(q)'
  /\ Late(q)' => sync'.saved = sync.saved /\ sync'.bytes = sync.bytes
  /\ SyncIn(q, {"decide"})' => SyncIn(q, {"decide"})
  /\ SyncIn(q, {"decide", "post"})' => SyncIn(q, {"decide", "post"}) /\ sync'.seen = sync.seen

LEMMA SyncSame == ASSUME NEW q, SameSync(q) PROVE SyncSees(q)
<1>1. CASE sync' = sync
  BY <1>1 DEF SyncSees, Late, SyncIn
<1>2. CASE ~(SyncIn(q, Steps) \/ SyncIn(q, Steps)')
  BY <1>2 DEF SyncSees, Late, SyncIn, Steps
<1>. QED
  BY <1>1, <1>2 DEF SameSync

LEMMA SnapshotForSame == ASSUME NEW q, SameSaved(q) PROVE SnapshotFor(q)' = SnapshotFor(q)
BY DEF SameSaved, SnapshotFor

LEMMA ItemStays ==
  ASSUME NEW q, Grown, SameRemote(q), SameSaved(q), SyncSees(q)
  PROVE  \A e : ItemKept(q, e) => ItemKept(q, e)'
<1>. SUFFICES ASSUME NEW e, ItemKept(q, e) PROVE ItemKept(q, e)'
  OBVIOUS
<1>1. /\ \A A, B : AllKeep(q, A, B) => AllKeep(q, A, B)'
      /\ \A s : (Is(q, s) <=> Is(q, s)') /\ (Past(q, s) <=> Past(q, s)')
  BY AllStay, RevisionsSame
<1>2. \A n : SavedSince(q, n) => SavedSince(q, n)'
  BY SnapshotForSame DEF SavedSince, SyncSees
<1>3. remote'[q] = remote[q] /\ stored'[q].base = stored[q].base
  BY DEF SameRemote, SameSaved
<1>4. Late(q)' => sync'.saved.rev > e.snapshot.rev \/ AllKeep(q, sync.bytes, e.body)'
  BY <1>1 DEF ItemKept, SyncSees
<1>5. SyncIn(q, {"decide"})' => sync'.seen.rev > e.snapshot.rev \/ AllKeep(q, sync.seen.body, e.body)'
  <2>1. SyncIn(q, {"decide"})' => SyncIn(q, {"decide", "post"})'
    BY DEF SyncIn
  <2>. QED
    BY <1>1, <2>1 DEF ItemKept, SyncSees
<1>6. \/ SavedSince(q, e.snapshot.rev)'
      \/ AllKeep(q, e.body, remote[q].body)' /\ AllKeep(q, stored[q].base, e.body)'
  <2>1. CASE SavedSince(q, e.snapshot.rev)
    BY <1>2, <2>1
  <2>2. CASE AllKeep(q, e.body, remote[q].body) /\ AllKeep(q, stored[q].base, e.body)
    BY <1>1, <1>3, <2>2
  <2>. QED
    BY <2>1, <2>2 DEF ItemKept
<1>7. Past(q, e.snapshot)' /\ (Is(q, e.snapshot)' => remote'[q].body = e.body)
  BY <1>1, <1>3 DEF ItemKept
<1>8. /\ Late(q)' => sync'.saved.rev > e.snapshot.rev \/ AllKeep(q, sync.bytes, e.body)'
      /\ SyncIn(q, {"decide"})' => sync'.seen.rev > e.snapshot.rev \/ AllKeep(q, sync.seen.body, e.body)'
  BY <1>4, <1>5
<1>. QED
  BY <1>6, <1>7, <1>8 DEF ItemKept

LEMMA ItemsStay ==
  ASSUME NEW q, Grown, SameRemote(q), SameSaved(q), SyncSees(q),
         \A e \in Unapplied' : e.page = q => e \in Unapplied, ItemsKept(q)
  PROVE  ItemsKept(q)'
BY ItemStays DEF ItemsKept

LEMMA NowStays ==
  ASSUME NEW q, Grown, SameRemote(q), NoCopies(q), SyncSees(q), NowKept(q),
         (local'[q] = local[q] /\ NotSettled(q)) \/ ~Settled(q)',
         NowAt(q, {"meta", "base"})' => NowAt(q, {"meta", "base"}) /\ poll'.now = poll.now
  PROVE  NowKept(q)'
<1>. SUFFICES ASSUME NowAt(q, {"meta", "base"})', NEW e, e = poll.now PROVE NowKept(q)'
  BY DEF NowKept
<1>0. NowAt(q, {"meta", "base"}) /\ poll'.now = e
  OBVIOUS
<1>1. /\ \A A, B : AllKeep(q, A, B) => AllKeep(q, A, B)'
      /\ \A s : (Is(q, s) <=> Is(q, s)') /\ (Past(q, s) <=> Past(q, s)')
  BY AllStay, RevisionsSame
<1>2. W(q, Over) => W(q, Over)'
  BY WStays
<1>3. /\ Past(q, e.snapshot) /\ (Is(q, e.snapshot) => remote[q].body = e.body)
      /\ AllKeep(q, e.body, remote[q].body)
      /\ \A t \in Copies(q) : AllKeep(q, e.body, t)
      /\ SyncIn(q, {"decide", "post"}) => e.snapshot.rev \leq sync.seen.rev \/ W(q, Over)
      /\ Late(q) => e.snapshot.rev \leq sync.saved.rev \/ W(q, Over)
      /\ Settled(q) /\ Is(q, e.snapshot) => SameText(q)
  BY <1>0 DEF NowKept
<1>4. /\ Past(q, e.snapshot)' /\ (Is(q, e.snapshot)' => remote'[q].body = e.body)
      /\ AllKeep(q, e.body, remote[q].body)'
  BY <1>1, <1>3 DEF SameRemote
<1>5. \A t \in Copies(q)' : AllKeep(q, e.body, t)'
  BY <1>1, <1>3 DEF NoCopies
<1>6. /\ SyncIn(q, {"decide", "post"})' => e.snapshot.rev \leq sync'.seen.rev \/ W(q, Over)'
      /\ Late(q)' => e.snapshot.rev \leq sync'.saved.rev \/ W(q, Over)'
  BY <1>2, <1>3 DEF SyncSees
<1>7. Settled(q)' /\ Is(q, e.snapshot)' => SameText(q)'
  BY <1>1, <1>3, TextStays DEF NotSettled
<1>. QED
  BY <1>0, <1>4, <1>5, <1>6, <1>7 DEF NowKept, SameRemote

LEMMA StartStays ==
  ASSUME NEW q, Grown, SameRemote(q), SameSaved(q), local'[q] = local[q], StartKept(q),
         mode' # "starting" \/ (mode' = mode /\ poll' = poll)
  PROVE  StartKept(q)'
<1>. SUFFICES ASSUME mode = "starting", mode' = "starting", poll' = poll
              PROVE  StartTodo(q)' /\ StartDone(q)' /\ StartNow(q)'
  BY DEF StartKept
<1>0. StartTodo(q) /\ StartDone(q) /\ StartNow(q)
  BY DEF StartKept
<1>1. /\ \A A, B : AllKeep(q, A, B) => AllKeep(q, A, B)'
      /\ \A s : (Is(q, s) <=> Is(q, s)') /\ (Past(q, s) <=> Past(q, s)')
  BY AllStay, RevisionsSame
<1>2. StartTodo(q)'
  BY <1>0, <1>1 DEF StartTodo, SameRemote, SameSaved, Grown
<1>3. StartDone(q)'
  BY <1>0, <1>1 DEF StartDone, SameRemote, SameSaved
<1>4. StartNow(q)'
  BY <1>0 DEF StartNow, SameRemote, Grown, NowAt
<1>. QED
  BY <1>2, <1>3, <1>4

\* A page a step leaves alone.
Untouched(q) ==
  /\ Grown /\ SameRemote(q) /\ SameSaved(q) /\ local'[q] = local[q]
  /\ SameSync(q) /\ NotSettled(q) /\ (q \in dirty => q \in dirty' \/ ~SyncIn(q, Steps))
  /\ PollSame(q) /\ \A e \in Unapplied' : e.page = q => e \in Unapplied
  /\ mode' # "starting" \/ (mode' = mode /\ poll' = poll)

LEMMA Elsewhere == ASSUME NEW q, Untouched(q), Kept(q) PROVE Kept(q)'
<1>1. /\ Grown /\ SameRemote(q) /\ SameSaved(q) /\ local'[q] = local[q] /\ SameSync(q)
      /\ NotSettled(q) /\ (q \in dirty => q \in dirty' \/ ~SyncIn(q, Steps))
      /\ PollSame(q) /\ (\A e \in Unapplied' : e.page = q => e \in Unapplied)
      /\ mode' # "starting" \/ (mode' = mode /\ poll' = poll)
  BY DEF Untouched
<1>2. PageKept(q) /\ SyncKept(q) /\ ItemsKept(q) /\ NowKept(q) /\ StartKept(q)
  BY DEF Kept
<1>3. /\ StillMerging(q) /\ NoCopies(q) /\ SyncSees(q)
      /\ SyncIn(q, {"base"}) => SyncIn(q, {"base"})'
  BY <1>1, SyncFrame, SyncSame DEF Steps
<1>4. NowAt(q, {"meta", "base"})' => NowAt(q, {"meta", "base"}) /\ poll'.now = poll.now
  BY <1>1 DEF PollSame, NowAt
<1>5. PageKept(q)'
  BY <1>1, <1>2, <1>3, PageStays
<1>6. SyncKept(q)'
  BY <1>1, <1>2, SyncKeptStays
<1>7. ItemsKept(q)'
  BY <1>1, <1>2, <1>3, ItemsStay
<1>8. NowKept(q)'
  BY <1>1, <1>2, <1>3, <1>4, NowStays
<1>9. StartKept(q)'
  BY <1>1, <1>2, StartStays
<1>. QED
  BY <1>5, <1>6, <1>7, <1>8, <1>9 DEF Kept

(***************************************************************************)
(* The mount's user and the other editors.                                 *)
(***************************************************************************)
LEMMA ShapeStays == ASSUME PollShape, UNCHANGED poll PROVE PollShape' /\ Unapplied' = Unapplied
BY DEF PollShape, Unapplied, Listed, ItemOf

LEMMA UnappliedType == ASSUME TInv PROVE \A e \in Unapplied : e \in Item /\ Given(e.snapshot)
<1>1. ASSUME poll.pc = "read", NEW p \in poll.todo
      PROVE  /\ ItemOf(p, poll.tree[p].body) \in Item
             /\ Given(ItemOf(p, poll.tree[p].body).snapshot)
  <2>1. Listing(poll.tree, poll.todo)
    BY <1>1 DEF TInv, PollType
  <2>2. p \in DOMAIN poll.tree /\ poll.tree[p].body \in SUBSET Changes
    BY <1>1, <2>1 DEF Listing, PageType
  <2>. QED
    BY <2>1, <2>2, ItemType DEF ItemOf
<1>. QED
  BY <1>1 DEF Unapplied, Listed, TInv, PollType, Items

LEMMA NoFileKeeps == NoFile \cap Changes = {}
BY ChangesType DEF NoFile

LEMMA UserEffect ==
  ASSUME TInv, NEW p \in Pages, Edit(p) \/ Remove(p)
  PROVE  /\ Grown /\ local[p] \cap Changes \subseteq local'[p] \cup gone' /\ p \in dirty'
         /\ \A q \in Pages : q # p => local'[q] = local[q] /\ (q \in dirty' <=> q \in dirty)
         /\ mode = "up" /\ UNCHANGED <<remote, known, stored, mode, conflicted, sync, poll>>
BY NoFileKeeps DEF Edit, Remove, Grown, TInv, StateType, Text

LEMMA UserKept ==
  ASSUME TInv, KInv, NEW p \in Pages, Edit(p) \/ Remove(p) PROVE KInv'
<1>1. /\ Grown /\ local[p] \cap Changes \subseteq local'[p] \cup gone' /\ p \in dirty'
      /\ \A q \in Pages : q # p => local'[q] = local[q] /\ (q \in dirty' <=> q \in dirty)
      /\ mode = "up" /\ UNCHANGED <<remote, known, stored, mode, conflicted, sync, poll>>
  BY UserEffect
<1>2. PollShape' /\ Unapplied' = Unapplied
  BY <1>1, ShapeStays DEF KInv
<1>3. ASSUME NEW q \in Pages, q # p PROVE Kept(q)'
  <2>1. Untouched(q)
    BY <1>1, <1>2, <1>3 DEF Untouched, SameRemote, SameSaved, SameSync, NotSettled, Settled, PollSame
  <2>. QED
    BY <1>3, <2>1, Elsewhere DEF KInv
<1>4. Kept(p)'
  <2>1. PageKept(p) /\ SyncKept(p) /\ ItemsKept(p) /\ NowKept(p) /\ StartKept(p)
    BY DEF KInv, Kept
  <2>2. /\ SameRemote(p) /\ SameSaved(p) /\ SyncSees(p)
        /\ \A s : (SyncIn(p, s) <=> SyncIn(p, s)') /\ (NowAt(p, s) <=> NowAt(p, s)')
        /\ (Merging(p) <=> Merging(p)') /\ (Late(p) <=> Late(p)') /\ Written' = Written
    BY <1>1 DEF SameRemote, SameSaved, SyncSees, SyncIn, Late, Merging, Written, NowAt
  <2>3. ~Settled(p)'
    BY <1>1 DEF Settled
  <2>4. /\ \A A, B : AllKeep(p, A, B) => AllKeep(p, A, B)'
        /\ \A A, B : Keeps(OfAll, p, A, B) => Keeps(OfAll, p, A, B)'
        /\ \A A : AllKeep(p, A, local[p]) => AllKeep(p, A, local[p])'
        /\ \A A : Keeps(OfAll, p, A, local[p]) => Keeps(OfAll, p, A, local[p])'
    BY <1>1, AllStay, KeepsStay
  <2>5. \A t \in Copies(p)' : t = local'[p] \/ t \in Copies(p)
    BY <1>1, <2>2 DEF Copies
  <2>6. local[p] \in Copies(p)
    BY CopiesOf
  <2>7. /\ \A A : (\A t \in Copies(p) : AllKeep(p, A, t)) => \A t \in Copies(p)' : AllKeep(p, A, t)'
        /\ \A A : (\A t \in Copies(p) : Keeps(OfAll, p, A, t)) => \A t \in Copies(p)' : Keeps(OfAll, p, A, t)'
    BY <2>4, <2>5, <2>6
  <2>8. \A s : (Is(p, s) <=> Is(p, s)') /\ (Past(p, s) <=> Past(p, s)')
    BY <2>2, RevisionsSame
  <2>9. PageKept(p)'
    <3>1. Uploaded(p)' /\ KnownFile(p)'
      BY <2>3 DEF Uploaded, KnownFile
    <3>2. BaseKept(p)'
      BY <2>1, <2>2, <2>4, <2>7 DEF PageKept, BaseKept, SameRemote, SameSaved
    <3>3. \A s : SnapshotKept(p, s) => SnapshotKept(p, s)'
      BY <2>2, <2>7, <2>8 DEF SnapshotKept, SameRemote
    <3>4. SnapshotKept(p, known[p])'
      BY <2>1, <2>2, <3>3 DEF PageKept, SameSaved
    <3>5. SnapshotKept(p, stored[p].snapshot)'
      BY <2>1, <2>2, <3>3 DEF PageKept, SameSaved
    <3>6. StoredIsKnown(p)'
      BY <1>1, <2>1, <2>2, StoredStays DEF PageKept
    <3>. QED
      BY <3>1, <3>2, <3>4, <3>5, <3>6 DEF PageKept
  <2>10. SyncKept(p)'
    <3>1. CASE ~SyncIn(p, Steps)'
      BY <3>1, SyncLeaves
    <3>2. CASE SyncIn(p, Steps)'
      <4>1. W(p, Over) => W(p, Over)'
        BY <1>1, WStays
      <4>2. W(p, {"posted"}) => W(p, {"posted"})'
        BY <1>1, WStays
      <4>3. \A n : SavedUpTo(p, n) => SavedUpTo(p, n)'
        BY <2>2, <4>1 DEF SavedUpTo, SameSaved
      <4>4. Current' = Current
        BY <1>1 DEF Current, Written
      <4>5. SyncFile(p)'
        BY <1>1, <2>1, <2>2, <2>4, <4>4 DEF SyncKept, SyncFile
      <4>6. SyncGot(p)' /\ SyncSeen(p)'
        BY <1>1, <2>1, <2>2, <2>4, <2>8, <4>3 DEF SyncKept, SyncGot, SyncSeen
      <4>7. SyncDecides(p)' /\ SyncPosts(p)' /\ SyncBytes(p)'
        BY <1>1, <2>1, <2>2, <2>4 DEF SyncKept, SyncDecides, SyncPosts, SyncBytes, Grown
      <4>8. SyncSaved(p)' /\ SyncMerged(p)'
        BY <1>1, <2>1, <2>2, <2>8, <4>1, <4>2, <4>3 DEF SyncKept, SyncSaved, SyncMerged, Grown
      <4>. QED
        BY <4>5, <4>6, <4>7, <4>8 DEF SyncKept
    <3>. QED
      BY <3>1, <3>2
  <2>11. ItemsKept(p)'
    BY <1>1, <1>2, <2>1, <2>2, ItemsStay
  <2>12. NowKept(p)'
    <3>. SUFFICES ASSUME NowAt(p, {"meta", "base"})', NEW e, e = poll.now PROVE NowKept(p)'
      BY DEF NowKept
    <3>1. NowAt(p, {"meta", "base"}) /\ poll'.now = e
      BY <1>1, <2>2
    <3>2. W(p, Over) => W(p, Over)'
      BY <1>1, WStays
    <3>3. \A t \in Copies(p)' : AllKeep(p, e.body, t)'
      BY <2>1, <2>7, <3>1 DEF NowKept
    <3>4. /\ Past(p, e.snapshot)' /\ (Is(p, e.snapshot)' => remote'[p].body = e.body)
          /\ AllKeep(p, e.body, remote[p].body)'
      BY <2>1, <2>2, <2>4, <2>8, <3>1 DEF NowKept, SameRemote
    <3>5. /\ SyncIn(p, {"decide", "post"})' => e.snapshot.rev \leq sync'.seen.rev \/ W(p, Over)'
          /\ Late(p)' => e.snapshot.rev \leq sync'.saved.rev \/ W(p, Over)'
      BY <1>1, <2>1, <2>2, <3>1, <3>2 DEF NowKept
    <3>. QED
      BY <2>3, <3>1, <3>3, <3>4, <3>5 DEF NowKept
  <2>13. StartKept(p)'
    BY <1>1 DEF StartKept
  <2>. QED
    BY <2>9, <2>10, <2>11, <2>12, <2>13 DEF Kept
<1>. QED
  BY <1>2, <1>3, <1>4 DEF KInv

\* A page that was changed has a revision nobody knows.
NewHere(p) == remote'[p] = Absent \/ remote'[p].rev = NewRevision

LEMMA RevisionNew ==
  ASSUME TInv, NEW p, NewHere(p)
  PROVE  \A s : Given(s) => ~Is(p, s)' /\ Past(p, s)'
<1>1. count.rev \in Nat
  BY DEF TInv, StateType
<1>2. CASE remote'[p] = Absent
  BY <1>1, <1>2 DEF Given, Is, Past, Absent
<1>3. CASE remote'[p].rev = NewRevision
  BY <1>1, <1>3 DEF Given, Is, Past, NewRevision
<1>. QED
  BY <1>2, <1>3 DEF NewHere

LEMMA ForeignEffect ==
  ASSUME TInv, NEW p \in Pages, ForeignEdit(p) \/ ForeignRemove(p)
  PROVE  /\ Grown /\ remote[p].body \subseteq remote'[p].body \cup gone' /\ NewHere(p)
         /\ \A q \in Pages : q # p => remote'[q] = remote[q]
         /\ UNCHANGED <<local, known, stored, mode, dirty, conflicted, sync, poll>>
<1>1. remote \in [Pages -> PageType] /\ remote[p] \in PageType
  BY DEF TInv, StateType
<1>2. CASE ForeignEdit(p)
  <2>1. remote' = [remote EXCEPT ![p] =
                     [ id |-> IF remote[p] = Absent THEN NewRevision ELSE remote[p].id,
                       rev |-> NewRevision,
                       body |-> remote[p].body \cup {MaxEdits + count'.foreign} ]]
    BY <1>2 DEF ForeignEdit
  <2>. QED
    BY <1>1, <1>2, <2>1 DEF ForeignEdit, NewHere, Grown
<1>3. CASE ForeignRemove(p)
  <2>1. ASSUME NEW q, q = [remote[p] EXCEPT !.body = {}, !.rev = NewRevision]
        PROVE  q.rev = NewRevision
    BY <1>1, <2>1 DEF PageType
  <2>2. \/ remote' = [remote EXCEPT ![p] = [remote[p] EXCEPT !.body = {}, !.rev = NewRevision]]
        \/ remote' = [remote EXCEPT ![p] = Absent]
    BY <1>1, <1>3 DEF ForeignRemove, PageType
  <2>3. ASSUME NEW q, q.rev = NewRevision \/ q = Absent, remote' = [remote EXCEPT ![p] = q]
        PROVE  NewHere(p) /\ \A r \in Pages : r # p => remote'[r] = remote[r]
    BY <1>1, <2>3 DEF NewHere
  <2>4. NewHere(p) /\ \A r \in Pages : r # p => remote'[r] = remote[r]
    BY <2>1, <2>2, <2>3
  <2>. QED
    BY <1>3, <2>4 DEF ForeignRemove, Grown
<1>. QED
  BY <1>2, <1>3

\* What of a page somebody changed is kept.  The revisions that are saved are
\* older, and the texts that were in the page still are, or are gone.
LEMMA RemoteGrows ==
  ASSUME TInv, NEW p \in Pages, Grown, NewHere(p), remote[p].body \subseteq remote'[p].body \cup gone'
  PROVE  /\ \A A : A \subseteq remote[p].body \cup gone => A \subseteq remote'[p].body \cup gone'
         /\ \A A : AllKeep(p, A, remote[p].body) => AllKeep(p, A, remote[p].body)'
         /\ \A s : Given(s) => ~Is(p, s)' /\ Past(p, s)'
BY KeepsStay, RevisionNew DEF Grown

LEMMA SnapshotNew ==
  ASSUME NEW p \in Pages, \A s : Given(s) => ~Is(p, s)' /\ Past(p, s)'
  PROVE  \A s : s = NoSnapshot \/ Given(s) => SnapshotKept(p, s)'
BY DEF SnapshotKept

LEMMA ForeignKept ==
  ASSUME TInv, KInv, NEW p \in Pages, ForeignEdit(p) \/ ForeignRemove(p) PROVE KInv'
<1>1. /\ Grown /\ remote[p].body \subseteq remote'[p].body \cup gone' /\ NewHere(p)
      /\ \A q \in Pages : q # p => remote'[q] = remote[q]
      /\ UNCHANGED <<local, known, stored, mode, dirty, conflicted, sync, poll>>
  BY ForeignEffect
<1>2. PollShape' /\ Unapplied' = Unapplied
  BY <1>1, ShapeStays DEF KInv
<1>3. ASSUME NEW q \in Pages, q # p PROVE Kept(q)'
  <2>1. Untouched(q)
    BY <1>1, <1>2, <1>3 DEF Untouched, SameRemote, SameSaved, SameSync, NotSettled, Settled, PollSame
  <2>. QED
    BY <1>3, <2>1, Elsewhere DEF KInv
<1>4. Kept(p)'
  <2>1. PageKept(p) /\ SyncKept(p) /\ ItemsKept(p) /\ NowKept(p) /\ StartKept(p)
    BY DEF KInv, Kept
  <2>2. /\ SameSaved(p) /\ SyncSees(p) /\ Copies(p)' = Copies(p)
        /\ \A s : (SyncIn(p, s) <=> SyncIn(p, s)') /\ (NowAt(p, s) <=> NowAt(p, s)')
        /\ (Merging(p) <=> Merging(p)') /\ (Late(p) <=> Late(p)') /\ (Settled(p) <=> Settled(p)')
    BY <1>1 DEF SameSaved, SyncSees, SyncIn, Late, Merging, Written, NowAt, Copies, Settled
  <2>3. /\ \A A, B : AllKeep(p, A, B) => AllKeep(p, A, B)'
        /\ \A A, B : Keeps(OfAll, p, A, B) => Keeps(OfAll, p, A, B)'
        /\ \A A : A \subseteq remote[p].body \cup gone => A \subseteq remote'[p].body \cup gone'
        /\ \A A : AllKeep(p, A, remote[p].body) => AllKeep(p, A, remote[p].body)'
        /\ \A s : Given(s) => ~Is(p, s)' /\ Past(p, s)'
    BY <1>1, AllStay, RemoteGrows
  <2>4. \A kinds : W(p, kinds) => W(p, kinds)'
    BY <1>1, WStays
  <2>5. /\ known[p] = NoSnapshot \/ Given(known[p])
        /\ stored[p].snapshot = NoSnapshot \/ Given(stored[p].snapshot)
    BY DEF TInv, RevisionsType
  <2>6. PageKept(p)'
    <3>1. Uploaded(p)'
      BY <1>1, <2>1, <2>2, <2>3, <2>4 DEF PageKept, Uploaded, MayLack
    <3>2. KnownFile(p)'
      BY <1>1, <2>3, <2>5 DEF KnownFile
    <3>3. BaseKept(p)'
      BY <1>1, <2>1, <2>2, <2>3 DEF PageKept, BaseKept
    <3>4. \A s : s = NoSnapshot \/ Given(s) => SnapshotKept(p, s)'
      BY <2>3, SnapshotNew
    <3>5. SnapshotKept(p, known[p])'
      BY <1>1, <2>5, <3>4
    <3>6. SnapshotKept(p, stored[p].snapshot)'
      BY <1>1, <2>5, <3>4
    <3>7. StoredIsKnown(p)'
      BY <1>1, <2>1, <2>2, StoredStays DEF PageKept
    <3>. QED
      BY <3>1, <3>2, <3>3, <3>5, <3>6, <3>7 DEF PageKept
  <2>7. SyncKept(p)'
    <3>1. CASE ~SyncIn(p, Steps)'
      BY <3>1, SyncLeaves
    <3>2. CASE SyncIn(p, Steps)'
      <4>1. \A n : SavedUpTo(p, n) => SavedUpTo(p, n)'
        BY <2>2, <2>4 DEF SavedUpTo, SameSaved
      <4>2. /\ SyncIn(p, {"get"}) => Given(sync.snapshot)
            /\ SyncIn(p, {"decide", "post"}) => Given(sync.seen)
            /\ Late(p) => Given(sync.saved)
        BY DEF SyncIn, Late, TInv, SyncType, SyncControl
      <4>3. Current' = Current
        BY <1>1 DEF Current, Written
      <4>4. SyncFile(p)'
        BY <1>1, <2>1, <2>2, <2>3, <2>4, <4>3 DEF SyncKept, SyncFile
      <4>5. SyncGot(p)' /\ SyncSeen(p)'
        BY <1>1, <2>1, <2>2, <2>3, <4>1, <4>2 DEF SyncKept, SyncGot, SyncSeen
      <4>6. SyncDecides(p)' /\ SyncPosts(p)' /\ SyncBytes(p)'
        BY <1>1, <2>1, <2>2, <2>3 DEF SyncKept, SyncDecides, SyncPosts, SyncBytes, Grown
      <4>7. SyncSaved(p)' /\ SyncMerged(p)'
        BY <1>1, <2>1, <2>2, <2>3, <2>4, <4>1, <4>2 DEF SyncKept, SyncSaved, SyncMerged, Grown
      <4>. QED
        BY <4>4, <4>5, <4>6, <4>7 DEF SyncKept
    <3>. QED
      BY <3>1, <3>2
  <2>8. ItemsKept(p)'
    <3>. SUFFICES ASSUME NEW e \in Unapplied, e.page = p PROVE ItemKept(p, e)'
      BY <1>2 DEF ItemsKept
    <3>1. ItemKept(p, e) /\ Given(e.snapshot)
      BY <2>1, UnappliedType DEF ItemsKept
    <3>2. \A n : SavedSince(p, n) => SavedSince(p, n)'
      BY <2>2, SnapshotForSame DEF SavedSince, SyncSees
    <3>3. Past(p, e.snapshot)' /\ ~Is(p, e.snapshot)'
      BY <2>3, <3>1
    <3>4. \/ SavedSince(p, e.snapshot.rev)'
          \/ AllKeep(p, e.body, remote[p].body)' /\ AllKeep(p, stored[p].base, e.body)'
      <4>1. CASE SavedSince(p, e.snapshot.rev)
        BY <3>2, <4>1
      <4>2. CASE AllKeep(p, e.body, remote[p].body) /\ AllKeep(p, stored[p].base, e.body)
        BY <1>1, <2>3, <4>2
      <4>. QED
        BY <3>1, <4>1, <4>2 DEF ItemKept
    <3>5. Late(p)' => sync'.saved.rev > e.snapshot.rev \/ AllKeep(p, sync.bytes, e.body)'
      BY <1>1, <2>2, <2>3, <3>1 DEF ItemKept
    <3>6. SyncIn(p, {"decide"})' => sync'.seen.rev > e.snapshot.rev \/ AllKeep(p, sync.seen.body, e.body)'
      BY <1>1, <2>2, <2>3, <3>1 DEF ItemKept
    <3>. QED
      BY <3>3, <3>4, <3>5, <3>6 DEF ItemKept
  <2>9. NowKept(p)'
    <3>. SUFFICES ASSUME NowAt(p, {"meta", "base"})', NEW e, e = poll.now PROVE NowKept(p)'
      BY DEF NowKept
    <3>1. NowAt(p, {"meta", "base"}) /\ poll'.now = e
      BY <1>1, <2>2
    <3>2. Given(e.snapshot)
      BY <3>1 DEF NowAt, TInv, PollType, Items
    <3>3. Past(p, e.snapshot)' /\ ~Is(p, e.snapshot)'
      BY <2>3, <3>2
    <3>4. AllKeep(p, e.body, remote[p].body)' /\ \A t \in Copies(p)' : AllKeep(p, e.body, t)'
      BY <2>1, <2>2, <2>3, <3>1 DEF NowKept
    <3>5. /\ SyncIn(p, {"decide", "post"})' => e.snapshot.rev \leq sync'.seen.rev \/ W(p, Over)'
          /\ Late(p)' => e.snapshot.rev \leq sync'.saved.rev \/ W(p, Over)'
      BY <1>1, <2>1, <2>2, <2>4, <3>1 DEF NowKept
    <3>. QED
      BY <3>1, <3>3, <3>4, <3>5 DEF NowKept
  <2>10. StartKept(p)'
    <3>. SUFFICES ASSUME mode = "starting" PROVE StartTodo(p)' /\ StartDone(p)' /\ StartNow(p)'
      BY <1>1 DEF StartKept
    <3>1. StartTodo(p) /\ StartDone(p) /\ StartNow(p)
      BY <2>1 DEF StartKept
    <3>3. (\A q \in DOMAIN poll.tree : Given(poll.tree[q])) /\ poll.todo \subseteq DOMAIN poll.tree
      BY DEF TInv, PollType, Listing
    <3>4. StartTodo(p)'
      BY <1>1, <2>3, <3>1, <3>3 DEF StartTodo
    <3>5. StartDone(p)'
      BY <1>1, <2>3, <3>1, <3>3 DEF StartDone
    <3>6. StartNow(p)'
      BY <1>1, <2>2, <2>3, <3>1 DEF StartNow
    <3>. QED
      BY <3>4, <3>5, <3>6
  <2>. QED
    BY <2>6, <2>7, <2>8, <2>9, <2>10 DEF Kept
<1>. QED
  BY <1>2, <1>3, <1>4 DEF KInv

(***************************************************************************)
(* A sync.  Where it stops, or is at another page, the page it leaves has  *)
(* to be no more settled than it was, or skipped.                          *)
(***************************************************************************)
SameStart == mode = "up" /\ UNCHANGED <<mode, poll>>
SamePage(q) == SameRemote(q) /\ SameSaved(q) /\ local'[q] = local[q]
Leaves(q) == ~Late(q) /\ ~SyncIn(q, Steps)' /\ (NotSettled(q) \/ W(q, {"skipped"})')

LEMMA SkippedHit == ASSUME NEW q, W(q, {"skipped"})' PROVE Uploaded(q)' /\ KnownFile(q)' /\ SameText(q)'
<1>1. W(q, MayLack)' /\ W(q, MayDiffer)'
  BY DEF W, MayLack, MayDiffer
<1>. QED
  BY <1>1 DEF Uploaded, KnownFile, SameText

LEMMA SyncStops ==
  ASSUME NEW q, Grown, SameStart, SamePage(q), Leaves(q), Unapplied' = Unapplied, Kept(q)
  PROVE  Kept(q)'
<1>1. /\ UNCHANGED poll /\ mode' = "up" /\ SameRemote(q) /\ SameSaved(q) /\ local'[q] = local[q]
      /\ ~Late(q) /\ ~SyncIn(q, Steps)' /\ PollSame(q)
  BY DEF SameStart, SamePage, Leaves, PollSame
<1>2. PageKept(q) /\ SyncKept(q) /\ ItemsKept(q) /\ NowKept(q)
  BY DEF Kept
<1>3. ~Late(q)' /\ ~Merging(q)' /\ SyncKept(q)'
  BY <1>1, SyncLeaves
<1>4. StillMerging(q) /\ NoCopies(q)
  BY <1>1, CopiesOf, CopiesAfter DEF StillMerging, NoCopies, Merging
<1>5. SyncSees(q) /\ ~SyncIn(q, {"base"})
  BY <1>1, <1>3 DEF SyncSees, SyncIn, Steps, Late
<1>6. ItemsKept(q)'
  BY <1>1, <1>2, <1>5, ItemsStay
<1>7. StartKept(q)'
  BY <1>1 DEF StartKept
<1>8. NowAt(q, {"meta", "base"})' => NowAt(q, {"meta", "base"}) /\ poll'.now = poll.now
  BY <1>1 DEF NowAt
<1>9. CASE NotSettled(q)
  <2>1. PageKept(q)'
    BY <1>1, <1>2, <1>4, <1>5, <1>9, PageStays
  <2>2. NowKept(q)'
    BY <1>1, <1>2, <1>4, <1>5, <1>8, <1>9, NowStays
  <2>. QED
    BY <1>3, <1>6, <1>7, <2>1, <2>2 DEF Kept
<1>10. CASE W(q, {"skipped"})'
  <2>1. PageKept(q)'
    <3>1. Uploaded(q)' /\ KnownFile(q)'
      BY <1>10, SkippedHit
    <3>2. BaseKept(q)'
      BY <1>1, <1>2, <1>4, BaseStays DEF PageKept, SameSaved
    <3>3. \A s : SnapshotKept(q, s) => SnapshotKept(q, s)'
      BY <1>1, <1>4, SnapshotStays
    <3>4. SnapshotKept(q, known[q])'
      BY <1>1, <1>2, <3>3 DEF PageKept, SameSaved
    <3>5. SnapshotKept(q, stored[q].snapshot)'
      BY <1>1, <1>2, <3>3 DEF PageKept, SameSaved
    <3>6. StoredIsKnown(q)'
      BY <1>1, <1>2, <1>5, StoredStays DEF PageKept, NowAt
    <3>. QED
      BY <3>1, <3>2, <3>4, <3>5, <3>6 DEF PageKept
  <2>2. NowKept(q)'
    <3>. SUFFICES ASSUME NowAt(q, {"meta", "base"})', NEW e, e = poll.now PROVE NowKept(q)'
      BY DEF NowKept
    <3>1. NowAt(q, {"meta", "base"}) /\ poll'.now = e
      BY <1>1, <1>8
    <3>2. /\ \A A, B : AllKeep(q, A, B) => AllKeep(q, A, B)'
          /\ \A s : (Is(q, s) <=> Is(q, s)') /\ (Past(q, s) <=> Past(q, s)')
      BY <1>1, AllStay, RevisionsSame
    <3>3. /\ Past(q, e.snapshot) /\ (Is(q, e.snapshot) => remote[q].body = e.body)
          /\ AllKeep(q, e.body, remote[q].body) /\ \A t \in Copies(q) : AllKeep(q, e.body, t)
      BY <1>2, <3>1 DEF NowKept
    <3>4. /\ Past(q, e.snapshot)' /\ (Is(q, e.snapshot)' => remote'[q].body = e.body)
          /\ AllKeep(q, e.body, remote[q].body)' /\ \A t \in Copies(q)' : AllKeep(q, e.body, t)'
      BY <1>1, <1>4, <3>2, <3>3 DEF SameRemote, NoCopies
    <3>5. ~SyncIn(q, {"decide", "post"})' /\ ~Late(q)'
      BY <1>1, <1>3 DEF SyncIn, Steps
    <3>. QED
      BY <1>10, <3>1, <3>4, <3>5, SkippedHit DEF NowKept
  <2>. QED
    BY <1>3, <1>6, <1>7, <2>1, <2>2 DEF Kept
<1>. QED
  BY <1>9, <1>10 DEF Leaves

LEMMA AllStop ==
  ASSUME KInv, Grown, SameStart, \A q \in Pages : SamePage(q) /\ Leaves(q)
  PROVE  KInv'
<1>1. PollShape' /\ Unapplied' = Unapplied
  BY ShapeStays DEF KInv, SameStart
<1>. QED
  BY <1>1, SyncStops DEF KInv

\* A step at page p leaves the others.
AtPage(p) ==
  /\ p \in Pages /\ Grown /\ SameStart
  /\ \A q \in Pages : q # p => SamePage(q) /\ Leaves(q)
LEMMA OnePage ==
  ASSUME KInv, NEW p, AtPage(p), Unapplied' = Unapplied => Kept(p)'
  PROVE  KInv'
<1>1. PollShape' /\ Unapplied' = Unapplied
  BY ShapeStays DEF KInv, SameStart, AtPage
<1>. QED
  BY <1>1, SyncStops DEF KInv, AtPage

LEMMA GrownSame == ASSUME UNCHANGED gone, windows \subseteq windows' PROVE Grown
BY DEF Grown

LEMMA SamePages == ASSUME UNCHANGED <<remote, local, known, stored>> PROVE \A q : SamePage(q)
BY DEF SamePage, SameRemote, SameSaved

LEMMA FailKept ==
  ASSUME TInv, KInv, Fail, mode = "up", sync.pc \in {"next", "create", "get", "post"},
         UNCHANGED <<remote, local, known, stored, mode, conflicted, poll, gone, windows>>
  PROVE  KInv'
<1>1. /\ sync'.pc = "idle" /\ sync'.todo = {} /\ sync'.conflicts = {}
      /\ dirty' = dirty \cup sync.batch
  BY FailType
<1>2. sync.todo \subseteq sync.batch /\ sync.conflicts \subseteq sync.batch
  BY DEF TInv, SyncType, SyncControl
<1>3. ASSUME NEW q \in Pages PROVE SamePage(q) /\ Leaves(q)
  BY <1>1, <1>2, SamePages DEF Leaves, Late, SyncIn, Steps, NotSettled, Settled
<1>. QED
  BY <1>3, AllStop, GrownSame DEF SameStart

LEMMA BeginKept == ASSUME TInv, KInv, SyncBegin PROVE KInv'
<1>1. /\ sync.pc = "idle" /\ sync.todo = {} /\ sync.conflicts = {} /\ dirty' = {}
      /\ conflicted' = conflicted \ dirty /\ SameStart /\ Grown
      /\ UNCHANGED <<remote, local, known, stored>>
  BY DEF SyncBegin, At, TInv, SyncType, SyncControl, SameStart, Grown
<1>2. sync'.pc = "next" /\ sync'.todo = dirty /\ sync'.conflicts = {}
  BY BetweenType DEF SyncBegin, TInv, StateType, AtNoPage
<1>3. ASSUME NEW q \in Pages PROVE SamePage(q) /\ Leaves(q)
  BY <1>1, <1>2, SamePages DEF Leaves, Late, SyncIn, Steps, NotSettled, Settled
<1>. QED
  BY <1>1, <1>3, AllStop

LEMMA EndKept == ASSUME TInv, KInv, SyncEnd PROVE KInv'
<1>1. /\ sync.pc = "next" /\ sync.todo = {} /\ dirty' = dirty
      /\ conflicted' = conflicted \cup sync.conflicts /\ SameStart /\ Grown
      /\ UNCHANGED <<remote, local, known, stored>>
  BY DEF SyncEnd, At, SameStart, Grown
<1>2. sync'.pc = "idle" /\ sync'.todo = {} /\ sync'.conflicts = {}
  BY NoSyncType DEF SyncEnd
<1>3. ASSUME NEW q \in Pages PROVE SamePage(q) /\ Leaves(q)
  BY <1>1, <1>2, SamePages DEF Leaves, Late, SyncIn, Steps, NotSettled, Settled
<1>. QED
  BY <1>1, <1>3, AllStop

LEMMA EndsAt ==
  ASSUME TInv, NEW c \in BOOLEAN, PageEnds(c), sync.pc \notin AtNoPage, UNCHANGED <<dirty, conflicted>>
  PROVE  /\ \A q : ~SyncIn(q, Steps)'
         /\ \A q : q # sync.page => NotSettled(q) /\ ~SyncIn(q, Steps)
         /\ c => NotSettled(sync.page)
<1>1. /\ sync'.pc = "next" /\ sync'.todo = sync.todo \ {sync.page}
      /\ sync'.conflicts = sync.conflicts \cup (IF c THEN {sync.page} ELSE {})
  BY PageEndsType
<1>2. ASSUME NEW q, q # sync.page \/ c PROVE NotSettled(q)
  BY <1>1, <1>2 DEF NotSettled, Settled
<1>. QED
  BY <1>1, <1>2 DEF SyncIn, Steps

LEMMA PageEndsKept ==
  ASSUME TInv, KInv, mode = "up", sync.pc \in {"get", "post"}, NEW c \in BOOLEAN, PageEnds(c),
         IF c THEN UNCHANGED windows ELSE Window(Page, "skipped"),
         UNCHANGED <<remote, local, known, stored, mode, dirty, conflicted, poll, gone>>
  PROVE  KInv'
<1>. SUFFICES ASSUME NEW p, p = sync.page PROVE KInv'
  OBVIOUS
<1>1. windows \subseteq windows' /\ (~c => W(p, {"skipped"})')
  BY DEF Window, W, Page
<1>2. Grown /\ SameStart
  BY <1>1, GrownSame DEF SameStart
<1>3. sync.pc \notin AtNoPage /\ \A q : ~Late(q)
  BY DEF AtNoPage, Late, SyncIn
<1>4. ASSUME NEW q \in Pages PROVE SamePage(q) /\ Leaves(q)
  <2>1. ~SyncIn(q, Steps)' /\ (NotSettled(q) \/ W(q, {"skipped"})')
    <3>1. CASE q = p /\ ~c
      BY <1>1, <1>3, <3>1, EndsAt
    <3>2. CASE q # p \/ c
      BY <1>3, <3>2, EndsAt
    <3>. QED
      BY <3>1, <3>2
  <2>. QED
    BY <1>3, <2>1, SamePages DEF Leaves
<1>. QED
  BY <1>2, <1>4, AllStop

\* The page a sync is at.
LEMMA SyncAt ==
  ASSUME TInv, sync.pc \notin AtNoPage
  PROVE  /\ sync.page \in Pages /\ sync.page \in sync.todo /\ ~Settled(sync.page)
         /\ sync.pc \in Steps /\ \A s : sync.pc \in s <=> SyncIn(sync.page, s)
BY DEF TInv, SyncType, SyncRecord, SyncControl, AtNoPage, Settled, SyncIn, Steps

LEMMA GoesOnAt ==
  ASSUME TInv, NEW p \in sync.todo, sync.pc = "next" \/ sync.page = p, sync'.page = p, SameBatch,
         sync'.pc \in Steps, Grown, SameStart, UNCHANGED <<dirty, conflicted>>,
         \A q \in Pages : q # p => SamePage(q)
  PROVE  /\ AtPage(p) /\ ~Settled(p)' /\ \A s : sync'.pc \in s <=> SyncIn(p, s)'
<1>1. p \in Pages
  BY DEF TInv, SyncType, SyncRecord
<1>2. \A q : q # p => Leaves(q)
  BY DEF Leaves, Late, SyncIn, NotSettled, Settled, SameBatch
<1>3. ~Settled(p)'
  BY DEF Settled, SameBatch
<1>. QED
  BY <1>1, <1>2, <1>3 DEF AtPage, SyncIn

LEMMA ReadKept == ASSUME TInv, KInv, NEW p \in Pages, SyncRead(p) PROVE KInv'
<1>1. mode = "up" /\ sync.pc = "next" /\ p \in sync.todo
      /\ UNCHANGED <<remote, local, known, stored, mode, conflicted, poll, gone, windows>>
  BY DEF SyncRead, At
<1>2. CASE local[p] = NoFile
  BY <1>1, <1>2, FailKept DEF SyncRead
<1>3. CASE local[p] # NoFile
  <2>1. UNCHANGED dirty
    BY <1>3 DEF SyncRead
  <2>2. SameBatch /\ sync'.pc = "snapshot" /\ sync'.page = p /\ sync'.mine = local[p]
    <3>1. sync' = [sync EXCEPT !.pc = "snapshot", !.page = p, !.mine = local[p]]
      BY <1>3 DEF SyncRead
    <3>. QED
      BY <1>1, <1>3, <3>1, SyncReadFields, Zenon
  <2>3. Grown /\ SameStart /\ \A q : SamePage(q)
    BY <1>1, SamePages, GrownSame DEF SameStart
  <2>4. AtPage(p) /\ ~Settled(p)' /\ \A s : sync'.pc \in s <=> SyncIn(p, s)'
    BY <1>1, <2>1, <2>2, <2>3, GoesOnAt DEF Steps
  <2>5. ASSUME Unapplied' = Unapplied PROVE Kept(p)'
    <3>1. PageKept(p) /\ SyncKept(p) /\ ItemsKept(p) /\ NowKept(p)
      BY DEF KInv, Kept
    <3>2. ~SyncIn(p, Steps) /\ ~Late(p) /\ ~Merging(p) /\ ~SyncIn(p, {"base"})
      BY <1>1 DEF SyncIn, Steps, Late, Merging
    <3>3. StillMerging(p) /\ SyncSees(p) /\ NotSettled(p) /\ PollSame(p)
      BY <1>1, <2>2, <2>4, <3>2 DEF StillMerging, SyncSees, Late, SyncIn, NotSettled, PollSame
    <3>4. NoCopies(p)
      <4>1. ~Written'
        BY <2>2 DEF Written
      <4>. QED
        BY <1>1, <2>2, <3>2, <4>1, CopiesOf, CopiesAfter DEF NoCopies
    <3>5. PageKept(p)'
      BY <2>3, <3>1, <3>2, <3>3, <3>4, PageStays DEF SamePage
    <3>6. ItemsKept(p)'
      BY <2>3, <2>5, <3>1, <3>3, ItemsStay DEF SamePage
    <3>7. NowKept(p)'
      BY <1>1, <2>3, <2>4, <3>1, <3>3, <3>4, NowStays DEF SamePage, NowAt
    <3>8. SyncKept(p)'
      <4>1. Current' = local[p]
        BY <2>2 DEF Current, Written
      <4>2. AllKeep(p, local[p], local[p])
        BY KeepsSub
      <4>3. AllKeep(p, local[p], local[p])'
        BY <2>3, <4>2, AllStay DEF SamePage
      <4>4. SyncFile(p)'
        BY <1>1, <4>1, <4>3 DEF SyncFile
      <4>. QED
        BY <2>2, <4>4 DEF SyncKept, SyncGot, SyncSeen, SyncDecides, SyncPosts, SyncBytes, SyncSaved,
                          SyncMerged, Late, SyncIn
    <3>9. StartKept(p)'
      BY <1>1 DEF StartKept
    <3>. QED
      BY <3>5, <3>6, <3>7, <3>8, <3>9 DEF Kept
  <2>. QED
    BY <2>4, <2>5, OnePage
<1>. QED
  BY <1>2, <1>3

LEMMA FileStays ==
  ASSUME NEW p, Grown, SyncIn(p, Steps), Current' = Current, local'[p] = local[p], UNCHANGED dirty,
         SyncKept(p)
  PROVE  SyncFile(p)'
<1>1. /\ AllKeep(p, Current, local[p])
      /\ p \in dirty \/ local[p] = Current \/ W(p, Over)
  BY DEF SyncKept, SyncFile
<1>2. AllKeep(p, Current, local[p])'
  BY <1>1, AllStay
<1>. QED
  BY <1>1, <1>2, WStays DEF SyncFile

LEMMA SnapshotStepKept == ASSUME TInv, KInv, SyncSnapshot PROVE KInv'
<1>. SUFFICES ASSUME NEW p, p = sync.page PROVE KInv'
  OBVIOUS
<1>1. mode = "up" /\ sync.pc = "snapshot" /\ Page = p
      /\ UNCHANGED <<remote, local, known, stored, mode, dirty, conflicted, poll, gone, windows>>
  BY DEF SyncSnapshot, At, Page
<1>2. /\ SameBatch /\ sync'.page = p /\ sync'.mine = sync.mine /\ sync'.pc \in {"create", "get"}
      /\ sync'.snapshot = SnapshotFor(p)
  BY SyncSnapshotFields DEF SameFile
<1>3. Grown /\ SameStart /\ \A q : SamePage(q)
  BY <1>1, SamePages, GrownSame DEF SameStart
<1>4. p \in Pages /\ p \in sync.todo /\ SyncIn(p, Steps) /\ SyncIn(p, {"snapshot"})
  BY <1>1, SyncAt DEF AtNoPage, Steps
<1>5. AtPage(p) /\ ~Settled(p)' /\ \A s : sync'.pc \in s <=> SyncIn(p, s)'
  BY <1>1, <1>2, <1>3, <1>4, GoesOnAt DEF Steps
<1>6. ASSUME Unapplied' = Unapplied PROVE Kept(p)'
  <2>1. PageKept(p) /\ SyncKept(p) /\ ItemsKept(p) /\ NowKept(p)
    BY <1>4 DEF KInv, Kept
  <2>2. ~Late(p) /\ ~Merging(p) /\ ~SyncIn(p, {"base"}) /\ ~Written /\ ~Written'
    BY <1>1, <1>2 DEF SyncIn, Late, Merging, Written
  <2>3. StillMerging(p) /\ SyncSees(p) /\ NotSettled(p) /\ PollSame(p)
    BY <1>1, <1>2, <1>5, <2>2 DEF StillMerging, SyncSees, Late, SyncIn, NotSettled, PollSame
  <2>4. NoCopies(p) /\ sync.mine \in Copies(p)
    BY <1>1, <1>2, <1>4, <2>2, CopiesOf, CopiesAfter DEF NoCopies
  <2>5. PageKept(p)'
    BY <1>3, <2>1, <2>2, <2>3, <2>4, PageStays DEF SamePage
  <2>6. ItemsKept(p)'
    BY <1>3, <1>6, <2>1, <2>3, ItemsStay DEF SamePage
  <2>7. NowKept(p)'
    BY <1>1, <1>3, <1>5, <2>1, <2>3, <2>4, NowStays DEF SamePage, NowAt
  <2>8. SyncKept(p)'
    <3>1. Current' = Current
      BY <1>2, <2>2 DEF Current
    <3>2. SyncFile(p)'
      BY <1>1, <1>3, <1>4, <2>1, <3>1, FileStays
    <3>3. SyncGot(p)'
      <4>1. ASSUME NEW s, s = SnapshotFor(p), s # NoSnapshot, SnapshotKept(p, s)
            PROVE  /\ Past(p, s)'
                   /\ Is(p, s)' => Keeps(OfAll, p, remote[p].body, sync.mine)'
        BY <1>1, <1>2, <1>3, <2>2, <2>4, <4>1, AllStay, RevisionsSame DEF SnapshotKept, SamePage
      <4>2. SnapshotKept(p, SnapshotFor(p))
        BY <2>1 DEF PageKept, SnapshotFor
      <4>3. sync'.pc = "get" => SnapshotFor(p) # NoSnapshot
        BY <1>1, <1>2 DEF SyncSnapshot, TInv, SyncType, SyncRecord
      <4>. QED
        BY <1>2, <4>1, <4>2, <4>3 DEF SyncGot, SyncIn
    <3>. QED
      BY <1>2, <3>2, <3>3 DEF SyncKept, SyncSeen, SyncDecides, SyncPosts, SyncBytes, SyncSaved,
                              SyncMerged, Late, SyncIn
  <2>9. StartKept(p)'
    BY <1>1 DEF StartKept
  <2>. QED
    BY <2>5, <2>6, <2>7, <2>8, <2>9 DEF Kept
<1>. QED
  BY <1>5, <1>6, OnePage

\* The page is stored with a revision that is new.  What anybody had read of
\* it is behind, and its text has all that the sync read from the file.
StoresAt(p, body, bytes) ==
  /\ p \in Pages /\ mode = "up" /\ Grown
  /\ UNCHANGED <<local, known, stored, mode, dirty, conflicted, poll>>
  /\ sync.page = p /\ sync.pc \in {"create", "post"} /\ SameFile /\ sync'.pc = "meta"
  /\ remote'[p].rev = NewRevision /\ remote'[p].body = body /\ sync'.saved.rev = NewRevision
  /\ sync'.act \in {"upload", "conflict", "merge"} /\ sync'.bytes = bytes
  /\ bytes \subseteq body /\ AllKeep(p, sync.mine, bytes)
  /\ sync'.act # "merge" => bytes = sync.mine
  /\ body = bytes \/ W(p, {"posted"})'

LEMMA StoreAt ==
  ASSUME TInv, NEW p, Kept(p), NEW body, NEW bytes, StoresAt(p, body, bytes), Unapplied' = Unapplied
  PROVE  Kept(p)'
<1>1. /\ p \in Pages /\ mode = "up" /\ Grown
      /\ UNCHANGED <<local, known, stored, mode, dirty, conflicted, poll>>
      /\ sync.page = p /\ sync.pc \in {"create", "post"} /\ sync'.page = p /\ sync'.mine = sync.mine
      /\ SameBatch /\ sync'.pc = "meta"
      /\ remote'[p].rev = NewRevision /\ remote'[p].body = body /\ sync'.saved.rev = NewRevision
      /\ sync'.act \in {"upload", "conflict", "merge"} /\ sync'.bytes = bytes
      /\ bytes \subseteq body /\ AllKeep(p, sync.mine, bytes)
      /\ sync'.act # "merge" => bytes = sync.mine
      /\ body = bytes \/ W(p, {"posted"})'
  BY DEF StoresAt, SameFile
<1>2. PageKept(p) /\ SyncKept(p) /\ ItemsKept(p) /\ NowKept(p)
  BY DEF Kept
<1>3. /\ SyncIn(p, Steps) /\ ~Late(p) /\ ~Merging(p) /\ ~Written /\ ~Written' /\ ~SyncIn(p, {"base"})
      /\ SyncIn(p, Steps)' /\ Late(p)'
      /\ \A s : SyncIn(p, s)' <=> "meta" \in s
  BY <1>1 DEF SyncIn, Steps, Late, Merging, Written
<1>4. ~Settled(p)'
  BY <1>1, SyncAt DEF AtNoPage, Settled, SameBatch
<1>5. /\ Copies(p) = {local[p], sync.mine} /\ Copies(p)' = Copies(p)
      /\ NoCopies(p) /\ StillMerging(p)
  <2>1. Copies(p) = {local[p], sync.mine}
    BY <1>3, CopiesOf
  <2>2. Copies(p)' = {local'[p], sync'.mine}
    BY <1>3, CopiesAfter
  <2>. QED
    BY <1>1, <1>3, <2>1, <2>2 DEF NoCopies, StillMerging
<1>6. /\ \A A, B : AllKeep(p, A, B) => AllKeep(p, A, B)'
      /\ \A A, B : Keeps(OfAll, p, A, B) => Keeps(OfAll, p, A, B)'
      /\ \A A : AllKeep(p, A, bytes) => AllKeep(p, A, remote[p].body)'
  <2>1. bytes \cap Changes \subseteq body \cup gone'
    BY <1>1
  <2>2. \A A : AllKeep(p, A, bytes) => AllKeep(p, A, body)'
    BY <1>1, <2>1, KeepsStay
  <2>. QED
    BY <1>1, <2>2, AllStay
<1>7. \A s : Given(s) => ~Is(p, s)' /\ Past(p, s)' /\ s.rev < NewRevision
  BY <1>1, RevisionNew DEF NewHere, TInv, StateType, Given, NewRevision
<1>8. \A kinds : W(p, kinds) => W(p, kinds)'
  BY <1>1, WStays
<1>9. \A A : AllKeep(p, A, sync.mine) => AllKeep(p, A, remote[p].body)'
  BY <1>1, <1>6, AllKeepOn
<1>10. /\ known[p] = NoSnapshot \/ Given(known[p])
       /\ stored[p].snapshot = NoSnapshot \/ Given(stored[p].snapshot)
  BY <1>1 DEF TInv, RevisionsType
<1>11. PageKept(p)'
  <2>1. Uploaded(p)' /\ KnownFile(p)'
    BY <1>4 DEF Uploaded, KnownFile
  <2>2. BaseKept(p)'
    BY <1>1, <1>2, <1>3, <1>5, <1>6, <1>9 DEF PageKept, BaseKept
  <2>3. \A s : s = NoSnapshot \/ Given(s) => SnapshotKept(p, s)'
    BY <1>1, <1>7, SnapshotNew
  <2>4. SnapshotKept(p, known[p])'
    BY <1>1, <1>10, <2>3
  <2>5. SnapshotKept(p, stored[p].snapshot)'
    BY <1>1, <1>10, <2>3
  <2>6. StoredIsKnown(p)'
    BY <1>1, <1>2, <1>3, StoredStays DEF PageKept, SameSaved, NowAt
  <2>. QED
    BY <2>1, <2>2, <2>4, <2>5, <2>6 DEF PageKept
<1>12. SyncKept(p)'
  <2>1. SyncFile(p)'
    <3>1. Current' = Current
      BY <1>1, <1>3 DEF Current
    <3>. QED
      BY <1>1, <1>2, <1>3, <3>1, FileStays
  <2>2. SyncBytes(p)'
    BY <1>1, <1>6 DEF SyncBytes
  <2>3. SyncSaved(p)'
    <3>1. Past(p, sync.saved)'
      BY <1>1 DEF Past, TInv, StateType, NewRevision
    <3>2. known[p].rev \leq NewRevision /\ stored[p].snapshot.rev \leq NewRevision
      BY <1>1, <1>7, <1>10 DEF TInv, StateType, Given, NoSnapshot, NewRevision
    <3>. QED
      BY <1>1, <3>1, <3>2 DEF SyncSaved, SavedUpTo
  <2>. QED
    BY <1>1, <2>1, <2>2, <2>3 DEF SyncKept, SyncGot, SyncSeen, SyncDecides, SyncPosts, SyncMerged, SyncIn
<1>13. ItemsKept(p)'
  <2>. SUFFICES ASSUME NEW e \in Unapplied, e.page = p PROVE ItemKept(p, e)'
    BY DEF ItemsKept
  <2>1. Given(e.snapshot) /\ e.snapshot.rev < NewRevision /\ ~Is(p, e.snapshot)' /\ Past(p, e.snapshot)'
    BY <1>7, UnappliedType
  <2>2. sync'.saved.rev > e.snapshot.rev
    BY <1>1, <2>1 DEF Given, TInv, StateType, NewRevision
  <2>. QED
    BY <1>1, <1>3, <2>1, <2>2 DEF ItemKept, SavedSince
<1>14. NowKept(p)'
  <2>. SUFFICES ASSUME NowAt(p, {"meta", "base"})', NEW e, e = poll.now PROVE NowKept(p)'
    BY DEF NowKept
  <2>1. NowAt(p, {"meta", "base"}) /\ poll'.now = e
    BY <1>1 DEF NowAt
  <2>2. Given(e.snapshot)
    BY <2>1 DEF NowAt, TInv, PollType, Items
  <2>3. ~Is(p, e.snapshot)' /\ Past(p, e.snapshot)' /\ e.snapshot.rev \leq sync'.saved.rev
    BY <1>1, <1>7, <2>2 DEF Given, TInv, StateType, NewRevision
  <2>4. \A t \in Copies(p) : AllKeep(p, e.body, t)
    BY <1>2, <2>1 DEF NowKept
  <2>5. AllKeep(p, e.body, remote[p].body)' /\ \A t \in Copies(p)' : AllKeep(p, e.body, t)'
    BY <1>5, <1>6, <1>9, <2>4
  <2>. QED
    BY <1>3, <1>4, <2>1, <2>3, <2>5 DEF NowKept
<1>15. StartKept(p)'
  BY <1>1 DEF StartKept
<1>. QED
  BY <1>11, <1>12, <1>13, <1>14, <1>15 DEF Kept

LEMMA CreateKept == ASSUME TInv, KInv, SyncCreate PROVE KInv'
<1>. SUFFICES ASSUME NEW p, p = sync.page PROVE KInv'
  OBVIOUS
<1>1. mode = "up" /\ sync.pc = "create" /\ Page = p /\ sync.page \in sync.todo /\ p \in Pages
      /\ UNCHANGED <<local, known, stored, mode, conflicted, poll, gone, windows>>
  BY SyncAt DEF SyncCreate, At, Page, AtNoPage
<1>2. CASE remote[Page] # Absent
  BY <1>1, <1>2, FailKept DEF SyncCreate
<1>3. CASE remote[Page] = Absent
  <2>1. /\ SameFile /\ sync'.pc = "meta" /\ sync'.act = "upload"
        /\ sync'.bytes = sync.mine /\ sync'.saved.rev = NewRevision
        /\ remote'[p].rev = NewRevision /\ remote'[p].body = sync.mine
        /\ \A q \in Pages : q # p => remote'[q] = remote[q]
    BY <1>3, SyncCreateFields
  <2>2. UNCHANGED dirty
    BY <1>3 DEF SyncCreate
  <2>3. Grown /\ SameStart /\ \A q \in Pages : q # p => SamePage(q)
    BY <1>1, <2>1, GrownSame DEF SameStart, SamePage, SameRemote, SameSaved
  <2>4. AtPage(p)
    BY <1>1, <2>1, <2>2, <2>3, GoesOnAt DEF Steps, SameFile
  <2>5. AllKeep(p, sync.mine, sync.mine)
    BY KeepsSub
  <2>6. StoresAt(p, sync.mine, sync.mine)
    BY <1>1, <2>1, <2>2, <2>3, <2>5 DEF StoresAt
  <2>. QED
    BY <1>1, <2>4, <2>6, StoreAt, OnePage DEF KInv
<1>. QED
  BY <1>2, <1>3

\* The items of a refresh, where a sync goes on and has not stored anything.
LEMMA ItemGoesOn ==
  ASSUME NEW p, Grown, SameRemote(p), SameSaved(p), ~Late(p), NEW e, ItemKept(p, e),
         Late(p)' => sync'.saved.rev > e.snapshot.rev \/ AllKeep(p, sync.bytes, e.body)',
         SyncIn(p, {"decide"})' => sync'.seen.rev > e.snapshot.rev \/ AllKeep(p, sync.seen.body, e.body)'
  PROVE  ItemKept(p, e)'
<1>1. /\ \A A, B : AllKeep(p, A, B) => AllKeep(p, A, B)'
      /\ \A s : (Is(p, s) <=> Is(p, s)') /\ (Past(p, s) <=> Past(p, s)')
  BY AllStay, RevisionsSame
<1>2. \A n : SavedSince(p, n) => SavedSince(p, n)'
  BY SnapshotForSame DEF SavedSince
<1>3. \/ SavedSince(p, e.snapshot.rev)'
      \/ AllKeep(p, e.body, remote[p].body)' /\ AllKeep(p, stored[p].base, e.body)'
  <2>1. CASE SavedSince(p, e.snapshot.rev)
    BY <1>2, <2>1
  <2>2. CASE AllKeep(p, e.body, remote[p].body) /\ AllKeep(p, stored[p].base, e.body)
    BY <1>1, <2>2 DEF SameRemote, SameSaved
  <2>. QED
    BY <2>1, <2>2 DEF ItemKept
<1>4. Past(p, e.snapshot)' /\ (Is(p, e.snapshot)' => remote'[p].body = e.body)
  BY <1>1 DEF ItemKept, SameRemote
<1>. QED
  BY <1>3, <1>4 DEF ItemKept

LEMMA NowGoesOn ==
  ASSUME NEW p, Grown, SameRemote(p), NoCopies(p), UNCHANGED poll, ~Settled(p)', NowKept(p),
         \A e : NowAt(p, {"meta", "base"}) /\ e = poll.now =>
           /\ SyncIn(p, {"decide", "post"})' => e.snapshot.rev \leq sync'.seen.rev \/ W(p, Over)'
           /\ Late(p)' => e.snapshot.rev \leq sync'.saved.rev \/ W(p, Over)'
  PROVE  NowKept(p)'
<1>. SUFFICES ASSUME NowAt(p, {"meta", "base"})', NEW e, e = poll.now PROVE NowKept(p)'
  BY DEF NowKept
<1>1. NowAt(p, {"meta", "base"}) /\ poll'.now = e
  BY DEF NowAt
<1>2. /\ \A A, B : AllKeep(p, A, B) => AllKeep(p, A, B)'
      /\ \A s : (Is(p, s) <=> Is(p, s)') /\ (Past(p, s) <=> Past(p, s)')
  BY AllStay, RevisionsSame
<1>3. /\ Past(p, e.snapshot) /\ (Is(p, e.snapshot) => remote[p].body = e.body)
      /\ AllKeep(p, e.body, remote[p].body) /\ \A t \in Copies(p) : AllKeep(p, e.body, t)
  BY <1>1 DEF NowKept
<1>4. /\ Past(p, e.snapshot)' /\ (Is(p, e.snapshot)' => remote'[p].body = e.body)
      /\ AllKeep(p, e.body, remote[p].body)' /\ \A t \in Copies(p)' : AllKeep(p, e.body, t)'
  BY <1>2, <1>3 DEF SameRemote, NoCopies
<1>5. /\ SyncIn(p, {"decide", "post"})' => e.snapshot.rev \leq sync'.seen.rev \/ W(p, Over)'
      /\ Late(p)' => e.snapshot.rev \leq sync'.saved.rev \/ W(p, Over)'
  BY <1>1
<1>. QED
  BY <1>1, <1>4, <1>5 DEF NowKept

LEMMA PastKnown ==
  ASSUME TInv, NEW p \in Pages, PageKept(p), remote[p] # Absent
  PROVE  known[p].rev \leq remote[p].rev /\ stored[p].snapshot.rev \leq remote[p].rev
<1>1. remote[p] \in PageType /\ remote[p].rev \in Nat
  BY DEF TInv, StateType, PageType
<1>2. known[p] # NoSnapshot => Past(p, known[p])
  BY DEF PageKept, SnapshotKept
<1>3. stored[p].snapshot # NoSnapshot => Past(p, stored[p].snapshot)
  BY DEF PageKept, SnapshotKept
<1>. QED
  BY <1>1, <1>2, <1>3 DEF Past, NoSnapshot

LEMMA GetKept == ASSUME TInv, KInv, SyncGet PROVE KInv'
<1>. SUFFICES ASSUME NEW p, p = sync.page PROVE KInv'
  OBVIOUS
<1>1. mode = "up" /\ sync.pc = "get" /\ Page = p
      /\ UNCHANGED <<remote, local, known, stored, mode, dirty, conflicted, poll, gone>>
  BY DEF SyncGet, At, Page
<1>2. CASE remote[Page] = Absent
  BY <1>1, <1>2, PageEndsKept DEF SyncGet, Skip
<1>3. CASE remote[Page] # Absent
  <2>1. UNCHANGED windows
    BY <1>3 DEF SyncGet
  <2>2. /\ SameBatch /\ sync'.page = p /\ sync'.mine = sync.mine /\ sync'.pc = "decide"
        /\ sync'.seen = remote[p] /\ sync'.snapshot = sync.snapshot
    BY <1>3, SyncGetFields DEF SameFile
  <2>3. Grown /\ SameStart /\ \A q : SamePage(q)
    BY <1>1, <2>1, SamePages, GrownSame DEF SameStart
  <2>4. p \in Pages /\ p \in sync.todo /\ SyncIn(p, Steps) /\ SyncIn(p, {"get"})
    BY <1>1, SyncAt DEF AtNoPage, Steps
  <2>5. AtPage(p) /\ ~Settled(p)' /\ \A s : sync'.pc \in s <=> SyncIn(p, s)'
    BY <1>1, <2>2, <2>3, <2>4, GoesOnAt DEF Steps
  <2>6. ASSUME Unapplied' = Unapplied PROVE Kept(p)'
    <3>1. PageKept(p) /\ SyncKept(p) /\ ItemsKept(p) /\ NowKept(p)
      BY <2>4 DEF KInv, Kept
    <3>2. /\ ~Late(p) /\ ~Merging(p) /\ ~SyncIn(p, {"base"}) /\ ~Written /\ ~Written'
          /\ ~Late(p)' /\ SyncIn(p, Steps)'
      BY <1>1, <2>2 DEF SyncIn, Late, Merging, Written, Steps
    <3>3. StillMerging(p) /\ NotSettled(p) /\ PollSame(p)
      BY <1>1, <2>5, <3>2 DEF StillMerging, NotSettled, PollSame
    <3>4. NoCopies(p) /\ sync.mine \in Copies(p)
      <4>1. Copies(p) = {local[p], sync.mine}
        BY <2>4, <3>2, CopiesOf
      <4>2. Copies(p)' = {local'[p], sync'.mine}
        BY <3>2, CopiesAfter
      <4>. QED
        BY <1>1, <2>2, <4>1, <4>2 DEF NoCopies
    <3>5. PageKept(p)'
      BY <2>3, <3>1, <3>2, <3>3, <3>4, PageStays DEF SamePage
    <3>6. known[p].rev \leq remote[p].rev /\ stored[p].snapshot.rev \leq remote[p].rev
      BY <1>1, <1>3, <2>4, <3>1, PastKnown
    <3>7. remote[p].rev \in Nat
      BY <2>4 DEF TInv, StateType, PageType
    <3>8. /\ \A A, B : AllKeep(p, A, B) => AllKeep(p, A, B)'
          /\ \A A, B : Keeps(OfAll, p, A, B) => Keeps(OfAll, p, A, B)'
      BY <2>3, AllStay
    <3>9. SyncKept(p)'
      <4>1. SyncFile(p)'
        <5>1. Current' = Current
          BY <2>2, <3>2 DEF Current
        <5>. QED
          BY <1>1, <2>3, <2>4, <3>1, <5>1, FileStays
      <4>2. SyncSeen(p)'
        BY <1>1, <2>2, <3>6, <3>7 DEF SyncSeen, Past, SavedUpTo
      <4>3. SyncDecides(p)'
        <5>1. AllKeep(p, stored[p].base, remote[p].body)
          BY <3>1 DEF PageKept, BaseKept
        <5>2. sync.snapshot.rev = remote[p].rev => Keeps(OfAll, p, remote[p].body, sync.mine)
          BY <2>4, <3>1 DEF SyncKept, SyncGot, Is
        <5>3. AllKeep(p, stored[p].base, sync.seen.body)'
          BY <1>1, <2>2, <3>8, <5>1
        <5>4. sync'.seen.rev = sync'.snapshot.rev => Keeps(OfAll, p, sync.seen.body, sync.mine)'
          BY <2>2, <3>8, <5>2
        <5>. QED
          BY <1>1, <2>2, <5>3, <5>4 DEF SyncDecides
      <4>. QED
        BY <2>2, <4>1, <4>2, <4>3 DEF SyncKept, SyncGot, SyncPosts, SyncBytes, SyncSaved, SyncMerged,
                                      SyncIn, Late
    <3>10. ItemsKept(p)'
      <4>. SUFFICES ASSUME NEW e \in Unapplied, e.page = p PROVE ItemKept(p, e)'
        BY <2>6 DEF ItemsKept
      <4>1. ItemKept(p, e) /\ Given(e.snapshot)
        BY <3>1, UnappliedType DEF ItemsKept
      <4>2. e.snapshot.rev < remote[p].rev \/ remote[p].body = e.body
        BY <1>1, <1>3, <3>7, <4>1 DEF ItemKept, Past, Is, Given
      <4>3. sync'.seen.rev > e.snapshot.rev \/ AllKeep(p, sync.seen.body, e.body)'
        <5>1. AllKeep(p, remote[p].body, remote[p].body)
          BY KeepsSub
        <5>2. AllKeep(p, remote[p].body, remote[p].body)'
          BY <1>1, <3>8, <5>1
        <5>3. remote[p].body = e.body => AllKeep(p, sync.seen.body, e.body)'
          BY <1>1, <2>2, <5>2
        <5>. QED
          BY <2>2, <3>7, <4>1, <4>2, <5>3 DEF Given, TInv, StateType
      <4>. QED
        BY <2>3, <3>2, <4>1, <4>3, ItemGoesOn DEF SamePage
    <3>11. NowKept(p)'
      <4>1. ASSUME NEW e, NowAt(p, {"meta", "base"}), e = poll.now PROVE e.snapshot.rev \leq remote[p].rev
        BY <1>1, <1>3, <3>1, <4>1 DEF NowKept, Past
      <4>. QED
        BY <1>1, <2>2, <2>3, <2>5, <3>1, <3>2, <3>4, <4>1, NowGoesOn DEF SamePage
    <3>12. StartKept(p)'
      BY <1>1 DEF StartKept
    <3>. QED
      BY <3>5, <3>9, <3>10, <3>11, <3>12 DEF Kept
  <2>. QED
    BY <2>5, <2>6, OnePage
<1>. QED
  BY <1>2, <1>3

\* What was decided has all of the file and, but for a conflict, all of the
\* page the sync has seen.
DecidedAt(p, pc, act, bytes) ==
  /\ p \in Pages /\ mode = "up" /\ Grown
  /\ UNCHANGED <<remote, local, known, stored, mode, dirty, conflicted, poll, gone, windows>>
  /\ sync.page = p /\ sync.pc = "decide" /\ SameFile /\ sync'.seen = sync.seen
  /\ sync'.pc = pc /\ sync'.act = act /\ sync'.bytes = bytes
  /\ AllKeep(p, sync.mine, bytes)
  /\ act \in {"upload", "conflict", "synced"} => bytes = sync.mine
  /\ \/ pc = "post" /\ (act = "conflict" \/ Keeps(OfAll, p, sync.seen.body, bytes))
     \/ /\ (pc = "meta" /\ act = "synced") \/ (pc = "write" /\ act = "accept")
        /\ bytes = sync.seen.body /\ sync'.saved.rev = sync.seen.rev

LEMMA DecideAt ==
  ASSUME TInv, NEW p, Kept(p), NEW pc, NEW act, NEW bytes, DecidedAt(p, pc, act, bytes),
         Unapplied' = Unapplied
  PROVE  Kept(p)'
<1>1. /\ p \in Pages /\ mode = "up" /\ Grown
      /\ UNCHANGED <<remote, local, known, stored, mode, dirty, conflicted, poll, gone, windows>>
      /\ sync.page = p /\ sync.pc = "decide" /\ SameBatch /\ sync'.page = p /\ sync'.mine = sync.mine
      /\ sync'.seen = sync.seen /\ sync'.pc = pc /\ sync'.act = act /\ sync'.bytes = bytes
      /\ AllKeep(p, sync.mine, bytes)
      /\ act \in {"upload", "conflict", "synced"} => bytes = sync.mine
      /\ pc \in {"post", "meta", "write"}
  BY DEF DecidedAt, SameFile
<1>2. PageKept(p) /\ SyncKept(p) /\ ItemsKept(p) /\ NowKept(p)
  BY DEF Kept
<1>3. \/ pc = "post" /\ (act = "conflict" \/ Keeps(OfAll, p, sync.seen.body, bytes))
      \/ /\ (pc = "meta" /\ act = "synced") \/ (pc = "write" /\ act = "accept")
         /\ bytes = sync.seen.body /\ sync'.saved.rev = sync.seen.rev
  BY DEF DecidedAt
<1>4. /\ SyncIn(p, Steps) /\ SyncIn(p, {"decide"}) /\ ~Late(p) /\ ~Merging(p) /\ ~SyncIn(p, {"base"})
      /\ SyncIn(p, Steps)' /\ ~Written /\ ~Merging(p)' /\ ~Written'
      /\ \A s : SyncIn(p, s)' <=> pc \in s
  BY <1>1, <1>3 DEF SyncIn, Steps, Late, Merging, Written
<1>5. Late(p)' => bytes = sync.seen.body /\ sync'.saved.rev = sync.seen.rev
  BY <1>1, <1>3 DEF Late, SyncIn
<1>6. ~Settled(p)' /\ NotSettled(p) /\ StillMerging(p) /\ PollSame(p)
  BY <1>1, <1>4, SyncAt DEF AtNoPage, Settled, SameBatch, NotSettled, StillMerging, PollSame
<1>7. NoCopies(p)
  <2>1. Copies(p) = {local[p], sync.mine}
    BY <1>4, CopiesOf
  <2>2. Copies(p)' = {local'[p], sync'.mine}
    BY <1>4, CopiesAfter
  <2>. QED
    BY <1>1, <2>1, <2>2 DEF NoCopies
<1>8. SameRemote(p) /\ SameSaved(p)
  BY <1>1 DEF SameRemote, SameSaved
<1>9. PageKept(p)'
  BY <1>1, <1>2, <1>4, <1>6, <1>7, <1>8, PageStays
<1>10. /\ \A A, B : AllKeep(p, A, B) => AllKeep(p, A, B)'
       /\ \A A, B : Keeps(OfAll, p, A, B) => Keeps(OfAll, p, A, B)'
  BY <1>1, AllStay
<1>11. /\ Past(p, sync.seen) /\ SavedUpTo(p, sync.seen.rev)
       /\ Is(p, sync.seen) => remote[p].body = sync.seen.body
       /\ sync.seen.body \subseteq remote[p].body \cup gone
  BY <1>2, <1>4 DEF SyncKept, SyncSeen, SyncDecides, SyncIn
<1>12. SavedUpTo(p, sync.seen.rev)'
  BY <1>1, <1>11 DEF SavedUpTo, W
<1>13. SyncKept(p)'
  <2>1. SyncFile(p)'
    <3>1. Current' = Current
      BY <1>1, <1>4 DEF Current
    <3>. QED
      BY <1>1, <1>2, <1>4, <3>1, FileStays
  <2>2. SyncSeen(p)'
    BY <1>1, <1>11, <1>12 DEF SyncSeen, Past, Is, SavedUpTo, W
  <2>3. SyncPosts(p)'
    BY <1>1, <1>3, <1>10 DEF SyncPosts, SyncIn
  <2>4. SyncBytes(p)'
    BY <1>1, <1>10 DEF SyncBytes
  <2>5. SyncSaved(p)'
    BY <1>1, <1>5, <1>11, <1>12 DEF SyncSaved, Past, Is, SavedUpTo, W
  <2>6. SyncMerged(p)'
    BY <1>1, <1>3 DEF SyncMerged, SyncIn
  <2>7. SyncGot(p)' /\ SyncDecides(p)'
    BY <1>1 DEF SyncGot, SyncDecides, SyncIn
  <2>. QED
    BY <2>1, <2>2, <2>3, <2>4, <2>5, <2>6, <2>7 DEF SyncKept
<1>14. ItemsKept(p)'
  <2>. SUFFICES ASSUME NEW e \in Unapplied, e.page = p PROVE ItemKept(p, e)'
    BY DEF ItemsKept
  <2>1. ItemKept(p, e)
    BY <1>2 DEF ItemsKept
  <2>2. sync.seen.rev > e.snapshot.rev \/ AllKeep(p, sync.seen.body, e.body)
    BY <1>4, <2>1 DEF ItemKept
  <2>3. Late(p)' => sync'.saved.rev > e.snapshot.rev \/ AllKeep(p, sync.bytes, e.body)'
    BY <1>1, <1>5, <1>10, <2>2
  <2>4. ~SyncIn(p, {"decide"})'
    BY <1>1 DEF SyncIn
  <2>. QED
    BY <1>1, <1>4, <1>8, <2>1, <2>3, <2>4, ItemGoesOn
<1>15. NowKept(p)'
  <2>1. ASSUME NEW e, NowAt(p, {"meta", "base"}), e = poll.now
        PROVE  e.snapshot.rev \leq sync.seen.rev \/ W(p, Over)'
    BY <1>1, <1>2, <1>4, <2>1, WStays DEF NowKept, SyncIn
  <2>. QED
    BY <1>1, <1>2, <1>5, <1>6, <1>7, <1>8, <2>1, NowGoesOn
<1>16. StartKept(p)'
  BY <1>1 DEF StartKept
<1>. QED
  BY <1>9, <1>13, <1>14, <1>15, <1>16 DEF Kept

\* What the merge policy decides.
LEMMA DecideKeeps ==
  ASSUME NEW p, NEW base, NEW mine, NEW theirs, NEW d \in Decide(base, mine, theirs),
         AllKeep(p, base, mine), AllKeep(p, base, theirs)
  PROVE  /\ AllKeep(p, mine, d.bytes)
         /\ d.act = "conflict" \/ Keeps(OfAll, p, theirs, d.bytes)
         /\ d.act \in {"upload", "conflict", "synced"} => d.bytes = mine
         /\ d.act \in {"accept", "synced"} => d.bytes = theirs
         /\ d.act \in {"upload", "synced", "accept", "conflict", "merge"}
<1>1. AllKeep(p, mine, mine) /\ AllKeep(p, theirs, theirs)
  BY KeepsSub
<1>2. CASE d.act # "merge"
  <2>1. \/ d.act = "upload" /\ d.bytes = mine /\ base = theirs
        \/ d.act = "synced" /\ d.bytes = mine /\ mine = theirs
        \/ d.act = "accept" /\ d.bytes = theirs /\ base = mine
        \/ d.act = "conflict" /\ d.bytes = mine
    BY <1>2, Outcomes
  <2>2. AllKeep(p, mine, d.bytes) /\ (d.act = "conflict" \/ AllKeep(p, theirs, d.bytes))
    BY <1>1, <2>1
  <2>3. d.act = "conflict" \/ Keeps(OfAll, p, theirs, d.bytes)
    BY <2>2, AllOfAll
  <2>. QED
    BY <2>1, <2>2, <2>3
<1>3. CASE d.act = "merge"
  <2>1. d.bytes = (mine \cap theirs) \cup (mine \ base) \cup (theirs \ base)
    BY <1>3, Outcomes
  <2>2. ASSUME NEW v \in Views PROVE Keeps(v, p, mine, d.bytes) /\ Keeps(v, p, theirs, d.bytes)
    BY <2>1 DEF AllKeep, Keeps
  <2>. QED
    BY <1>3, <2>2, ViewFacts DEF AllKeep
<1>. QED
  BY <1>2, <1>3

LEMMA DecideKept == ASSUME TInv, KInv, SyncDecide PROVE KInv'
<1>. SUFFICES ASSUME NEW p, p = sync.page PROVE KInv'
  OBVIOUS
<1>1. mode = "up" /\ sync.pc = "decide" /\ Page = p
      /\ UNCHANGED <<remote, local, known, stored, mode, dirty, conflicted, poll, gone, windows>>
  <2>1. mode = "up" /\ sync.pc = "decide" /\ Page = p
    BY Zenon DEF SyncDecide, At, Page
  <2>2. UNCHANGED <<remote, local, known, stored, mode, dirty, conflicted, poll, count, gone, windows>>
    BY Zenon DEF SyncDecide
  <2>. QED
    BY <2>1, <2>2
<1>2. Grown /\ SameStart /\ \A q : SamePage(q)
  BY <1>1, SamePages, GrownSame DEF SameStart
<1>3. p \in Pages /\ p \in sync.todo /\ SyncIn(p, Steps) /\ SyncIn(p, {"decide"})
  BY <1>1, SyncAt DEF AtNoPage, Steps
<1>4. PageKept(p) /\ SyncKept(p) /\ Kept(p)
  BY <1>3 DEF KInv, Kept
<1>5. ASSUME NEW pc, NEW act, NEW bytes, DecidedAt(p, pc, act, bytes) PROVE KInv'
  <2>1. /\ sync.page = p /\ SameBatch /\ sync'.page = p /\ sync'.pc \in Steps
    BY <1>5 DEF DecidedAt, SameFile, Steps
  <2>2. AtPage(p)
    BY <1>1, <1>2, <1>3, <2>1, GoesOnAt
  <2>. QED
    BY <1>4, <1>5, <2>2, DecideAt, OnePage
<1>6. CASE sync.seen.rev = sync.snapshot.rev
  <2>1. /\ SameFile /\ sync'.pc = "post" /\ sync'.act = "upload" /\ sync'.bytes = sync.mine
        /\ sync'.seen = sync.seen
    BY <1>6, SyncUploadFields
  <2>2. AllKeep(p, sync.mine, sync.mine)
    BY KeepsSub
  <2>3. Keeps(OfAll, p, sync.seen.body, sync.mine)
    BY <1>3, <1>4, <1>6 DEF SyncKept, SyncDecides
  <2>4. DecidedAt(p, "post", "upload", sync.mine)
    BY <1>1, <1>2, <1>3, <2>1, <2>2, <2>3 DEF DecidedAt
  <2>. QED
    BY <1>5, <2>4
<1>7. CASE sync.seen.rev # sync.snapshot.rev
  <2>1. PICK d \in Decide(stored[p].base, sync.mine, sync.seen.body) :
            /\ SameFile /\ sync'.pc = PcAfter(d.act) /\ sync'.act = d.act
            /\ sync'.bytes = d.bytes /\ sync'.seen = sync.seen /\ sync'.saved.rev = sync.seen.rev
    BY <1>7, SyncDecideFields
  <2>2. AllKeep(p, stored[p].base, sync.mine)
    <3>1. ~Merging(p) /\ ~Written
      BY <1>1 DEF Merging, Late, SyncIn, Written
    <3>2. Copies(p) = {local[p], sync.mine}
      BY <1>3, <3>1, CopiesOf
    <3>. QED
      BY <1>4, <3>1, <3>2 DEF PageKept, BaseKept
  <2>3. AllKeep(p, stored[p].base, sync.seen.body)
    BY <1>3, <1>4 DEF SyncKept, SyncDecides
  <2>4. /\ AllKeep(p, sync.mine, d.bytes)
        /\ d.act = "conflict" \/ Keeps(OfAll, p, sync.seen.body, d.bytes)
        /\ d.act \in {"upload", "conflict", "synced"} => d.bytes = sync.mine
        /\ d.act \in {"accept", "synced"} => d.bytes = sync.seen.body
        /\ d.act \in {"upload", "synced", "accept", "conflict", "merge"}
    BY <2>2, <2>3, DecideKeeps
  <2>5. DecidedAt(p, PcAfter(d.act), d.act, d.bytes)
    BY <1>1, <1>2, <1>3, <2>1, <2>4 DEF DecidedAt, PcAfter
  <2>. QED
    BY <1>5, <2>5
<1>. QED
  BY <1>6, <1>7

LEMMA PostEffect ==
  ASSUME TInv, SyncPost, NEW p, p = sync.page, NEW body, PostStored(body)
  PROVE  Grown /\ (~PostOvertaken \/ W(p, {"posted"})')
<1>1. gone \subseteq gone'
  BY DEF PostStored
<1>2. IF PostOvertaken THEN Window(p, "posted") ELSE UNCHANGED windows
  BY DEF PostStored, Page
<1>. QED
  BY <1>1, <1>2 DEF Grown, W, Window

LEMMA PostKept == ASSUME TInv, KInv, SyncPost PROVE KInv'
<1>. SUFFICES ASSUME NEW p, p = sync.page PROVE KInv'
  OBVIOUS
<1>1. mode = "up" /\ sync.pc = "post" /\ Page = p
      /\ UNCHANGED <<local, known, stored, mode, dirty, conflicted, poll>>
  BY DEF SyncPost, At, Page
<1>2. p \in Pages /\ p \in sync.todo /\ SyncIn(p, Steps) /\ SyncIn(p, {"post"})
      /\ sync \in SyncRecord /\ remote[p] \in PageType
  BY <1>1, SyncAt DEF AtNoPage, Steps, TInv, SyncType, StateType
<1>3. sync.act \in {"upload", "conflict", "merge"}
  BY <1>1 DEF TInv, SyncType, SyncControl
<1>4. Kept(p) /\ SyncKept(p)
  BY <1>2 DEF KInv, Kept
<1>5. AllKeep(p, sync.mine, sync.bytes) /\ (sync.act # "merge" => sync.bytes = sync.mine)
  BY <1>2, <1>3, <1>4 DEF SyncKept, SyncBytes, SyncIn
<1>6. ASSUME NEW body \in SUBSET Changes, PostStored(body), sync.bytes \subseteq body,
             body = sync.bytes \/ PostOvertaken
      PROVE  KInv'
  <2>1. /\ SameFile /\ sync'.pc = "meta" /\ sync'.act = sync.act
        /\ sync'.bytes = sync.bytes /\ sync'.saved.rev = NewRevision
        /\ remote'[p].rev = NewRevision /\ remote'[p].body = body
        /\ \A q \in Pages : q # p => remote'[q] = remote[q]
    BY <1>6, SyncPostFields
  <2>2. Grown /\ (~PostOvertaken \/ W(p, {"posted"})')
    BY <1>6, PostEffect
  <2>3. SameStart /\ \A q \in Pages : q # p => SamePage(q)
    BY <1>1, <2>1 DEF SameStart, SamePage, SameRemote, SameSaved
  <2>4. AtPage(p)
    BY <1>1, <1>2, <2>1, <2>2, <2>3, GoesOnAt DEF Steps, SameFile
  <2>5. body = sync.bytes \/ W(p, {"posted"})'
    BY <1>6, <2>2
  <2>6. StoresAt(p, body, sync.bytes)
    BY <1>1, <1>2, <1>3, <1>5, <1>6, <2>1, <2>2, <2>5 DEF StoresAt
  <2>. QED
    BY <1>4, <2>4, <2>6, StoreAt, OnePage
<1>7. CASE Skip /\ UNCHANGED <<remote, gone, count>>
  BY <1>1, <1>7, PageEndsKept DEF Skip
<1>8. CASE PageEnds(TRUE) /\ UNCHANGED <<remote, gone, count, windows>>
  BY <1>1, <1>8, PageEndsKept
<1>9. sync.bytes \in SUBSET Changes /\ (sync.bytes \cup remote[p].body) \in SUBSET Changes
  BY <1>2 DEF SyncRecord, PageType
<1>10. CASE PostStored(sync.bytes)
  BY <1>6, <1>9, <1>10
<1>11. CASE PostOvertaken /\ PostStored(sync.bytes \cup remote[p].body)
  BY <1>6, <1>9, <1>11
<1>. QED
  BY <1>1, <1>7, <1>8, <1>10, <1>11 DEF SyncPost

(***************************************************************************)
(* A sync that saves and writes what it decided.                           *)
(***************************************************************************)
LEMMA LateFacts ==
  ASSUME TInv, NEW p \in Pages, Late(p), Kept(p)
  PROVE  /\ sync.page = p /\ sync.pc \in {"meta", "base", "write"} /\ SyncIn(p, Steps) /\ ~Settled(p)
         /\ p \in sync.todo /\ Given(sync.saved) /\ sync.saved \in Pair /\ remote[p].rev \in Nat
         /\ Past(p, sync.saved) /\ SavedUpTo(p, sync.saved.rev)
         /\ sync.bytes \subseteq remote[p].body \cup gone
         /\ Is(p, sync.saved) => remote[p].body = sync.bytes \/ W(p, {"posted"})
         /\ AllKeep(p, sync.mine, sync.bytes)
         /\ AllKeep(p, Current, local[p])
         /\ p \in dirty \/ local[p] = Current \/ W(p, Over)
         /\ sync.pc \in {"meta", "base"} /\ sync.act # "merge" => Current = sync.bytes
<1>1. sync.page = p /\ sync.pc \in {"meta", "base", "write"} /\ SyncIn(p, Steps) /\ SyncKept(p)
  BY DEF Late, SyncIn, Steps, Kept
<1>2. ~Settled(p) /\ p \in sync.todo /\ Given(sync.saved) /\ sync \in SyncRecord
      /\ (sync.pc \in {"meta", "base"} => sync.act # "none")
  BY <1>1, SyncAt DEF TInv, SyncType, SyncControl, AtNoPage
<1>3. sync.saved \in Pair /\ remote[p].rev \in Nat /\ sync.act \in Acts \cup {"none"}
  BY <1>2, FieldTypes DEF TInv, StateType, PageType
<1>4. /\ Past(p, sync.saved) /\ SavedUpTo(p, sync.saved.rev)
      /\ sync.bytes \subseteq remote[p].body \cup gone
      /\ Is(p, sync.saved) => remote[p].body = sync.bytes \/ W(p, {"posted"})
  BY <1>1 DEF SyncKept, SyncSaved
<1>5. /\ AllKeep(p, sync.mine, sync.bytes)
      /\ sync.act \in {"upload", "conflict", "synced"} => sync.bytes = sync.mine
  BY <1>1 DEF SyncKept, SyncBytes, SyncIn
<1>6. /\ AllKeep(p, Current, local[p])
      /\ p \in dirty \/ local[p] = Current \/ W(p, Over)
  BY <1>1 DEF SyncKept, SyncFile
<1>7. sync.pc \in {"meta", "base"} /\ sync.act # "merge" => Current = sync.bytes
  BY <1>2, <1>3, <1>5 DEF Current, Written, Acts
<1>. QED
  BY <1>1, <1>2, <1>3, <1>4, <1>5, <1>6, <1>7

LEMMA IsSaved ==
  ASSUME TInv, NEW p \in Pages, Late(p), Kept(p), NEW s, Is(p, s), Given(s), s.rev \leq sync.saved.rev
  PROVE  Is(p, sync.saved)
<1>1. Past(p, sync.saved) /\ sync.saved \in Pair /\ remote[p].rev \in Nat
  BY LateFacts
<1>2. remote[p].rev = s.rev /\ count.rev \in Nat /\ s.rev \in 1..count.rev
  BY DEF Is, Given, TInv, StateType
<1>3. s.rev \in Nat /\ s.rev >= 1
  BY <1>2
<1>4. Absent.rev = 0
  BY DEF Absent
<1>5. remote[p] # Absent
  BY <1>2, <1>3, <1>4
<1>6. sync.saved.rev \leq remote[p].rev /\ sync.saved.rev \in Nat
  BY <1>1, <1>5 DEF Past, Pair
<1>. QED
  BY <1>1, <1>2, <1>6 DEF Is

LEMMA SavedAhead ==
  ASSUME TInv, NEW p \in Pages, Late(p), Kept(p), NEW n \in Nat, SavedSince(p, n)
  PROVE  sync.saved.rev > n \/ W(p, Over)
<1>1. SavedUpTo(p, sync.saved.rev) /\ sync.saved \in Pair
  BY LateFacts
<1>2. SnapshotFor(p).rev \in Nat
  BY SnapshotForType DEF Pair
<1>3. known[p].rev \leq sync.saved.rev /\ stored[p].snapshot.rev \leq sync.saved.rev =>
        SnapshotFor(p).rev \leq sync.saved.rev
  BY DEF SnapshotFor
<1>. QED
  BY <1>1, <1>2, <1>3 DEF SavedSince, SavedUpTo, Pair

LEMMA ItemAfter ==
  ASSUME TInv, NEW p \in Pages, Late(p), Kept(p), NEW e \in Unapplied, e.page = p,
         Grown, SameRemote(p), stored'[p].base = stored[p].base \/ stored'[p].base = sync.bytes,
         W(p, Over) \/ (sync.saved.rev > e.snapshot.rev => SavedSince(p, e.snapshot.rev)'),
         Late(p)' => sync'.saved = sync.saved /\ sync'.bytes = sync.bytes,
         ~SyncIn(p, {"decide"})'
  PROVE  ItemKept(p, e)'
<1>1. ItemKept(p, e) /\ Given(e.snapshot) /\ e.snapshot.rev \in Nat
  BY UnappliedType DEF Kept, ItemsKept, Given, TInv, StateType
<1>2. /\ \A A, B : AllKeep(p, A, B) => AllKeep(p, A, B)'
      /\ \A s : (Is(p, s) <=> Is(p, s)') /\ (Past(p, s) <=> Past(p, s)')
  BY AllStay, RevisionsSame
<1>3. Past(p, e.snapshot)' /\ (Is(p, e.snapshot)' => remote'[p].body = e.body)
  BY <1>1, <1>2 DEF ItemKept, SameRemote
<1>4. CASE W(p, Over)
  <2>1. \A A, B : AllKeep(p, A, B)'
    BY <1>2, <1>4, KeepsHit
  <2>. QED
    BY <1>3, <2>1 DEF ItemKept
<1>5. CASE ~W(p, Over)
  <2>1. sync.saved.rev > e.snapshot.rev => SavedSince(p, e.snapshot.rev)'
    BY <1>5
  <2>2. SavedSince(p, e.snapshot.rev) => sync.saved.rev > e.snapshot.rev
    BY <1>1, <1>5, SavedAhead
  <2>3. sync.saved.rev > e.snapshot.rev \/ AllKeep(p, sync.bytes, e.body)
    BY <1>1 DEF ItemKept
  <2>4. Late(p)' => sync'.saved.rev > e.snapshot.rev \/ AllKeep(p, sync.bytes, e.body)'
    BY <1>2, <2>3
  <2>5. \/ SavedSince(p, e.snapshot.rev)'
        \/ AllKeep(p, e.body, remote[p].body)' /\ AllKeep(p, stored[p].base, e.body)'
    <3>1. CASE sync.saved.rev > e.snapshot.rev
      BY <2>1, <3>1
    <3>2. CASE ~(sync.saved.rev > e.snapshot.rev)
      <4>1. AllKeep(p, e.body, remote[p].body) /\ AllKeep(p, stored[p].base, e.body)
        BY <1>1, <2>2, <3>2 DEF ItemKept
      <4>2. AllKeep(p, sync.bytes, e.body)
        BY <2>3, <3>2
      <4>. QED
        BY <1>2, <4>1, <4>2 DEF SameRemote
    <3>. QED
      BY <3>1, <3>2
  <2>. QED
    BY <1>3, <2>4, <2>5 DEF ItemKept
<1>. QED
  BY <1>4, <1>5

\* A text that is saved is the page's, unless an update got between.
LEMMA BytesInCopies ==
  ASSUME TInv, NEW p \in Pages, Late(p), Kept(p), sync.pc \in {"meta", "base"}, sync.act # "merge"
  PROVE  \A t \in Copies(p) : AllKeep(p, sync.bytes, t)
<1>1. SyncIn(p, Steps) /\ Current = sync.bytes /\ AllKeep(p, sync.bytes, local[p])
  BY LateFacts
<1>2. \A t \in Copies(p) : t = local[p] \/ t = Current
  BY <1>1, CopiesOf DEF Current
<1>3. AllKeep(p, sync.bytes, sync.bytes)
  BY KeepsSub
<1>. QED
  BY <1>1, <1>2, <1>3

LEMMA SavedText ==
  ASSUME TInv, NEW p \in Pages, Late(p), Kept(p), sync.pc \in {"meta", "base"}, sync.act # "merge",
         Is(p, sync.saved)
  PROVE  \A t \in Copies(p) : Keeps(OfAll, p, remote[p].body, t)
<1>1. remote[p].body = sync.bytes \/ W(p, {"posted"})
  BY LateFacts
<1>2. W(p, {"posted"}) => \A A, B : Keeps(OfAll, p, A, B)
  BY ViewFacts DEF Keeps, W
<1>. QED
  BY <1>1, <1>2, BytesInCopies, AllOfAll

LEMMA MetaKept == ASSUME TInv, KInv, SyncMeta PROVE KInv'
<1>. SUFFICES ASSUME NEW p, p = sync.page PROVE KInv'
  OBVIOUS
<1>1. mode = "up" /\ sync.pc = "meta" /\ Page = p
      /\ UNCHANGED <<remote, local, known, mode, dirty, conflicted, poll, count, gone, windows>>
      /\ stored' = [stored EXCEPT ![p].snapshot = sync.saved]
  BY DEF SyncMeta, At, Page
<1>2. p \in Pages /\ Late(p) /\ SyncIn(p, {"meta"}) /\ p \in sync.todo
  BY <1>1, SyncAt DEF AtNoPage, Late
<1>3. Kept(p) /\ PageKept(p) /\ SyncKept(p) /\ NowKept(p)
  BY <1>2 DEF KInv, Kept
<1>4. /\ sync'.pc = "base" /\ SameFile /\ sync'.act = sync.act
      /\ sync'.bytes = sync.bytes /\ sync'.saved = sync.saved
  <2>1. sync' = [sync EXCEPT !.pc = "base"]
    BY DEF SyncMeta
  <2>. QED
    BY <1>1, <2>1, SyncGoesOn
<1>5. /\ sync.saved \in Pair /\ Given(sync.saved) /\ SyncIn(p, Steps)
      /\ Past(p, sync.saved) /\ SavedUpTo(p, sync.saved.rev)
      /\ sync.bytes \subseteq remote[p].body \cup gone
      /\ Is(p, sync.saved) => remote[p].body = sync.bytes \/ W(p, {"posted"})
      /\ AllKeep(p, sync.mine, sync.bytes)
  BY <1>2, <1>3, LateFacts
<1>6. /\ stored'[p].snapshot = sync.saved /\ stored'[p].base = stored[p].base
      /\ \A q \in Pages : q # p => stored'[q] = stored[q]
  BY <1>1, <1>2, <1>5, SnapshotSaved
<1>7. Grown /\ SameStart /\ (\A q \in Pages : q # p => SamePage(q)) /\ SameRemote(p)
  BY <1>1, <1>6, GrownSame DEF SameStart, SamePage, SameRemote, SameSaved
<1>8. AtPage(p) /\ ~Settled(p)' /\ \A s : sync'.pc \in s <=> SyncIn(p, s)'
  BY <1>1, <1>2, <1>4, <1>7, GoesOnAt DEF Steps, SameFile
<1>9. ASSUME Unapplied' = Unapplied PROVE Kept(p)'
  <2>1. /\ Late(p)' /\ (Merging(p) <=> Merging(p)') /\ Written' = Written /\ SyncIn(p, Steps)'
        /\ ~SyncIn(p, {"decide"})' /\ ~SyncIn(p, {"decide", "post"})' /\ SyncIn(p, {"base"})'
    BY <1>1, <1>2, <1>4, <1>8 DEF Late, Merging, Written, Steps
  <2>2. Copies(p)' = Copies(p)
    BY <1>1, <1>4, <1>5, <2>1 DEF Copies, SameFile
  <2>3. StillMerging(p) /\ NoCopies(p) /\ NotSettled(p) /\ SyncSees(p)
    BY <1>2, <1>4, <1>8, <2>1, <2>2 DEF StillMerging, NoCopies, NotSettled, SyncSees
  <2>4. PageKept(p)'
    <3>1. Uploaded(p)' /\ KnownFile(p)'
      BY <1>8 DEF Uploaded, KnownFile
    <3>2. BaseKept(p)'
      BY <1>3, <1>6, <1>7, <2>3, BaseStays DEF PageKept
    <3>3. SnapshotKept(p, known[p])'
      <4>1. SnapshotKept(p, known[p]) /\ known'[p] = known[p]
        BY <1>1, <1>3 DEF PageKept
      <4>. QED
        BY <1>7, <2>3, <4>1, SnapshotStays
    <3>4. SnapshotKept(p, stored[p].snapshot)'
      <4>1. SnapshotKept(p, sync.saved)
        <5>1. CASE sync.act = "merge"
          BY <1>2, <1>5, <5>1 DEF SnapshotKept, Merging
        <5>2. CASE sync.act # "merge"
          BY <1>1, <1>2, <1>3, <1>5, <5>2, SavedText DEF SnapshotKept
        <5>. QED
          BY <5>1, <5>2
      <4>. QED
        BY <1>6, <1>7, <2>3, <4>1, SnapshotStays
    <3>5. StoredIsKnown(p)'
      BY <2>1 DEF StoredIsKnown
    <3>. QED
      BY <3>1, <3>2, <3>3, <3>4, <3>5 DEF PageKept
  <2>5. SyncKept(p)'
    <3>1. SyncFile(p)'
      <4>1. Current' = Current
        BY <1>4, <2>1 DEF Current, SameFile
      <4>. QED
        BY <1>1, <1>3, <1>5, <1>7, <4>1, FileStays
    <3>2. SyncBytes(p)'
      <4>1. AllKeep(p, sync.mine, sync.bytes)'
        <5>1. sync'.mine = sync.mine /\ sync'.bytes = sync.bytes
          BY <1>4 DEF SameFile
        <5>. QED
          BY <1>5, <1>7, <5>1, AllStay
      <4>2. sync.act \in {"upload", "conflict", "synced"} => sync.bytes = sync.mine
        BY <1>2, <1>3 DEF SyncKept, SyncBytes, SyncIn
      <4>. QED
        <5>1. sync'.mine = sync.mine /\ sync'.bytes = sync.bytes /\ sync'.act = sync.act
          BY <1>4 DEF SameFile
        <5>. QED
          BY <4>1, <4>2, <5>1 DEF SyncBytes
    <3>3. SyncSaved(p)'
      <4>1. SavedUpTo(p, sync.saved.rev)'
        BY <1>1, <1>4, <1>5, <1>6 DEF SavedUpTo, W, Pair
      <4>. QED
        BY <1>1, <1>4, <1>5, <4>1 DEF SyncSaved, Past, Is, W
    <3>. QED
      BY <1>4, <3>1, <3>2, <3>3 DEF SyncKept, SyncGot, SyncSeen, SyncDecides, SyncPosts, SyncMerged, SyncIn
  <2>6. ItemsKept(p)'
    <3>. SUFFICES ASSUME NEW e \in Unapplied, e.page = p PROVE ItemKept(p, e)'
      BY <1>9 DEF ItemsKept
    <3>1. sync.saved.rev > e.snapshot.rev => SavedSince(p, e.snapshot.rev)'
      BY <1>4, <2>1 DEF SavedSince
    <3>. QED
      BY <1>2, <1>3, <1>4, <1>6, <1>7, <2>1, <3>1, ItemAfter
  <2>7. NowKept(p)'
    BY <1>1, <1>3, <1>7, <1>8, <2>3, NowStays DEF NowAt
  <2>8. StartKept(p)'
    BY <1>1 DEF StartKept
  <2>. QED
    BY <2>4, <2>5, <2>6, <2>7, <2>8 DEF Kept
<1>. QED
  BY <1>8, <1>9, OnePage

\* What is saved is of a file that has the page's text.
LEMMA SavedSameText ==
  ASSUME TInv, NEW p \in Pages, Late(p), Kept(p), sync.pc \in {"meta", "base"}, sync.act # "merge",
         p \notin dirty
  PROVE  /\ local[p] = sync.bytes \/ W(p, Over)
         /\ Is(p, sync.saved) => SameText(p)
<1>1. local[p] = sync.bytes \/ W(p, Over)
  BY LateFacts
<1>2. Is(p, sync.saved) => remote[p].body = sync.bytes \/ W(p, {"posted"})
  BY LateFacts
<1>3. W(p, Over) \/ W(p, {"posted"}) => SameText(p)
  BY DEF W, SameText, MayDiffer
<1>. QED
  BY <1>1, <1>2, <1>3 DEF SameText

\* The base and the index have been saved, and the sync is still at the page
\* or has left it.
BaseAt(p) ==
  /\ p \in Pages /\ mode = "up" /\ SyncIn(p, {"base"})
  /\ UNCHANGED <<remote, local, mode, dirty, conflicted, poll, gone, windows>>
  /\ known'[p] = sync.saved
  /\ stored'[p].base = sync.bytes /\ stored'[p].snapshot = stored[p].snapshot
  /\ \/ /\ sync.act = "merge" /\ SameFile /\ sync'.pc = "write" /\ sync'.act = "merge"
        /\ sync'.bytes = sync.bytes /\ sync'.saved = sync.saved
     \/ /\ sync.act # "merge" /\ sync'.pc = "next"
        /\ Settled(p)' => p \notin dirty

LEMMA BaseAtFacts ==
  ASSUME TInv, NEW p, BaseAt(p)
  PROVE  /\ p \in Pages /\ mode = "up" /\ sync.pc = "base" /\ Late(p) /\ Grown /\ SameRemote(p)
         /\ SyncIn(p, Steps) /\ SyncIn(p, {"base"})
         /\ UNCHANGED <<remote, local, mode, dirty, conflicted, poll, gone, windows>>
         /\ StillMerging(p) /\ NoCopies(p) /\ ~SyncIn(p, {"decide"})'
         /\ Late(p)' => sync'.saved = sync.saved /\ sync'.bytes = sync.bytes
         /\ \/ /\ sync.act = "merge" /\ Merging(p) /\ Merging(p)' /\ SyncIn(p, {"write"})' /\ ~Settled(p)'
               /\ SyncIn(p, Steps)' /\ SyncSees(p) /\ Current' = Current
            \/ sync.act # "merge" /\ ~Merging(p) /\ ~SyncIn(p, Steps)' /\ ~Late(p)' /\ ~Merging(p)'
<1>1. /\ p \in Pages /\ mode = "up" /\ sync.pc = "base" /\ Late(p) /\ Grown /\ SameRemote(p)
      /\ SyncIn(p, Steps) /\ SyncIn(p, {"base"})
      /\ UNCHANGED <<remote, local, mode, dirty, conflicted, poll, gone, windows>>
  BY DEF BaseAt, SyncIn, Late, Steps, Grown, SameRemote
<1>2. CASE sync.act = "merge"
  <2>1. /\ SameFile /\ sync'.pc = "write" /\ sync'.act = "merge" /\ sync.page = p
        /\ sync'.bytes = sync.bytes /\ sync'.saved = sync.saved
    BY <1>1, <1>2 DEF BaseAt, SyncIn
  <2>2. \A s : SyncIn(p, s)' <=> "write" \in s
    BY <2>1 DEF SyncIn, SameFile
  <2>3. ~Settled(p)'
    BY <1>1, <2>1, SyncAt DEF Settled, SameFile, SameBatch, AtNoPage
  <2>4. ~Written /\ ~Written' /\ Current' = Current
    BY <1>2, <2>1 DEF Written, Current, SameFile
  <2>5. Late(p)' /\ Merging(p) /\ Merging(p)' /\ SyncIn(p, Steps)'
    BY <1>1, <1>2, <2>1, <2>2 DEF Late, Merging, Steps
  <2>6. NoCopies(p)
    <3>1. Copies(p) = {local[p], sync.mine}
      BY <1>1, <2>4, CopiesOf
    <3>2. Copies(p)' = {local'[p], sync'.mine}
      BY <2>4, <2>5, CopiesAfter
    <3>. QED
      BY <1>1, <2>1, <3>1, <3>2 DEF NoCopies, SameFile
  <2>7. SyncSees(p)
    BY <1>1, <2>1, <2>2, <2>5 DEF SyncSees
  <2>. QED
    BY <1>1, <1>2, <2>1, <2>2, <2>3, <2>4, <2>5, <2>6, <2>7 DEF StillMerging
<1>3. CASE sync.act # "merge"
  <2>1. ~SyncIn(p, Steps)'
    BY <1>1, <1>3 DEF BaseAt, SyncIn, Steps
  <2>2. ~Late(p)' /\ ~Merging(p)' /\ ~Merging(p)
    BY <1>3, <2>1, SyncLeaves DEF Merging
  <2>3. NoCopies(p)
    BY <1>1, <2>1, CopiesOf, CopiesAfter DEF NoCopies
  <2>4. ~SyncIn(p, {"decide"})'
    BY <2>1 DEF SyncIn, Steps
  <2>. QED
    BY <1>1, <1>3, <2>1, <2>2, <2>3, <2>4 DEF StillMerging
<1>. QED
  BY <1>2, <1>3

LEMMA BasePage == ASSUME TInv, NEW p, Kept(p), BaseAt(p) PROVE PageKept(p)'
<1>. SUFFICES ASSUME NEW b, b = sync.bytes PROVE PageKept(p)'
  OBVIOUS
<1>1. /\ p \in Pages /\ sync.pc = "base" /\ Late(p) /\ Grown /\ SameRemote(p)
      /\ UNCHANGED <<local, dirty, poll, gone, windows>>
      /\ StillMerging(p) /\ NoCopies(p)
      /\ (sync.act = "merge" /\ Merging(p)' /\ ~Settled(p)') \/ sync.act # "merge"
  BY BaseAtFacts
<1>2. PageKept(p)
  BY DEF Kept
<1>3. /\ known'[p] = sync.saved /\ stored'[p].base = b /\ stored'[p].snapshot = stored[p].snapshot
      /\ sync.act # "merge" => (Settled(p)' => p \notin dirty)
  BY DEF BaseAt
<1>4. /\ Past(p, sync.saved) /\ SavedUpTo(p, sync.saved.rev)
      /\ b \subseteq remote[p].body \cup gone
      /\ Is(p, sync.saved) => remote[p].body = b \/ W(p, {"posted"})
  BY <1>1, LateFacts
<1>5. Settled(p)' => /\ local[p] = b \/ W(p, Over)
                     /\ Is(p, sync.saved) => SameText(p)
  BY <1>1, <1>3, SavedSameText
<1>6. Uploaded(p)'
  <2>1. W(p, Over) => W(p, MayLack)'
    BY <1>1 DEF W, MayLack
  <2>. QED
    BY <1>1, <1>4, <1>5, <2>1 DEF Uploaded, SameRemote
<1>7. KnownFile(p)'
  BY <1>1, <1>3, <1>5, TextStays, RevisionsSame DEF KnownFile
<1>8. BaseKept(p)'
  <2>1. AllKeep(p, b, remote[p].body)
    BY <1>4, KeepsSub
  <2>2. AllKeep(p, b, remote[p].body)'
    BY <1>1, <2>1, AllStay DEF SameRemote
  <2>3. Merging(p)' \/ \A t \in Copies(p)' : AllKeep(p, b, t)'
    BY <1>1, BytesInCopies, AllStay DEF NoCopies
  <2>. QED
    BY <1>3, <2>2, <2>3 DEF BaseKept
<1>9. StoredIsKnown(p)'
  <2>1. W(p, Over) => W(p, OfAll.but)'
    BY <1>1 DEF W, OfAll
  <2>. QED
    BY <1>3, <1>4, <2>1 DEF SavedUpTo, StoredIsKnown
<1>10. SnapshotKept(p, known[p])'
  <2>1. SnapshotKept(p, sync.saved) \/ Merging(p)'
    BY <1>1, <1>4, SavedText DEF SnapshotKept
  <2>2. SnapshotKept(p, sync.saved) => SnapshotKept(p, known[p])'
    BY <1>1, <1>3, SnapshotStays
  <2>3. Merging(p)' => SnapshotKept(p, known[p])'
    BY <1>1, <1>3, <1>4, RevisionsSame DEF SnapshotKept
  <2>. QED
    BY <2>1, <2>2, <2>3
<1>11. SnapshotKept(p, stored[p].snapshot)'
  <2>1. SnapshotKept(p, stored[p].snapshot)
    BY <1>2 DEF PageKept
  <2>. QED
    BY <1>1, <1>3, <2>1, SnapshotStays
<1>. QED
  BY <1>6, <1>7, <1>8, <1>9, <1>10, <1>11 DEF PageKept

LEMMA BaseSync == ASSUME TInv, NEW p, Kept(p), BaseAt(p) PROVE SyncKept(p)'
<1>1. CASE ~SyncIn(p, Steps)'
  BY <1>1, SyncLeaves
<1>2. CASE SyncIn(p, Steps)'
  <2>1. /\ p \in Pages /\ Late(p) /\ Grown /\ SameRemote(p) /\ SyncIn(p, Steps)
        /\ UNCHANGED <<remote, local, dirty, gone, windows>> /\ Current' = Current /\ sync.act = "merge"
    BY <1>2, BaseAtFacts
  <2>2. /\ SameFile /\ sync'.pc = "write" /\ sync'.act = "merge" /\ sync'.mine = sync.mine
        /\ sync'.bytes = sync.bytes /\ sync'.saved = sync.saved
        /\ known'[p] = sync.saved /\ stored'[p].base = sync.bytes /\ stored'[p].snapshot = stored[p].snapshot
    BY <2>1 DEF BaseAt, SameFile
  <2>3. SyncKept(p)
    BY DEF Kept
  <2>4. /\ Past(p, sync.saved) /\ SavedUpTo(p, sync.saved.rev)
        /\ sync.bytes \subseteq remote[p].body \cup gone
        /\ Is(p, sync.saved) => remote[p].body = sync.bytes \/ W(p, {"posted"})
        /\ AllKeep(p, sync.mine, sync.bytes) /\ sync.saved \in Pair
    BY <2>1, LateFacts
  <2>5. SyncFile(p)'
    BY <2>1, <2>3, FileStays
  <2>6. AllKeep(p, sync.mine, sync.bytes)'
    BY <2>1, <2>2, <2>4, AllStay
  <2>7. SyncBytes(p)'
    BY <2>2, <2>6 DEF SyncBytes
  <2>8. SyncSaved(p)'
    <3>1. SavedUpTo(p, sync.saved.rev)'
      BY <2>1, <2>2, <2>4 DEF SavedUpTo, W, Pair
    <3>2. Is(p, sync.saved)' => remote'[p].body = sync'.bytes \/ W(p, {"posted"})'
      BY <2>1, <2>2, <2>4 DEF Is, W
    <3>3. Past(p, sync.saved)'
      BY <2>1, <2>2, <2>4 DEF Past
    <3>. QED
      BY <2>1, <2>2, <2>4, <3>1, <3>2, <3>3 DEF SyncSaved
  <2>9. SyncMerged(p)'
    BY <2>2 DEF SyncMerged
  <2>. QED
    BY <2>2, <2>5, <2>7, <2>8, <2>9 DEF SyncKept, SyncGot, SyncSeen, SyncDecides, SyncPosts, SyncIn
<1>. QED
  BY <1>1, <1>2

LEMMA BaseNow == ASSUME TInv, NEW p, Kept(p), BaseAt(p) PROVE NowKept(p)'
<1>1. /\ p \in Pages /\ sync.pc = "base" /\ Late(p) /\ Grown /\ SameRemote(p)
      /\ UNCHANGED <<remote, local, dirty, poll, gone, windows>> /\ NoCopies(p)
      /\ \/ sync.act = "merge" /\ ~Settled(p)' /\ SyncSees(p)
         \/ sync.act # "merge" /\ ~SyncIn(p, Steps)' /\ ~Late(p)'
  BY BaseAtFacts
<1>2. NowKept(p)
  BY DEF Kept
<1>3. CASE sync.act = "merge"
  BY <1>1, <1>2, <1>3, NowStays DEF NowAt
<1>4. CASE sync.act # "merge"
  <2>. SUFFICES ASSUME NowAt(p, {"meta", "base"})', NEW e, e = poll.now PROVE NowKept(p)'
    BY DEF NowKept
  <2>1. NowAt(p, {"meta", "base"}) /\ poll'.now = e
    BY <1>1 DEF NowAt
  <2>2. /\ \A A, B : AllKeep(p, A, B) => AllKeep(p, A, B)'
        /\ \A s : (Is(p, s) <=> Is(p, s)') /\ (Past(p, s) <=> Past(p, s)')
    BY <1>1, AllStay, RevisionsSame
  <2>3. /\ Past(p, e.snapshot) /\ (Is(p, e.snapshot) => remote[p].body = e.body)
        /\ AllKeep(p, e.body, remote[p].body) /\ \A t \in Copies(p) : AllKeep(p, e.body, t)
        /\ e.snapshot.rev \leq sync.saved.rev \/ W(p, Over)
    BY <1>1, <1>2, <2>1 DEF NowKept
  <2>4. /\ Past(p, e.snapshot)' /\ (Is(p, e.snapshot)' => remote'[p].body = e.body)
        /\ AllKeep(p, e.body, remote[p].body)' /\ \A t \in Copies(p)' : AllKeep(p, e.body, t)'
    BY <1>1, <2>2, <2>3 DEF SameRemote, NoCopies
  <2>5. ~SyncIn(p, {"decide", "post"})'
    BY <1>1, <1>4 DEF SyncIn, Steps
  <2>6. Settled(p)' /\ Is(p, e.snapshot)' => SameText(p)'
    <3>1. Given(e.snapshot)
      BY <2>1 DEF NowAt, TInv, PollType, Items
    <3>2. Is(p, e.snapshot) => Is(p, sync.saved) \/ W(p, Over)
      BY <1>1, <2>3, <3>1, IsSaved
    <3>3. W(p, Over) => SameText(p)
      BY DEF W, SameText, MayDiffer
    <3>4. Settled(p)' => p \notin dirty
      BY <1>4 DEF BaseAt
    <3>. QED
      BY <1>1, <1>4, <2>2, <3>2, <3>3, <3>4, SavedSameText, TextStays
  <2>. QED
    BY <1>1, <1>4, <2>1, <2>4, <2>5, <2>6 DEF NowKept
<1>. QED
  BY <1>3, <1>4

LEMMA BaseItems ==
  ASSUME TInv, NEW p, Kept(p), BaseAt(p), Unapplied' = Unapplied PROVE ItemsKept(p)'
<1>1. /\ p \in Pages /\ Late(p) /\ Grown /\ SameRemote(p) /\ ~SyncIn(p, {"decide"})'
      /\ Late(p)' => sync'.saved = sync.saved /\ sync'.bytes = sync.bytes
  BY BaseAtFacts
<1>2. Given(sync.saved) /\ sync.saved \in Pair
  BY <1>1, LateFacts
<1>3. known'[p] = sync.saved /\ stored'[p].base = sync.bytes
  BY DEF BaseAt
<1>4. sync.saved # NoSnapshot
  BY <1>2 DEF Given, NoSnapshot, TInv, StateType
<1>5. SnapshotFor(p)' = sync.saved
  BY <1>3, <1>4 DEF SnapshotFor
<1>. SUFFICES ASSUME NEW e \in Unapplied, e.page = p PROVE ItemKept(p, e)'
  BY DEF ItemsKept
<1>6. sync.saved.rev > e.snapshot.rev => SavedSince(p, e.snapshot.rev)'
  BY <1>5 DEF SavedSince
<1>. QED
  BY <1>1, <1>3, <1>6, ItemAfter

LEMMA BaseStepKept == ASSUME TInv, KInv, SyncBase PROVE KInv'
<1>. SUFFICES ASSUME NEW p, p = sync.page PROVE KInv'
  OBVIOUS
<1>1. mode = "up" /\ sync.pc = "base" /\ Page = p
      /\ UNCHANGED <<remote, local, mode, dirty, conflicted, poll, count, gone, windows>>
      /\ stored' = [stored EXCEPT ![p].base = sync.bytes]
      /\ known' = [known EXCEPT ![p] = sync.saved]
  BY DEF SyncBase, At, Page
<1>2. p \in Pages /\ Late(p) /\ SyncIn(p, {"base"}) /\ p \in sync.todo /\ sync.pc \notin AtNoPage
      /\ sync \in SyncRecord
  BY <1>1, SyncAt DEF AtNoPage, Late, TInv, SyncType
<1>3. Kept(p)
  BY <1>2 DEF KInv
<1>4. sync.saved \in Pair /\ Given(sync.saved) /\ sync.bytes \in SUBSET Changes
  BY <1>2, <1>3, LateFacts, FieldTypes
<1>5. /\ stored'[p].base = sync.bytes /\ stored'[p].snapshot = stored[p].snapshot
      /\ \A q \in Pages : stored'[q].snapshot = stored[q].snapshot
      /\ \A q \in Pages : q # p => stored'[q] = stored[q]
  <2>1. stored' = [stored EXCEPT ![p].base = sync.bytes]
    BY <1>1
  <2>. QED
    BY <1>2, <1>4, <2>1, BaseSaved, Zenon
<1>6. known'[p] = sync.saved /\ \A q \in Pages : q # p => known'[q] = known[q]
  BY <1>1, <1>2, <1>4, <1>5, KnownSaved
<1>7. Grown /\ SameStart /\ \A q \in Pages : q # p => SamePage(q)
  BY <1>1, <1>5, <1>6 DEF Grown, SameStart, SamePage, SameRemote, SameSaved
<1>8. AtPage(p) /\ BaseAt(p)
  <2>1. CASE sync.act = "merge"
    <3>1. /\ SameFile /\ sync'.pc = "write" /\ sync'.act = sync.act
          /\ sync'.bytes = sync.bytes /\ sync'.saved = sync.saved
      <4>1. sync' = [sync EXCEPT !.pc = "write"]
        BY <2>1 DEF SyncBase
      <4>. QED
        BY <1>1, <2>1, <4>1, SyncGoesOn
    <3>2. AtPage(p)
      BY <1>1, <1>2, <1>7, <3>1, GoesOnAt DEF Steps, SameFile
    <3>. QED
      BY <1>1, <1>2, <1>5, <1>6, <2>1, <3>1, <3>2 DEF BaseAt
  <2>2. CASE sync.act # "merge"
    <3>. SUFFICES ASSUME NEW c \in BOOLEAN, c = (sync.act = "conflict") PROVE AtPage(p) /\ BaseAt(p)
      OBVIOUS
    <3>1. PageEnds(c)
      BY <2>2 DEF SyncBase
    <3>2. /\ \A q : ~SyncIn(q, Steps)'
          /\ \A q : q # p => NotSettled(q) /\ ~SyncIn(q, Steps)
      BY <1>1, <1>2, <3>1, EndsAt
    <3>3. sync'.pc = "next"
      BY <1>2, <3>1, PageEndsType
    <3>4. \A q : q # p => Leaves(q)
      BY <3>2, SyncElsewhere DEF Leaves
    <3>5. Settled(p)' => p \notin dirty
      BY <1>1 DEF Settled
    <3>. QED
      BY <1>1, <1>2, <1>5, <1>6, <1>7, <2>2, <3>3, <3>4, <3>5 DEF AtPage, BaseAt
  <2>. QED
    BY <2>1, <2>2
<1>9. StartKept(p)'
  BY <1>1 DEF StartKept
<1>10. Unapplied' = Unapplied => Kept(p)'
  BY <1>3, <1>8, <1>9, BasePage, BaseSync, BaseNow, BaseItems DEF Kept
<1>. QED
  BY <1>8, <1>10, OnePage

\* The text is written to the file: it has all that the file had when it was
\* read.
WriteAt(p) ==
  /\ p \in Pages /\ mode = "up" /\ SyncIn(p, {"write"}) /\ Grown
  /\ UNCHANGED <<remote, known, stored, mode, dirty, conflicted, poll, gone>>
  /\ local'[p] = sync.bytes
  /\ \/ /\ sync.act # "merge" /\ SameFile /\ sync'.pc = "meta" /\ sync'.act = sync.act
        /\ sync'.bytes = sync.bytes /\ sync'.saved = sync.saved
     \/ sync.act = "merge" /\ sync'.pc = "next"

LEMMA WriteAtFacts ==
  ASSUME TInv, NEW p, Kept(p), WriteAt(p)
  PROVE  /\ p \in Pages /\ mode = "up" /\ sync.pc = "write" /\ Late(p) /\ Grown /\ SameRemote(p)
         /\ SyncIn(p, Steps) /\ SameSaved(p) /\ local'[p] = sync.bytes
         /\ UNCHANGED <<remote, known, stored, mode, dirty, conflicted, poll, gone>>
         /\ ~SyncIn(p, {"decide"})' /\ ~SyncIn(p, {"decide", "post"})' /\ ~SyncIn(p, {"base"})
         /\ Late(p)' => sync'.saved = sync.saved /\ sync'.bytes = sync.bytes
         /\ Copies(p) = {local[p], sync.mine} /\ Copies(p)' = {sync.bytes}
         /\ \/ /\ sync.act # "merge" /\ ~Merging(p) /\ SyncIn(p, {"meta"})' /\ ~Settled(p)' /\ Late(p)'
               /\ Current' = sync.bytes
            \/ sync.act = "merge" /\ ~SyncIn(p, Steps)' /\ ~Late(p)' /\ ~Merging(p)'
<1>1. /\ p \in Pages /\ mode = "up" /\ sync.pc = "write" /\ sync.page = p /\ Late(p) /\ Grown
      /\ SameRemote(p) /\ SameSaved(p) /\ local'[p] = sync.bytes
      /\ SyncIn(p, Steps) /\ ~Written /\ ~SyncIn(p, {"base"})
      /\ UNCHANGED <<remote, known, stored, mode, dirty, conflicted, poll, gone>>
  BY DEF WriteAt, SyncIn, Late, Steps, SameRemote, SameSaved, Written
<1>2. Copies(p) = {local[p], sync.mine}
  BY <1>1, CopiesOf
<1>3. CASE sync.act # "merge"
  <2>1. /\ SameFile /\ sync'.pc = "meta" /\ sync'.act = sync.act
        /\ sync'.bytes = sync.bytes /\ sync'.saved = sync.saved
    BY <1>3 DEF WriteAt
  <2>2. \A s : SyncIn(p, s)' <=> "meta" \in s
    BY <1>1, <2>1 DEF SyncIn, SameFile
  <2>3. ~Settled(p)'
    BY <1>1, <2>1, SyncAt DEF Settled, SameFile, SameBatch, AtNoPage
  <2>4. Written' /\ Current' = sync.bytes
    <3>1. sync.act = "accept"
      BY <1>1, <1>3 DEF TInv, SyncType, SyncControl
    <3>. QED
      BY <2>1, <3>1 DEF Written, Current
  <2>5. Late(p)' /\ ~Merging(p)
    BY <1>3, <2>2 DEF Late, Merging
  <2>6. Copies(p)' = {sync.bytes}
    BY <1>1, <2>4, CopiesAfter
  <2>7. ~SyncIn(p, {"decide"})' /\ ~SyncIn(p, {"decide", "post"})' /\ SyncIn(p, {"meta"})'
    BY <2>2
  <2>. QED
    BY <1>1, <1>2, <1>3, <2>1, <2>3, <2>4, <2>5, <2>6, <2>7
<1>4. CASE sync.act = "merge"
  <2>1. sync'.pc = "next"
    BY <1>4 DEF WriteAt
  <2>2. ~SyncIn(p, Steps)' /\ ~SyncIn(p, {"decide"})' /\ ~SyncIn(p, {"decide", "post"})'
    BY <2>1 DEF SyncIn, Steps
  <2>3. ~Late(p)' /\ ~Merging(p)'
    BY <2>2, SyncLeaves
  <2>4. Copies(p)' = {sync.bytes}
    BY <1>1, <2>2, CopiesAfter
  <2>. QED
    BY <1>1, <1>2, <1>4, <2>2, <2>3, <2>4
<1>. QED
  BY <1>3, <1>4

LEMMA WriteKeeps ==
  ASSUME TInv, NEW p, Kept(p), WriteAt(p)
  PROVE  /\ \A A : (\A t \in Copies(p) : AllKeep(p, A, t)) => \A t \in Copies(p)' : AllKeep(p, A, t)'
         /\ \A A : (\A t \in Copies(p) : Keeps(OfAll, p, A, t))
                     => \A t \in Copies(p)' : Keeps(OfAll, p, A, t)'
<1>1. /\ p \in Pages /\ Late(p) /\ Grown
      /\ Copies(p) = {local[p], sync.mine} /\ Copies(p)' = {sync.bytes}
  BY WriteAtFacts
<1>2. AllKeep(p, sync.mine, sync.bytes)
  BY <1>1, LateFacts
<1>3. Keeps(OfAll, p, sync.mine, sync.bytes)
  BY <1>2, AllOfAll
<1>4. \A A : AllKeep(p, A, sync.mine) => AllKeep(p, A, sync.bytes)
  BY <1>2, AllKeepOn
<1>5. \A A : Keeps(OfAll, p, A, sync.mine) => Keeps(OfAll, p, A, sync.bytes)
  BY <1>3, KeepsOn
<1>6. /\ \A A, B : AllKeep(p, A, B) => AllKeep(p, A, B)'
      /\ \A A, B : Keeps(OfAll, p, A, B) => Keeps(OfAll, p, A, B)'
  BY <1>1, AllStay
<1>. QED
  BY <1>1, <1>4, <1>5, <1>6

\* What is written of a merge is what was saved, unless a refresh got between.
LEMMA MergeWritten ==
  ASSUME TInv, NEW p, Kept(p), WriteAt(p), sync.act = "merge", NEW a, a = remote[p].body,
         NEW b, b = sync.bytes
  PROVE  /\ W(p, Over) \/ (known[p] = sync.saved /\ stored[p].base = b)
         /\ \A s : Given(s) /\ Is(p, s) /\ s.rev \leq sync.saved.rev => a = b \/ W(p, {"posted"})
         /\ W(p, Over) \/ a = b \/ W(p, {"posted"}) => Keeps(OfAll, p, a, b)' /\ SameText(p)'
<1>1. /\ p \in Pages /\ sync.pc = "write" /\ Late(p) /\ Grown /\ remote' = remote /\ local'[p] = sync.bytes
      /\ SyncIn(p, Steps)
  BY WriteAtFacts
<1>2. W(p, Over) \/ (known[p] = sync.saved /\ stored[p].base = sync.bytes)
  <2>1. SyncMerged(p) /\ SyncIn(p, {"write"})
    BY DEF Kept, SyncKept, WriteAt
  <2>. QED
    BY <2>1 DEF SyncMerged
<1>3. \A s : Given(s) /\ Is(p, s) /\ s.rev \leq sync.saved.rev =>
        remote[p].body = sync.bytes \/ W(p, {"posted"})
  BY <1>1, IsSaved, LateFacts
<1>4. (W(p, {"posted"}) => W(p, {"posted"})') /\ (W(p, Over) => W(p, Over)')
  BY <1>1, WStays
<1>5. W(p, Over)' \/ W(p, {"posted"})' => Keeps(OfAll, p, a, b)' /\ SameText(p)'
  BY DEF W, Keeps, OfAll, SameText, MayDiffer
<1>6. a = b => Keeps(OfAll, p, a, b)' /\ SameText(p)'
  BY <1>1 DEF Keeps, OfAll, SameText
<1>. QED
  BY <1>2, <1>3, <1>4, <1>5, <1>6

LEMMA WritePage == ASSUME TInv, NEW p, Kept(p), WriteAt(p) PROVE PageKept(p)'
<1>. SUFFICES ASSUME NEW b, b = sync.bytes, NEW a, a = remote[p].body PROVE PageKept(p)'
  OBVIOUS
<1>1. /\ p \in Pages /\ Late(p) /\ Grown /\ SameRemote(p) /\ SameSaved(p) /\ local'[p] = b
      /\ UNCHANGED <<dirty, poll>> /\ ~SyncIn(p, {"base"}) /\ Copies(p)' = {b} /\ remote'[p].body = a
      /\ \/ sync.act # "merge" /\ ~Merging(p) /\ ~Settled(p)'
         \/ sync.act = "merge" /\ ~SyncIn(p, Steps)' /\ ~Merging(p)'
  BY WriteAtFacts
<1>2. PageKept(p)
  BY DEF Kept
<1>3. /\ known'[p] = known[p] /\ stored'[p].base = stored[p].base
      /\ stored'[p].snapshot = stored[p].snapshot
      /\ \A s : (Is(p, s) <=> Is(p, s)') /\ (Past(p, s) <=> Past(p, s)')
  BY <1>1, RevisionsSame DEF SameSaved
<1>4. StoredIsKnown(p)'
  BY <1>1, <1>2, StoredStays DEF PageKept, NowAt
<1>5. AllKeep(p, stored[p].base, remote[p].body)'
  BY <1>1, <1>2, <1>3, AllStay DEF PageKept, BaseKept, SameRemote
<1>6. CASE sync.act # "merge"
  <2>1. Uploaded(p)' /\ KnownFile(p)'
    BY <1>1, <1>6 DEF Uploaded, KnownFile
  <2>2. BaseKept(p)'
    BY <1>1, <1>2, <1>3, <1>5, <1>6, WriteKeeps DEF PageKept, BaseKept
  <2>3. \A s : SnapshotKept(p, s) => SnapshotKept(p, s)'
    BY <1>1, <1>3, <1>6, WriteKeeps DEF SnapshotKept, SameRemote
  <2>4. SnapshotKept(p, known[p])'
    BY <1>2, <1>3, <2>3 DEF PageKept
  <2>5. SnapshotKept(p, stored[p].snapshot)'
    BY <1>2, <1>3, <2>3 DEF PageKept
  <2>. QED
    BY <1>4, <2>1, <2>2, <2>4, <2>5 DEF PageKept
<1>7. CASE sync.act = "merge"
  <2>1. /\ W(p, Over) \/ (known[p] = sync.saved /\ stored[p].base = b)
        /\ \A s : Given(s) /\ Is(p, s) /\ s.rev \leq sync.saved.rev => a = b \/ W(p, {"posted"})
        /\ W(p, Over) \/ a = b \/ W(p, {"posted"}) => Keeps(OfAll, p, a, b)' /\ SameText(p)'
    BY <1>7, MergeWritten
  <2>2. /\ SavedUpTo(p, sync.saved.rev) /\ b \subseteq a \cup gone /\ sync.saved.rev \in Nat
        /\ known[p] = NoSnapshot \/ Given(known[p])
        /\ stored[p].snapshot = NoSnapshot \/ Given(stored[p].snapshot)
    BY <1>1, LateFacts DEF Pair, TInv, RevisionsType
  <2>3. /\ known[p] # NoSnapshot /\ Is(p, known[p]) => Keeps(OfAll, p, a, b)' /\ SameText(p)'
        /\ stored[p].snapshot # NoSnapshot /\ Is(p, stored[p].snapshot) => Keeps(OfAll, p, a, b)'
    BY <2>1, <2>2 DEF SavedUpTo
  <2>4. Uploaded(p)'
    BY <1>1, <2>2 DEF Uploaded, Grown
  <2>5. KnownFile(p)'
    BY <1>3, <2>3 DEF KnownFile
  <2>6. AllKeep(p, stored[p].base, b)'
    <3>1. W(p, Over) => AllKeep(p, stored[p].base, b)
      BY KeepsHit
    <3>2. stored[p].base = b => AllKeep(p, stored[p].base, b)
      BY KeepsSub
    <3>. QED
      BY <1>1, <1>3, <2>1, <3>1, <3>2, AllStay
  <2>7. BaseKept(p)'
    BY <1>1, <1>5, <2>6 DEF BaseKept
  <2>8. \A s : SnapshotKept(p, s) /\ (s # NoSnapshot /\ Is(p, s) => Keeps(OfAll, p, a, b)') =>
                 SnapshotKept(p, s)'
    BY <1>1, <1>3 DEF SnapshotKept
  <2>9. SnapshotKept(p, known[p])'
    BY <1>2, <1>3, <2>3, <2>8 DEF PageKept
  <2>10. SnapshotKept(p, stored[p].snapshot)'
    BY <1>2, <1>3, <2>3, <2>8 DEF PageKept
  <2>. QED
    BY <1>4, <2>4, <2>5, <2>7, <2>9, <2>10 DEF PageKept
<1>. QED
  BY <1>6, <1>7

LEMMA WriteSync == ASSUME TInv, NEW p, Kept(p), WriteAt(p) PROVE SyncKept(p)'
<1>1. CASE ~SyncIn(p, Steps)'
  BY <1>1, SyncLeaves
<1>2. CASE SyncIn(p, Steps)'
  <2>. SUFFICES ASSUME NEW b, b = sync.bytes, NEW mine, mine = sync.mine PROVE SyncKept(p)'
    OBVIOUS
  <2>1. /\ p \in Pages /\ Late(p) /\ Grown /\ SyncIn(p, {"write"}) /\ Current' = b /\ local'[p] = b
        /\ UNCHANGED <<remote, known, stored, gone>> /\ sync.act # "merge"
    BY <1>2, WriteAtFacts DEF WriteAt
  <2>2. /\ sync'.pc = "meta" /\ sync'.act = sync.act /\ sync'.mine = mine
        /\ sync'.bytes = b /\ sync'.saved = sync.saved
    BY <2>1 DEF WriteAt, SameFile
  <2>3. /\ Past(p, sync.saved) /\ SavedUpTo(p, sync.saved.rev)
        /\ b \subseteq remote[p].body \cup gone
        /\ Is(p, sync.saved) => remote[p].body = b \/ W(p, {"posted"})
        /\ AllKeep(p, mine, b)
    BY <2>1, LateFacts
  <2>4. (W(p, {"posted"}) => W(p, {"posted"})') /\ (W(p, Over) => W(p, Over)')
    BY <2>1, WStays
  <2>5. AllKeep(p, b, b)' /\ AllKeep(p, mine, b)'
    <3>1. AllKeep(p, b, b)
      BY KeepsSub
    <3>. QED
      BY <2>1, <2>3, <3>1, AllStay
  <2>6. SyncFile(p)'
    BY <2>1, <2>5 DEF SyncFile
  <2>7. SyncBytes(p)'
    <3>1. sync.act \in {"upload", "conflict", "synced"} => b = mine
      BY <2>1 DEF Kept, SyncKept, SyncBytes, SyncIn
    <3>. QED
      BY <2>2, <2>5, <3>1 DEF SyncBytes
  <2>8. SyncSaved(p)'
    <3>1. SavedUpTo(p, sync.saved.rev)'
      BY <2>1, <2>2, <2>3, <2>4 DEF SavedUpTo
    <3>. QED
      BY <2>1, <2>2, <2>3, <2>4, <3>1 DEF SyncSaved, Past, Is
  <2>. QED
    BY <2>2, <2>6, <2>7, <2>8 DEF SyncKept, SyncGot, SyncSeen, SyncDecides, SyncPosts, SyncMerged, SyncIn
<1>. QED
  BY <1>1, <1>2

LEMMA WriteNow == ASSUME TInv, NEW p, Kept(p), WriteAt(p) PROVE NowKept(p)'
<1>. SUFFICES ASSUME NowAt(p, {"meta", "base"})', NEW e, e = poll.now PROVE NowKept(p)'
  BY DEF NowKept
<1>1. /\ p \in Pages /\ Late(p) /\ Grown /\ SameRemote(p) /\ UNCHANGED poll
      /\ ~SyncIn(p, {"decide", "post"})' /\ (Late(p)' => sync'.saved = sync.saved)
      /\ \/ sync.act # "merge" /\ ~Settled(p)'
         \/ sync.act = "merge"
  BY WriteAtFacts
<1>2. NowAt(p, {"meta", "base"}) /\ poll'.now = e
  BY <1>1 DEF NowAt
<1>3. /\ \A A, B : AllKeep(p, A, B) => AllKeep(p, A, B)'
      /\ \A s : (Is(p, s) <=> Is(p, s)') /\ (Past(p, s) <=> Past(p, s)')
      /\ W(p, Over) => W(p, Over)'
  BY <1>1, AllStay, RevisionsSame, WStays
<1>4. /\ Past(p, e.snapshot) /\ (Is(p, e.snapshot) => remote[p].body = e.body)
      /\ AllKeep(p, e.body, remote[p].body) /\ \A t \in Copies(p) : AllKeep(p, e.body, t)
      /\ e.snapshot.rev \leq sync.saved.rev \/ W(p, Over)
  BY <1>1, <1>2 DEF Kept, NowKept
<1>5. /\ Past(p, e.snapshot)' /\ (Is(p, e.snapshot)' => remote'[p].body = e.body)
      /\ AllKeep(p, e.body, remote[p].body)'
  BY <1>1, <1>3, <1>4 DEF SameRemote
<1>6. \A t \in Copies(p)' : AllKeep(p, e.body, t)'
  BY <1>4, WriteKeeps
<1>7. Late(p)' => e.snapshot.rev \leq sync'.saved.rev \/ W(p, Over)'
  BY <1>1, <1>3, <1>4
<1>8. Settled(p)' /\ Is(p, e.snapshot)' => SameText(p)'
  <2>1. Given(e.snapshot)
    BY <1>2 DEF NowAt, TInv, PollType, Items
  <2>2. Settled(p)' => sync.act = "merge"
    BY <1>1
  <2>3. sync.act = "merge" /\ Is(p, e.snapshot) => SameText(p)'
    BY <1>4, <2>1, MergeWritten
  <2>. QED
    BY <1>3, <2>2, <2>3
<1>. QED
  BY <1>1, <1>2, <1>5, <1>6, <1>7, <1>8 DEF NowKept

LEMMA WriteItems ==
  ASSUME TInv, NEW p, Kept(p), WriteAt(p), Unapplied' = Unapplied PROVE ItemsKept(p)'
<1>1. /\ p \in Pages /\ Late(p) /\ Grown /\ SameRemote(p) /\ SameSaved(p) /\ ~SyncIn(p, {"decide"})'
      /\ Late(p)' => sync'.saved = sync.saved /\ sync'.bytes = sync.bytes
      /\ sync.act # "merge" => Late(p)'
  BY WriteAtFacts
<1>2. stored'[p].base = stored[p].base
  BY <1>1 DEF SameSaved
<1>3. sync.act = "merge" => W(p, Over) \/ SnapshotFor(p)' = sync.saved
  <2>1. ASSUME sync.act = "merge", known[p] = sync.saved PROVE SnapshotFor(p)' = sync.saved
    <3>1. sync.saved # NoSnapshot
      BY <1>1, LateFacts DEF Given, NoSnapshot, TInv, StateType
    <3>2. SnapshotFor(p) = sync.saved
      BY <2>1, <3>1 DEF SnapshotFor
    <3>. QED
      BY <1>1, <3>2, SnapshotForSame
  <2>. QED
    BY <2>1, MergeWritten
<1>. SUFFICES ASSUME NEW e \in Unapplied, e.page = p PROVE ItemKept(p, e)'
  BY DEF ItemsKept
<1>4. W(p, Over) \/ (sync.saved.rev > e.snapshot.rev => SavedSince(p, e.snapshot.rev)')
  BY <1>1, <1>3 DEF SavedSince
<1>. QED
  BY <1>1, <1>2, <1>4, ItemAfter

LEMMA WriteStepKept == ASSUME TInv, KInv, SyncWrite PROVE KInv'
<1>. SUFFICES ASSUME NEW p, p = sync.page PROVE KInv'
  OBVIOUS
<1>1. mode = "up" /\ sync.pc = "write" /\ Page = p
      /\ UNCHANGED <<remote, known, stored, mode, dirty, conflicted, poll, count, gone>>
      /\ local' = [local EXCEPT ![p] = sync.bytes]
  BY DEF SyncWrite, At, Page
<1>2. p \in Pages /\ Late(p) /\ SyncIn(p, {"write"}) /\ p \in sync.todo /\ sync.pc \notin AtNoPage
      /\ sync \in SyncRecord /\ sync.act \in {"accept", "merge"}
  BY <1>1, SyncAt DEF AtNoPage, Late, TInv, SyncType, SyncControl
<1>3. Kept(p) /\ sync.bytes \in SUBSET Changes
  BY <1>2, FieldTypes DEF KInv
<1>4. local'[p] = sync.bytes /\ \A q \in Pages : q # p => local'[q] = local[q]
  <2>1. local' = [local EXCEPT ![p] = sync.bytes]
    BY <1>1
  <2>. QED
    BY <1>2, <1>3, <2>1, FileWritten, Zenon
<1>5. windows \subseteq windows'
  BY DEF SyncWrite, Window
<1>6. Grown /\ SameStart /\ \A q \in Pages : q # p => SamePage(q)
  BY <1>1, <1>4, <1>5 DEF Grown, SameStart, SamePage, SameRemote, SameSaved
<1>7. AtPage(p) /\ WriteAt(p)
  <2>1. CASE sync.act # "merge"
    <3>1. /\ SameFile /\ sync'.pc = "meta" /\ sync'.act = sync.act
          /\ sync'.bytes = sync.bytes /\ sync'.saved = sync.saved
      <4>1. sync' = [sync EXCEPT !.pc = "meta"]
        BY <2>1 DEF SyncWrite
      <4>. QED
        BY <1>1, <4>1, SyncGoesOn
    <3>2. AtPage(p)
      BY <1>1, <1>2, <1>6, <3>1, GoesOnAt DEF Steps, SameFile
    <3>. QED
      BY <1>1, <1>2, <1>4, <1>6, <2>1, <3>1, <3>2 DEF WriteAt
  <2>2. CASE sync.act = "merge"
    <3>1. PageEnds(FALSE)
      BY <2>2 DEF SyncWrite
    <3>2. /\ \A q : ~SyncIn(q, Steps)'
          /\ \A q : q # p => NotSettled(q) /\ ~SyncIn(q, Steps)
      BY <1>1, <1>2, <3>1, EndsAt
    <3>3. sync'.pc = "next"
      BY <1>2, <3>1, PageEndsType
    <3>4. \A q : q # p => Leaves(q)
      BY <3>2, SyncElsewhere DEF Leaves
    <3>. QED
      BY <1>1, <1>2, <1>4, <1>6, <2>2, <3>3, <3>4 DEF AtPage, WriteAt
  <2>. QED
    BY <2>1, <2>2
<1>8. StartKept(p)'
  BY <1>1 DEF StartKept
<1>9. Unapplied' = Unapplied => Kept(p)'
  BY <1>3, <1>7, <1>8, WritePage, WriteSync, WriteNow, WriteItems DEF Kept
<1>. QED
  BY <1>7, <1>9, OnePage

LEMMA SyncStepKept == ASSUME TInv, KInv, Sync PROVE KInv'
<1>1. CASE SyncFails
  BY <1>1, FailKept DEF SyncFails
<1>. QED
  BY <1>1, BeginKept, ReadKept, SnapshotStepKept, CreateKept, GetKept, DecideKept, PostKept, MetaKept,
     BaseStepKept, WriteStepKept, EndKept DEF Sync

(***************************************************************************)
(* A refresh.                                                              *)
(***************************************************************************)
\* What a refresh leaves alone, and what is not about the page it is at.
SameButPage(q) ==
  /\ mode = "up" /\ Grown /\ UNCHANGED <<remote, mode, dirty, conflicted, sync, gone>>
  /\ SameSaved(q) /\ local'[q] = local[q]
  /\ ~(NowAt(q, {"meta", "base"}) \/ NowAt(q, {"meta", "base"})')

LEMMA RefreshElsewhere ==
  ASSUME NEW q, SameButPage(q), Kept(q), \A e \in Unapplied' : e.page = q => e \in Unapplied
  PROVE  Kept(q)'
<1>1. Untouched(q)
  BY DEF SameButPage, Untouched, SameRemote, SameSync, NotSettled, Settled, PollSame
<1>. QED
  BY <1>1, Elsewhere

\* The page as it is now is a descendant of all that was read of it.
LEMMA FreshItem ==
  ASSUME NEW p, Kept(p), NEW e, Past(p, e.snapshot), e.body = remote[p].body
  PROVE  ItemKept(p, e)
<1>1. AllKeep(p, e.body, remote[p].body)
  BY KeepsSub
<1>2. AllKeep(p, stored[p].base, e.body)
  BY DEF Kept, PageKept, BaseKept
<1>3. Late(p) => AllKeep(p, sync.bytes, e.body)
  <2>1. Late(p) => sync.bytes \cap Changes \subseteq e.body \cup gone
    BY DEF Kept, SyncKept, SyncSaved
  <2>. QED
    BY <2>1, KeepsSub
<1>4. SyncIn(p, {"decide"}) => AllKeep(p, sync.seen.body, e.body)
  <2>1. SyncIn(p, {"decide"}) => sync.seen.body \cap Changes \subseteq e.body \cup gone
    BY DEF Kept, SyncKept, SyncDecides
  <2>. QED
    BY <2>1, KeepsSub
<1>. QED
  BY <1>1, <1>2, <1>3, <1>4 DEF ItemKept

LEMMA RefreshItem ==
  ASSUME NEW q, SameButPage(q), Kept(q), \A e \in Unapplied' : e.page = q => ItemKept(q, e)
  PROVE  Kept(q)'
<1>1. /\ Grown /\ SameRemote(q) /\ SameSaved(q) /\ local'[q] = local[q] /\ SameSync(q) /\ mode' = "up"
      /\ NotSettled(q) /\ PollSame(q) /\ UNCHANGED dirty
      /\ ~NowAt(q, {"meta", "base"})'
  BY DEF SameButPage, SameRemote, SameSync, NotSettled, Settled, PollSame
<1>2. PageKept(q) /\ SyncKept(q)
  BY DEF Kept
<1>3. /\ StillMerging(q) /\ NoCopies(q) /\ SyncSees(q)
      /\ SyncIn(q, {"base"}) => SyncIn(q, {"base"})'
  BY <1>1, SyncFrame, SyncSame DEF Steps
<1>4. PageKept(q)'
  BY <1>1, <1>2, <1>3, PageStays
<1>5. SyncKept(q)'
  BY <1>1, <1>2, SyncKeptStays
<1>6. ItemsKept(q)'
  BY <1>1, <1>3, ItemStays DEF ItemsKept
<1>7. NowKept(q)' /\ StartKept(q)'
  BY <1>1 DEF NowKept, StartKept
<1>. QED
  BY <1>4, <1>5, <1>6, <1>7 DEF Kept

LEMMA PollBeginKept == ASSUME TInv, KInv, PollBegin PROVE KInv'
<1>1. /\ mode = "up" /\ poll.pc = "idle"
      /\ UNCHANGED <<remote, local, known, stored, mode, dirty, conflicted, sync, gone, windows>>
      /\ poll' = [pc |-> "read", tree |-> Tree, todo |-> DOMAIN Tree, batch |-> {}]
  BY DEF PollBegin, Polling
<1>2. /\ poll'.pc = "read" /\ poll'.tree = Tree /\ poll'.todo = DOMAIN Tree /\ poll'.batch = {}
  BY <1>1
<1>3. \A p \in DOMAIN Tree : p \in Pages /\ remote[p] # Absent /\ Tree[p] = remote[p]
  BY TreeType
<1>4. ASSUME NEW e \in Unapplied'
      PROVE  \E p \in DOMAIN Tree : e = [page |-> p, snapshot |-> Snapshot(remote[p]), body |-> remote[p].body]
  <2>1. Unapplied' = Listed'
    BY <1>2 DEF Unapplied
  <2>2. PICK p \in DOMAIN Tree : e = [page |-> p, snapshot |-> Snapshot(Tree[p]), body |-> Tree[p].body]
    BY <1>2, <1>4, <2>1 DEF Listed, ItemOf
  <2>. QED
    BY <1>3, <2>2
<1>5. ASSUME NEW q \in Pages PROVE Kept(q)'
  <2>1. SameButPage(q)
    BY <1>1, <1>2 DEF SameButPage, SameSaved, Grown, NowAt
  <2>2. ASSUME NEW e \in Unapplied', e.page = q PROVE ItemKept(q, e)
    <3>1. e = [page |-> q, snapshot |-> Snapshot(remote[q]), body |-> remote[q].body]
      BY <1>4, <2>2
    <3>2. e.snapshot.rev = remote[q].rev /\ e.body = remote[q].body
      BY <3>1 DEF Snapshot
    <3>3. Past(q, e.snapshot)
      BY <3>2 DEF Past, TInv, StateType, PageType
    <3>. QED
      BY <3>2, <3>3, FreshItem DEF KInv
  <2>. QED
    BY <2>1, <2>2, RefreshItem DEF KInv
<1>6. PollShape'
  BY <1>2, <1>4 DEF PollShape
<1>. QED
  BY <1>5, <1>6 DEF KInv

LEMMA PollReadKept == ASSUME TInv, KInv, NEW p \in Pages, PollRead(p) PROVE KInv'
<1>. DEFINE old == ItemOf(p, poll.tree[p].body)
<1>1. /\ mode = "up" /\ poll.pc = "read" /\ p \in poll.todo
      /\ UNCHANGED <<remote, local, known, stored, mode, dirty, conflicted, sync, gone, windows>>
  BY DEF PollRead, Polling
<1>2. old \in Unapplied /\ old.page = p /\ Unapplied = Listed \cup poll.batch
  BY <1>1 DEF Unapplied, Listed, ItemOf
<1>3. ItemKept(p, old) /\ old.snapshot = Snapshot(poll.tree[p]) /\ PollShape
  BY <1>2 DEF KInv, Kept, ItemsKept, ItemOf
<1>4. ASSUME poll'.pc \in {"idle", "read"}, PollShape',
             \A e \in Unapplied' : e \in Unapplied \/ (e.page = p /\ ItemKept(p, e))
      PROVE  KInv'
  <2>1. ASSUME NEW q \in Pages PROVE Kept(q)'
    <3>1. SameButPage(q)
      BY <1>1, <1>4 DEF SameButPage, SameSaved, Grown, NowAt
    <3>2. Kept(q) /\ ItemsKept(q)
      BY DEF KInv, Kept
    <3>3. \A e \in Unapplied' : e.page = q => ItemKept(q, e)
      BY <1>4, <3>2 DEF ItemsKept
    <3>. QED
      BY <3>1, <3>2, <3>3, RefreshItem
  <2>. QED
    BY <1>4, <2>1 DEF KInv
<1>5. ASSUME NEW batch, PollReadTo(poll.todo \ {p}, batch),
             batch = poll.batch \/ \E e : batch = poll.batch \cup {e} /\ e.page = p /\ ItemKept(p, e)
      PROVE  KInv'
  <2>1. poll'.pc = "read" /\ poll'.tree = poll.tree /\ poll'.todo = poll.todo \ {p} /\ poll'.batch = batch
    BY <1>5 DEF PollReadTo
  <2>2. Unapplied' = Listed' \cup batch
    BY <2>1 DEF Unapplied
  <2>3. \A e \in Listed' : e \in Listed /\ e.page # p
    BY <2>1 DEF Listed, ItemOf
  <2>4. \A e \in batch : e \in poll.batch \/ (e.page = p /\ ItemKept(p, e) /\ batch = poll.batch \cup {e})
    BY <1>5
  <2>5. \A e \in poll.batch : e.page # p /\ e.page \notin poll.todo
    BY <1>1, <1>3 DEF PollShape
  <2>6. \A e, f \in Unapplied' : e.page = f.page => e = f
    <3>1. \A e, f \in Listed \cup poll.batch : e.page = f.page => e = f
      BY <1>2, <1>3 DEF PollShape
    <3>2. \A e \in Unapplied' : (e \in Listed \cup poll.batch /\ e.page # p) \/ (e.page = p /\ batch = poll.batch \cup {e})
      BY <2>2, <2>3, <2>4, <2>5
    <3>3. ASSUME NEW e, NEW f, e.page = p, f.page = p, batch = poll.batch \cup {e}, batch = poll.batch \cup {f}
          PROVE  e = f
      BY <2>5, <3>3
    <3>. QED
      BY <3>1, <3>2, <3>3
  <2>7. \A e \in batch : e.page \notin poll.todo \ {p}
    BY <2>4, <2>5
  <2>8. PollShape'
    BY <2>1, <2>6, <2>7 DEF PollShape
  <2>9. \A e \in Unapplied' : e \in Unapplied \/ (e.page = p /\ ItemKept(p, e))
    BY <1>2, <2>2, <2>3, <2>4
  <2>. QED
    BY <1>4, <2>1, <2>8, <2>9
<1>6. CASE PollReadTo(poll.todo \ {p}, poll.batch)
  BY <1>5, <1>6
<1>7. ASSUME NEW body \in SUBSET Changes, ReadPageCached(p, poll.tree[p], body), NEW e,
             e = [page |-> p, snapshot |-> Snapshot(poll.tree[p]), body |-> body],
             PollReadTo(poll.todo \ {p}, poll.batch \cup {e})
      PROVE  KInv'
  <2>1. e.page = p /\ e.snapshot = Snapshot(poll.tree[p]) /\ e.body = body
    BY <1>7
  <2>2. ItemKept(p, e)
    <3>1. CASE body = poll.tree[p].body
      <4>1. e = old
        BY <1>7, <3>1 DEF ItemOf
      <4>. QED
        BY <1>3, <4>1
    <3>2. CASE body = remote[p].body
      <4>1. Past(p, e.snapshot)
        BY <1>3, <2>1 DEF ItemKept
      <4>. QED
        BY <2>1, <3>2, <4>1, FreshItem DEF KInv
    <3>. QED
      BY <1>7, <3>1, <3>2 DEF ReadPageCached
  <2>. QED
    BY <1>5, <1>7, <2>1, <2>2
<1>8. CASE poll' = NoPoll
  <2>1. poll'.pc = "idle" /\ Unapplied' = {}
    BY <1>8 DEF NoPoll, Unapplied
  <2>2. PollShape'
    BY <2>1 DEF PollShape
  <2>. QED
    BY <1>4, <2>1, <2>2
<1>. QED
  BY <1>6, <1>7, <1>8 DEF PollRead

LEMMA PollCheckKept == ASSUME TInv, KInv, PollCheck PROVE KInv'
<1>1. /\ mode = "up" /\ poll.pc = "read" /\ poll.todo = {}
      /\ UNCHANGED <<remote, local, known, stored, mode, dirty, conflicted, sync, gone, windows>>
  BY DEF PollCheck, Polling
<1>2. Unapplied = poll.batch /\ PollShape
  BY <1>1 DEF Unapplied, Listed, KInv
<1>3. ASSUME poll'.pc \in {"idle", "apply"}, PollShape', Unapplied' \subseteq Unapplied PROVE KInv'
  <2>1. ASSUME NEW q \in Pages PROVE Kept(q)'
    <3>1. SameButPage(q)
      BY <1>1, <1>3 DEF SameButPage, SameSaved, Grown, NowAt
    <3>. QED
      BY <1>3, <3>1, RefreshElsewhere DEF KInv
  <2>. QED
    BY <1>3, <2>1 DEF KInv
<1>4. CASE poll' = NoPoll
  <2>1. poll'.pc = "idle" /\ Unapplied' = {}
    BY <1>4 DEF NoPoll, Unapplied
  <2>2. PollShape'
    BY <2>1 DEF PollShape
  <2>. QED
    BY <1>3, <2>1, <2>2
<1>5. ASSUME NEW free, poll' = [pc |-> "apply", batch |-> poll.batch, free |-> free]
      PROVE  KInv'
  <2>1. poll'.pc = "apply" /\ poll'.batch = poll.batch /\ poll'.free = free
    BY <1>5
  <2>2. Unapplied' = poll.batch
    BY <2>1 DEF Unapplied
  <2>4. PollShape'
    BY <1>2, <2>1, <2>2 DEF PollShape
  <2>. QED
    BY <1>2, <1>3, <2>1, <2>2, <2>4
<1>. QED
  BY <1>4, <1>5 DEF PollCheck

LEMMA AppliedHit ==
  ASSUME NEW p, W(p, Over)'
  PROVE  (\A A, B : AllKeep(p, A, B)') /\ (\A A, B : Keeps(OfAll, p, A, B)')
<1>1. Views' = Views /\ OfAll' = OfAll
  BY DEF Views, OfAll, OfEdits
<1>2. \A v \in Views : W(p, v.but)'
  BY ViewFacts DEF W
<1>. QED
  BY <1>1, <1>2, ViewFacts DEF AllKeep, Keeps

\* A page that a refresh was applied to over an edit or a sync is recorded as
\* such; of what was read of it only the revisions are left to keep.
LEMMA AppliedKept ==
  ASSUME TInv, NEW p \in Pages, Kept(p), Grown, SameRemote(p), UNCHANGED sync, W(p, Over)',
         known'[p] = NoSnapshot \/ Past(p, known'[p]),
         stored'[p].snapshot = NoSnapshot \/ Past(p, stored'[p].snapshot)
  PROVE  PageKept(p)' /\ SyncKept(p)'
<1>1. /\ \A A, B : AllKeep(p, A, B)'
      /\ \A A, B : Keeps(OfAll, p, A, B)'
  BY AppliedHit
<1>2. W(p, MayLack)' /\ W(p, MayDiffer)' /\ W(p, OfAll.but)'
  BY DEF W, MayLack, MayDiffer, OfAll
<1>3. \A n : SavedUpTo(p, n)'
  BY DEF SavedUpTo
<1>4. \A s : (Is(p, s) <=> Is(p, s)') /\ (Past(p, s) <=> Past(p, s)')
  BY RevisionsSame
<1>5. (\A s : SyncIn(p, s) <=> SyncIn(p, s)') /\ (Late(p) <=> Late(p)')
  BY DEF SyncIn, Late
<1>6. PageKept(p)'
  <2>1. Uploaded(p)' /\ KnownFile(p)' /\ BaseKept(p)' /\ StoredIsKnown(p)'
    BY <1>1, <1>2 DEF Uploaded, KnownFile, SameText, BaseKept, StoredIsKnown
  <2>2. SnapshotKept(p, known[p])'
    BY <1>1, <1>4 DEF SnapshotKept
  <2>3. SnapshotKept(p, stored[p].snapshot)'
    BY <1>1, <1>4 DEF SnapshotKept
  <2>. QED
    BY <2>1, <2>2, <2>3 DEF PageKept
<1>7. SyncKept(p)'
  <2>0. SyncKept(p)
    BY DEF Kept
  <2>1. SyncFile(p)' /\ SyncGot(p)'
    BY <1>1, <1>4, <1>5, <2>0 DEF SyncKept, SyncFile, SyncGot
  <2>2. SyncSeen(p)'
    BY <1>3, <1>4, <1>5, <2>0 DEF SyncKept, SyncSeen, SameRemote
  <2>3. SyncDecides(p)'
    BY <1>1, <1>5, <2>0 DEF SyncKept, SyncDecides, SameRemote, Grown
  <2>4. SyncPosts(p)' /\ SyncBytes(p)'
    BY <1>1, <1>5, <2>0 DEF SyncKept, SyncPosts, SyncBytes
  <2>5. SyncSaved(p)'
    <3>1. W(p, {"posted"}) => W(p, {"posted"})'
      BY WStays
    <3>. QED
      BY <1>3, <1>4, <1>5, <2>0, <3>1 DEF SyncKept, SyncSaved, SameRemote, Grown
  <2>6. SyncMerged(p)'
    BY DEF SyncMerged
  <2>. QED
    BY <2>1, <2>2, <2>3, <2>4, <2>5, <2>6 DEF SyncKept
<1>. QED
  BY <1>6, <1>7

\* A page that was not overtaken is not on its way to the server.
LEMMA NotOvertaken ==
  ASSUME TInv, mode = "up", poll.pc \in {"apply", "meta", "base"}, NEW e \in poll.batch,
         PollOvertaken(e), NEW p, p = e.page
  PROVE  /\ p \in Pages /\ Given(e.snapshot) /\ windows \subseteq windows'
         /\ W(p, Over)' \/ (/\ p \notin Protected /\ p \notin dirty /\ ~SyncIn(p, Steps)
                            /\ ~(SnapshotFor(p).rev > e.snapshot.rev)
                            /\ UNCHANGED windows)
<1>1. p \in Pages /\ Given(e.snapshot)
  BY DEF TInv, PollType, Items, Item
<1>2. CASE p \in Protected \/ SnapshotFor(p).rev > e.snapshot.rev
  BY <1>1, <1>2 DEF PollOvertaken, Window, W
<1>3. CASE ~(p \in Protected \/ SnapshotFor(p).rev > e.snapshot.rev)
  <2>1. p \notin Protected /\ UNCHANGED windows
    BY <1>1, <1>3 DEF PollOvertaken
  <2>2. ~SyncIn(p, Steps)
    <3>1. SyncIn(p, Steps) => sync.page = p /\ sync.pc \notin AtNoPage
      BY DEF SyncIn, Steps, AtNoPage
    <3>. QED
      BY <2>1, <3>1 DEF TInv, SyncType, SyncControl, Protected
  <2>. QED
    BY <1>1, <1>3, <2>1, <2>2 DEF Protected
<1>. QED
  BY <1>2, <1>3

\* The index knows whatever is on disk, where nothing is being saved.
LEMMA StoredBehind ==
  ASSUME TInv, NEW p \in Pages, PageKept(p), ~SyncIn(p, {"base"}), NEW n \in Nat,
         ~(SnapshotFor(p).rev > n), NowAt(p, {"base"}) => poll.now.snapshot.rev \leq n
  PROVE  /\ stored[p].snapshot.rev \leq n \/ W(p, OfAll.but)
         /\ known[p].rev \leq n
<1>1. known[p].rev \in Nat /\ stored[p].snapshot.rev \in Nat
  BY DEF TInv, StateType, Pair
<1>2. known[p].rev \leq n
  BY <1>1 DEF SnapshotFor, NoSnapshot
<1>3. known[p] = NoSnapshot => stored[p].snapshot.rev \leq n
  BY <1>1 DEF SnapshotFor
<1>4. NowAt(p, {"base"}) => poll.now.snapshot.rev \in Nat
  BY DEF NowAt, TInv, PollType, Items, Item, Pair
<1>. QED
  BY <1>1, <1>2, <1>3, <1>4 DEF PageKept, StoredIsKnown

LEMMA PollWriteKept ==
  ASSUME TInv, KInv, poll.pc = "apply", NEW e \in poll.batch, PollWrite(e) PROVE KInv'
<1>. SUFFICES ASSUME NEW p, p = e.page PROVE KInv'
  OBVIOUS
<1>1. /\ mode = "up"
      /\ UNCHANGED <<remote, known, stored, mode, dirty, conflicted, sync, gone>>
      /\ local' = [local EXCEPT ![p] = e.body] /\ PollOvertaken(e)
      /\ poll' = [pc |-> "meta", batch |-> poll.batch, free |-> poll.free, now |-> e]
  BY DEF PollWrite, Polling
<1>2. poll'.pc = "meta" /\ poll'.batch = poll.batch /\ poll'.free = poll.free /\ poll'.now = e
  BY <1>1
<1>3. /\ Unapplied = poll.batch /\ Unapplied' = poll.batch \ {e} /\ PollShape
  BY <1>2 DEF Unapplied, KInv
<1>4. p \in Pages /\ Given(e.snapshot) /\ e.snapshot.rev \in Nat /\ e.body \in SUBSET Changes
  BY <1>3, UnappliedType DEF Item, Pair
<1>5. local'[p] = e.body /\ \A q \in Pages : q # p => local'[q] = local[q]
  <2>1. local' = [local EXCEPT ![p] = e.body]
    BY <1>1
  <2>. QED
    BY <1>4, <2>1, FileWritten, Zenon
<1>6. /\ windows \subseteq windows'
      /\ W(p, Over)' \/ (/\ p \notin Protected /\ p \notin dirty /\ ~SyncIn(p, Steps)
                                /\ ~(SnapshotFor(p).rev > e.snapshot.rev))
  BY <1>1, <1>3, NotOvertaken
<1>7. Grown /\ SameRemote(p) /\ SameSaved(p)
  BY <1>1, <1>6 DEF Grown, SameRemote, SameSaved
<1>8. \A f \in Unapplied' : f.page # p
  BY <1>3 DEF PollShape
<1>9. PollShape'
  BY <1>2, <1>3, <1>8 DEF PollShape
<1>10. ASSUME NEW q \in Pages, q # p PROVE Kept(q)'
  <2>1. SameButPage(q)
    BY <1>1, <1>2, <1>5, <1>7, <1>10 DEF SameButPage, SameSaved, NowAt
  <2>. QED
    BY <1>3, <1>10, <2>1, RefreshElsewhere DEF KInv
<1>11. Kept(p)'
  <2>1. Kept(p) /\ PageKept(p) /\ ItemKept(p, e) /\ ~NowAt(p, {"base"})
    BY <1>3, <1>4 DEF KInv, Kept, ItemsKept, NowAt
  <2>2. ItemsKept(p)' /\ StartKept(p)'
    BY <1>1, <1>8 DEF ItemsKept, StartKept
  <2>3. \A s : (Is(p, s) <=> Is(p, s)') /\ (Past(p, s) <=> Past(p, s)')
    BY <1>7, RevisionsSame
  <2>4. /\ Past(p, e.snapshot)' /\ (Is(p, e.snapshot)' => remote'[p].body = e.body)
    BY <1>1, <2>1, <2>3 DEF ItemKept
  <2>5. CASE W(p, Over)'
    <3>1. known'[p] = NoSnapshot \/ Past(p, known'[p])
      BY <1>1, <2>1 DEF PageKept, SnapshotKept
    <3>2. stored'[p].snapshot = NoSnapshot \/ Past(p, stored'[p].snapshot)
      BY <1>1, <2>1 DEF PageKept, SnapshotKept
    <3>3. PageKept(p)' /\ SyncKept(p)'
      BY <1>1, <1>4, <1>7, <2>1, <2>5, <3>1, <3>2, AppliedKept
    <3>4. NowKept(p)'
      <4>1. SameText(p)' /\ \A A, B : AllKeep(p, A, B)'
        BY <2>5, AppliedHit DEF W, SameText, MayDiffer
      <4>. QED
        BY <1>2, <2>4, <2>5, <4>1 DEF NowKept
    <3>. QED
      BY <2>2, <3>3, <3>4 DEF Kept
  <2>6. CASE /\ p \notin Protected /\ p \notin dirty /\ ~SyncIn(p, Steps)
             /\ ~(SnapshotFor(p).rev > e.snapshot.rev)
    <3>1. /\ ~SyncIn(p, Steps)' /\ ~Late(p) /\ ~Merging(p) /\ ~SyncIn(p, {"base"})
          /\ ~SyncIn(p, {"decide", "post"})'
      BY <1>1, <2>6, SyncElsewhere DEF SyncIn, Steps
    <3>2. ~Late(p)' /\ ~Merging(p)' /\ SyncKept(p)' /\ Copies(p)' = {e.body}
      BY <1>5, <3>1, SyncLeaves, CopiesAfter
    <3>3. /\ stored[p].snapshot.rev \leq e.snapshot.rev \/ W(p, OfAll.but)
          /\ known[p].rev \leq e.snapshot.rev
      BY <1>4, <2>1, <2>6, <3>1, StoredBehind
    <3>4. AllKeep(p, e.body, remote[p].body) /\ AllKeep(p, stored[p].base, e.body)
      BY <2>1, <2>6, <3>1 DEF ItemKept, SavedSince
    <3>5. /\ \A A, B : AllKeep(p, A, B) => AllKeep(p, A, B)'
          /\ \A A, B : Keeps(OfAll, p, A, B) => Keeps(OfAll, p, A, B)'
      BY <1>7, AllStay
    <3>6. AllKeep(p, e.body, remote[p].body)' /\ AllKeep(p, stored[p].base, e.body)' /\ AllKeep(p, e.body, e.body)'
      <4>1. AllKeep(p, e.body, e.body)
        BY KeepsSub
      <4>. QED
        BY <1>1, <3>4, <3>5, <4>1
    <3>7. Is(p, e.snapshot)' => SameText(p)' /\ Keeps(OfAll, p, remote[p].body, e.body)'
      <4>1. Is(p, e.snapshot)' => SameText(p)'
        BY <1>5, <2>4 DEF SameText
      <4>2. remote'[p].body = e.body => Keeps(OfAll, p, remote[p].body, e.body)'
        BY DEF Keeps
      <4>. QED
        BY <2>4, <4>1, <4>2
    <3>8. ASSUME NEW s, Given(s), s.rev \leq e.snapshot.rev, Is(p, s) PROVE Is(p, e.snapshot)
      <4>1. remote[p].rev = s.rev /\ s.rev \in Nat /\ s.rev >= 1 /\ remote[p].rev \in Nat
        BY <1>4, <3>8 DEF Is, Given, TInv, StateType, PageType
      <4>2. remote[p] # Absent
        BY <4>1 DEF Absent
      <4>. QED
        BY <1>4, <2>1, <3>8, <4>1, <4>2 DEF ItemKept, Past, Is
    <3>9. /\ known[p] = NoSnapshot \/ Given(known[p])
          /\ stored[p].snapshot = NoSnapshot \/ Given(stored[p].snapshot)
      BY <1>4 DEF TInv, RevisionsType
    <3>10. Uploaded(p)'
      <4>1. Keeps(OfEdits, p, e.body, remote[p].body)'
        <5>1. Keeps(OfEdits, p, e.body, remote[p].body)
          BY <3>4, ViewFacts DEF AllKeep
        <5>. QED
          BY <1>1, <1>7, <5>1, WStays, ViewFacts DEF Keeps, Grown, OfEdits
      <4>. QED
        BY <1>5, <4>1, ViewFacts DEF Uploaded, Keeps, OfEdits, W, MayLack
    <3>11. KnownFile(p)'
      BY <1>1, <2>3, <3>3, <3>7, <3>8, <3>9 DEF KnownFile
    <3>12. BaseKept(p)'
      <4>1. AllKeep(p, stored[p].base, remote[p].body)'
        BY <1>1, <2>1, <3>5 DEF PageKept, BaseKept
      <4>. QED
        BY <3>2, <3>6, <4>1 DEF BaseKept
    <3>13. StoredIsKnown(p)'
      BY <1>7, <2>1, <3>1, StoredStays DEF PageKept, NowAt
    <3>14. W(p, OfAll.but) => Keeps(OfAll, p, remote[p].body, e.body)'
      <4>1. W(p, OfAll.but) => Keeps(OfAll, p, remote[p].body, e.body)
        BY DEF Keeps
      <4>. QED
        BY <1>1, <3>5, <4>1
    <3>15. ASSUME NEW s, s = NoSnapshot \/ Given(s), SnapshotKept(p, s),
                  s.rev \leq e.snapshot.rev \/ W(p, OfAll.but)
           PROVE  SnapshotKept(p, s)'
      BY <2>3, <3>2, <3>7, <3>8, <3>14, <3>15 DEF SnapshotKept
    <3>16. SnapshotKept(p, known[p])'
      BY <1>1, <2>1, <3>3, <3>9, <3>15 DEF PageKept
    <3>17. SnapshotKept(p, stored[p].snapshot)'
      BY <1>1, <2>1, <3>3, <3>9, <3>15 DEF PageKept
    <3>18. NowKept(p)'
      BY <1>2, <2>4, <3>1, <3>2, <3>6, <3>7 DEF NowKept
    <3>. QED
      BY <2>2, <3>2, <3>10, <3>11, <3>12, <3>13, <3>16, <3>17, <3>18 DEF Kept, PageKept
  <2>. QED
    BY <1>6, <2>5, <2>6
<1>. QED
  BY <1>9, <1>10, <1>11 DEF KInv

LEMMA NowFacts ==
  ASSUME TInv, KInv, poll.pc \in {"meta", "base"}, NEW e, e = poll.now, NEW p, p = e.page
  PROVE  /\ p \in Pages /\ Given(e.snapshot) /\ e.snapshot \in Pair /\ e.snapshot.rev \in Nat
         /\ e.body \in SUBSET Changes /\ e \in poll.batch
         /\ poll = [pc |-> poll.pc, batch |-> poll.batch, free |-> poll.free, now |-> e]
         /\ Unapplied = poll.batch \ {e} /\ (\A f \in Unapplied : f.page # p)
         /\ NowAt(p, {"meta", "base"}) /\ Kept(p) /\ PageKept(p) /\ SyncKept(p)
         /\ Past(p, e.snapshot) /\ (Is(p, e.snapshot) => remote[p].body = e.body)
         /\ AllKeep(p, e.body, remote[p].body)
         /\ \A t \in Copies(p) : AllKeep(p, e.body, t)
         /\ SyncIn(p, {"decide", "post"}) => e.snapshot.rev \leq sync.seen.rev \/ W(p, Over)
         /\ Late(p) => e.snapshot.rev \leq sync.saved.rev \/ W(p, Over)
         /\ Settled(p) /\ Is(p, e.snapshot) => SameText(p)
         /\ \A q : q # p => ~NowAt(q, {"meta", "base"})
<1>1. /\ e \in poll.batch /\ Items(poll.batch)
      /\ poll = [pc |-> poll.pc, batch |-> poll.batch, free |-> poll.free, now |-> e]
  BY DEF TInv, PollType
<1>2. /\ p \in Pages /\ Given(e.snapshot) /\ e.snapshot \in Pair /\ e.snapshot.rev \in Nat
      /\ e.body \in SUBSET Changes
  BY <1>1 DEF Items, Item, Pair
<1>3. Unapplied = poll.batch \ {e} /\ \A f \in Unapplied : f.page # p
  BY DEF Unapplied, KInv, PollShape
<1>4. NowAt(p, {"meta", "base"}) /\ \A q : q # p => ~NowAt(q, {"meta", "base"})
  BY DEF NowAt
<1>5. Kept(p) /\ PageKept(p) /\ SyncKept(p) /\ NowKept(p)
  BY <1>2 DEF KInv, Kept
<1>. QED
  BY <1>1, <1>2, <1>3, <1>4, <1>5 DEF NowKept

\* What the file has of a saved revision, where it has the item's text.
LEMMA NowSnapshot ==
  ASSUME NEW p, Grown, SameRemote(p), StillMerging(p), NoCopies(p), NEW e, Past(p, e.snapshot),
         Is(p, e.snapshot) => remote[p].body = e.body,
         \A t \in Copies(p) : AllKeep(p, e.body, t)
  PROVE  SnapshotKept(p, e.snapshot)'
<1>1. SnapshotKept(p, e.snapshot)
  BY AllOfAll DEF SnapshotKept
<1>. QED
  BY <1>1, SnapshotStays

LEMMA PollMetaKept == ASSUME TInv, KInv, PollMeta PROVE KInv'
<1>. SUFFICES ASSUME NEW e, e = poll.now, NEW p, p = e.page PROVE KInv'
  OBVIOUS
<1>1. /\ mode = "up" /\ poll.pc = "meta"
      /\ UNCHANGED <<remote, local, known, mode, dirty, conflicted, sync, count, gone, windows>>
      /\ stored' = [stored EXCEPT ![p].snapshot = e.snapshot]
      /\ poll' = [poll EXCEPT !.pc = "base"]
  BY DEF PollMeta, Polling
<1>2. /\ p \in Pages /\ Given(e.snapshot) /\ e.snapshot \in Pair /\ e.snapshot.rev \in Nat
      /\ poll = [pc |-> poll.pc, batch |-> poll.batch, free |-> poll.free, now |-> e]
      /\ Unapplied = poll.batch \ {e} /\ (\A f \in Unapplied : f.page # p)
      /\ NowAt(p, {"meta", "base"}) /\ Kept(p) /\ PageKept(p) /\ SyncKept(p)
      /\ Past(p, e.snapshot) /\ (Is(p, e.snapshot) => remote[p].body = e.body)
      /\ \A t \in Copies(p) : AllKeep(p, e.body, t)
      /\ SyncIn(p, {"decide", "post"}) => e.snapshot.rev \leq sync.seen.rev \/ W(p, Over)
      /\ Late(p) => e.snapshot.rev \leq sync.saved.rev \/ W(p, Over)
      /\ \A q : q # p => ~NowAt(q, {"meta", "base"})
  BY <1>1, NowFacts
<1>3. poll'.pc = "base" /\ poll'.batch = poll.batch /\ poll'.free = poll.free /\ poll'.now = e
  <2>1. poll' = [pc |-> "base", batch |-> poll.batch, free |-> poll.free, now |-> e]
    BY <1>1, <1>2
  <2>. QED
    BY <2>1
<1>4. /\ stored'[p].snapshot = e.snapshot /\ stored'[p].base = stored[p].base
      /\ \A q \in Pages : q # p => stored'[q] = stored[q]
  <2>1. stored' = [stored EXCEPT ![p].snapshot = e.snapshot]
    BY <1>1
  <2>2. UNCHANGED <<remote, known, count>>
    BY <1>1
  <2>3. p \in Pages /\ e.snapshot \in Pair /\ Given(e.snapshot)
    BY <1>2
  <2>. QED
    BY <2>1, <2>2, <2>3, SnapshotSaved
<1>5. Unapplied' = Unapplied
  BY <1>2, <1>3 DEF Unapplied
<1>6. PollShape'
  BY <1>1, <1>2, <1>3, <1>5 DEF KInv, PollShape
<1>7. Grown /\ SameRemote(p) /\ known'[p] = known[p] /\ SameSync(p) /\ NotSettled(p) /\ local'[p] = local[p]
  BY <1>1 DEF Grown, SameRemote, SameSync, NotSettled, Settled
<1>8. ASSUME NEW q \in Pages, q # p PROVE Kept(q)'
  <2>1. SameButPage(q)
    BY <1>1, <1>2, <1>3, <1>4, <1>7, <1>8 DEF SameButPage, SameSaved, NowAt
  <2>. QED
    BY <1>5, <1>8, <2>1, RefreshElsewhere DEF KInv
<1>9. Kept(p)'
  <2>1. StillMerging(p) /\ NoCopies(p) /\ SyncSees(p)
    BY <1>7, SyncFrame, SyncSame
  <2>2. PageKept(p)'
    <3>1. Uploaded(p)' /\ KnownFile(p)'
      BY <1>2, <1>7, UploadedStays DEF PageKept
    <3>2. BaseKept(p)'
      BY <1>2, <1>4, <1>7, <2>1, BaseStays DEF PageKept
    <3>3. SnapshotKept(p, known[p])'
      BY <1>2, <1>7, <2>1, SnapshotStays DEF PageKept
    <3>4. SnapshotKept(p, stored[p].snapshot)'
      BY <1>2, <1>4, <1>7, <2>1, NowSnapshot
    <3>5. StoredIsKnown(p)'
      BY <1>2, <1>3, <1>4 DEF StoredIsKnown, NowAt
    <3>. QED
      BY <3>1, <3>2, <3>3, <3>4, <3>5 DEF PageKept
  <2>3. SyncKept(p)'
    <3>1. (\A s : SyncIn(p, s) <=> SyncIn(p, s)') /\ (Late(p) <=> Late(p)') /\ Current' = Current
      BY <1>1 DEF SyncIn, Late, Current, Written
    <3>2. /\ \A A, B : AllKeep(p, A, B) => AllKeep(p, A, B)'
          /\ \A A, B : Keeps(OfAll, p, A, B) => Keeps(OfAll, p, A, B)'
          /\ \A s : (Is(p, s) <=> Is(p, s)') /\ (Past(p, s) <=> Past(p, s)')
          /\ \A kinds : W(p, kinds) <=> W(p, kinds)'
      BY <1>1, <1>7, AllStay, RevisionsSame DEF W
    <3>3. \A n : SavedUpTo(p, n) /\ (e.snapshot.rev \leq n \/ W(p, Over)) => SavedUpTo(p, n)'
      BY <1>4, <1>7, <3>2 DEF SavedUpTo
    <3>4. SyncFile(p)' /\ SyncGot(p)'
      BY <1>1, <1>2, <3>1, <3>2 DEF SyncKept, SyncFile, SyncGot
    <3>5. SyncSeen(p)'
      BY <1>1, <1>2, <3>1, <3>2, <3>3 DEF SyncKept, SyncSeen
    <3>6. SyncDecides(p)' /\ SyncPosts(p)' /\ SyncBytes(p)'
      BY <1>1, <1>2, <1>4, <3>1, <3>2 DEF SyncKept, SyncDecides, SyncPosts, SyncBytes
    <3>7. SyncSaved(p)'
      BY <1>1, <1>2, <3>1, <3>2, <3>3 DEF SyncKept, SyncSaved
    <3>8. SyncMerged(p)'
      BY <1>1, <1>2, <1>4, <3>1, <3>2 DEF SyncKept, SyncMerged
    <3>. QED
      BY <3>4, <3>5, <3>6, <3>7, <3>8 DEF SyncKept
  <2>4. NowKept(p)'
    <3>1. NowAt(p, {"meta", "base"})' => NowAt(p, {"meta", "base"}) /\ poll'.now = poll.now
      BY <1>2, <1>3
    <3>. QED
      BY <1>2, <1>7, <2>1, <3>1, NowStays DEF Kept
  <2>5. ItemsKept(p)' /\ StartKept(p)'
    BY <1>1, <1>2, <1>5 DEF ItemsKept, StartKept
  <2>. QED
    BY <2>2, <2>3, <2>4, <2>5 DEF Kept
<1>. QED
  BY <1>6, <1>8, <1>9 DEF KInv

LEMMA PollBaseKept == ASSUME TInv, KInv, PollBase PROVE KInv'
<1>. SUFFICES ASSUME NEW e, e = poll.now, NEW p, p = e.page PROVE KInv'
  OBVIOUS
<1>1. /\ mode = "up" /\ poll.pc = "base" /\ PollOvertaken(e)
      /\ UNCHANGED <<remote, local, mode, dirty, conflicted, sync, count, gone>>
      /\ stored' = [stored EXCEPT ![p].base = e.body]
      /\ known' = [known EXCEPT ![p] = e.snapshot]
      /\ poll' = IF poll.batch = {e} THEN NoPoll
                 ELSE [pc |-> "apply", batch |-> poll.batch \ {e}, free |-> poll.free]
  BY DEF PollBase, Polling
<1>2. /\ p \in Pages /\ Given(e.snapshot) /\ e.snapshot \in Pair /\ e.snapshot.rev \in Nat
      /\ e.body \in SUBSET Changes /\ e \in poll.batch
      /\ Unapplied = poll.batch \ {e} /\ (\A f \in Unapplied : f.page # p)
      /\ NowAt(p, {"meta", "base"}) /\ Kept(p) /\ PageKept(p)
      /\ Past(p, e.snapshot) /\ (Is(p, e.snapshot) => remote[p].body = e.body)
      /\ AllKeep(p, e.body, remote[p].body)
      /\ \A t \in Copies(p) : AllKeep(p, e.body, t)
      /\ Settled(p) /\ Is(p, e.snapshot) => SameText(p)
      /\ \A q : q # p => ~NowAt(q, {"meta", "base"})
  BY <1>1, NowFacts
<1>3. /\ poll'.pc \in {"idle", "apply"} /\ Unapplied' \subseteq Unapplied
      /\ poll'.pc = "apply" => poll'.batch \subseteq poll.batch /\ poll'.free = poll.free
  <2>1. CASE poll.batch = {e}
    BY <1>1, <2>1 DEF NoPoll, Unapplied
  <2>2. CASE poll.batch # {e}
    <3>1. poll'.pc = "apply" /\ poll'.batch = poll.batch \ {e} /\ poll'.free = poll.free
      BY <1>1, <2>2
    <3>. QED
      BY <1>2, <3>1 DEF Unapplied
  <2>. QED
    BY <2>1, <2>2
<1>4. /\ stored'[p].base = e.body /\ stored'[p].snapshot = stored[p].snapshot
      /\ \A q \in Pages : stored'[q].snapshot = stored[q].snapshot
      /\ \A q \in Pages : q # p => stored'[q] = stored[q]
  <2>1. stored' = [stored EXCEPT ![p].base = e.body]
    BY <1>1
  <2>2. p \in Pages /\ e.body \in SUBSET Changes
    BY <1>2
  <2>. QED
    BY <2>1, <2>2, BaseSaved
<1>5. known'[p] = e.snapshot /\ \A q \in Pages : q # p => known'[q] = known[q]
  <2>1. known' = [known EXCEPT ![p] = e.snapshot] /\ UNCHANGED <<remote, count>>
    BY <1>1
  <2>. QED
    BY <1>2, <1>4, <2>1, KnownSaved
<1>6. PollShape'
  BY <1>1, <1>3 DEF KInv, PollShape
<1>7. /\ windows \subseteq windows'
      /\ W(p, Over)' \/ (/\ p \notin Protected /\ p \notin dirty /\ ~SyncIn(p, Steps)
                                /\ ~(SnapshotFor(p).rev > e.snapshot.rev) /\ UNCHANGED windows)
  BY <1>1, <1>2, NotOvertaken DEF KInv
<1>8. Grown /\ SameRemote(p) /\ SameSync(p) /\ NotSettled(p) /\ local'[p] = local[p]
  BY <1>1, <1>7 DEF Grown, SameRemote, SameSync, NotSettled, Settled
<1>9. ASSUME NEW q \in Pages, q # p PROVE Kept(q)'
  <2>1. SameButPage(q)
    BY <1>1, <1>2, <1>3, <1>4, <1>5, <1>8, <1>9 DEF SameButPage, SameSaved, NowAt
  <2>. QED
    BY <1>3, <1>9, <2>1, RefreshElsewhere DEF KInv
<1>10. Kept(p)'
  <2>1. ItemsKept(p)' /\ StartKept(p)' /\ NowKept(p)'
    BY <1>1, <1>2, <1>3 DEF ItemsKept, StartKept, NowKept, NowAt
  <2>2. CASE W(p, Over)'
    <3>1. stored'[p].snapshot = NoSnapshot \/ Past(p, stored'[p].snapshot)
      BY <1>2, <1>4 DEF PageKept, SnapshotKept
    <3>2. PageKept(p)' /\ SyncKept(p)'
      BY <1>1, <1>2, <1>5, <1>8, <2>2, <3>1, AppliedKept
    <3>. QED
      BY <2>1, <3>2 DEF Kept
  <2>3. CASE /\ p \notin Protected /\ p \notin dirty /\ ~SyncIn(p, Steps)
             /\ ~(SnapshotFor(p).rev > e.snapshot.rev)
    <3>1. ~SyncIn(p, Steps)' /\ ~Late(p) /\ ~SyncIn(p, {"base"})
      BY <1>1, <2>3, SyncElsewhere DEF SyncIn, Steps
    <3>2. SyncKept(p)' /\ StillMerging(p) /\ NoCopies(p)
      BY <1>8, <3>1, SyncLeaves, SyncFrame
    <3>3. stored[p].snapshot.rev \leq e.snapshot.rev \/ W(p, OfAll.but)
      BY <1>2, <2>3, <3>1, StoredBehind
    <3>4. Uploaded(p)'
      BY <1>2, <1>8, UploadedStays DEF PageKept
    <3>5. KnownFile(p)'
      BY <1>2, <1>5, <1>8, TextStays, RevisionsSame DEF KnownFile, NotSettled
    <3>6. BaseKept(p)'
      BY <1>2, <1>4, <1>8, <3>2, AllStay DEF BaseKept, NoCopies, SameRemote
    <3>7. SnapshotKept(p, known[p])'
      BY <1>2, <1>5, <1>8, <3>2, NowSnapshot
    <3>8. SnapshotKept(p, stored[p].snapshot)'
      BY <1>2, <1>4, <1>8, <3>2, SnapshotStays DEF PageKept
    <3>9. StoredIsKnown(p)'
      <4>1. W(p, OfAll.but) => W(p, OfAll.but)'
        BY <1>8, WStays, ViewFacts DEF OfAll
      <4>. QED
        BY <1>4, <1>5, <3>3, <4>1 DEF StoredIsKnown
    <3>. QED
      BY <2>1, <3>2, <3>4, <3>5, <3>6, <3>7, <3>8, <3>9 DEF Kept, PageKept
  <2>. QED
    BY <1>7, <2>2, <2>3
<1>. QED
  BY <1>6, <1>9, <1>10 DEF KInv

LEMMA RefreshKept == ASSUME TInv, KInv, Refresh PROVE KInv'
BY PollBeginKept, PollReadKept, PollCheckKept, PollWriteKept, PollMetaKept, PollBaseKept DEF Refresh, Polling, PollWrite

(***************************************************************************)
(* A crash, and an initialization.                                         *)
(***************************************************************************)
InitSteps == {"idle", "init", "initMeta", "initBase"}

LEMMA NothingPolled ==
  ASSUME poll'.pc \in InitSteps
  PROVE  /\ PollShape' /\ Unapplied' = {}
         /\ \A q : ~NowAt(q, {"meta", "base"})' /\ NowKept(q)' /\ ItemsKept(q)'
<1>1. Unapplied' = {}
  BY DEF Unapplied, InitSteps
<1>2. \A q : ~NowAt(q, {"meta", "base"})'
  BY DEF NowAt, InitSteps
<1>. QED
  BY <1>1, <1>2 DEF PollShape, InitSteps, NowKept, ItemsKept

LEMMA CrashKept == ASSUME TInv, KInv, Crash PROVE KInv'
<1>1. /\ mode' = "down" /\ known' = [p \in Pages |-> NoSnapshot] /\ dirty' = {} /\ conflicted' = {}
      /\ sync' = NoSync /\ poll' = NoPoll /\ UNCHANGED <<remote, local, stored, gone>>
      /\ windows \subseteq windows'
      /\ \A p \in Protected : <<p, "crashed">> \in windows'
  BY DEF Crash
<1>2. poll'.pc \in InitSteps /\ sync'.pc = "idle"
  BY <1>1, NoSyncType DEF NoPoll, InitSteps
<1>3. PollShape' /\ \A q : NowKept(q)' /\ ItemsKept(q)'
  BY <1>2, NothingPolled
<1>4. ASSUME NEW p \in Pages PROVE Kept(p)'
  <2>1. Grown /\ SameRemote(p) /\ local'[p] = local[p] /\ stored'[p] = stored[p] /\ known'[p] = NoSnapshot
    BY <1>1 DEF Grown, SameRemote
  <2>2. ~SyncIn(p, Steps)'
    BY <1>2 DEF SyncIn, Steps
  <2>3. SyncKept(p)' /\ ~Merging(p)'
    BY <2>2, SyncLeaves
  <2>4. StartKept(p)'
    BY <1>1 DEF StartKept
  <2>5. PageKept(p)
    BY DEF KInv, Kept
  <2>6. KnownFile(p)' /\ StoredIsKnown(p)' /\ SnapshotKept(p, known[p])'
    BY <2>1 DEF KnownFile, StoredIsKnown, SnapshotKept
  <2>7. CASE p \in Protected
    <3>1. W(p, {"crashed"})'
      BY <1>1, <2>7 DEF W
    <3>2. (\A A, B : AllKeep(p, A, B)') /\ (\A A, B : Keeps(OfAll, p, A, B)')
      <4>1. Views' = Views /\ OfAll' = OfAll
        BY DEF Views, OfAll, OfEdits
      <4>2. \A v \in Views : W(p, v.but)'
        BY <3>1, ViewFacts DEF W
      <4>. QED
        BY <4>1, <4>2, ViewFacts DEF AllKeep, Keeps
    <3>3. Uploaded(p)'
      BY <3>1 DEF Uploaded, W, MayLack
    <3>4. BaseKept(p)'
      BY <3>2 DEF BaseKept
    <3>5. SnapshotKept(p, stored[p].snapshot)'
      BY <2>1, <2>5, <3>2, RevisionsSame DEF PageKept, SnapshotKept
    <3>. QED
      BY <1>3, <2>3, <2>4, <2>6, <3>3, <3>4, <3>5 DEF Kept, PageKept
  <2>8. CASE p \notin Protected
    <3>1. Settled(p) /\ ~SyncIn(p, Steps)
      <4>1. sync.todo \subseteq sync.batch /\ sync.conflicts \subseteq sync.batch
        BY DEF TInv, SyncType, SyncControl
      <4>2. SyncIn(p, Steps) => p \in sync.todo
        BY DEF SyncIn, Steps, TInv, SyncType, SyncControl, AtNoPage
      <4>. QED
        BY <2>8, <4>1, <4>2 DEF Protected, Settled
    <3>2. NotSettled(p) /\ StillMerging(p) /\ NoCopies(p)
      BY <2>1, <2>2, <3>1, SyncElsewhere, CopiesOf, CopiesAfter DEF NotSettled, StillMerging, NoCopies
    <3>3. Uploaded(p)'
      BY <2>1, <2>5, <3>2, UploadedStays DEF PageKept
    <3>4. BaseKept(p)'
      BY <2>1, <2>5, <3>2, BaseStays DEF PageKept
    <3>5. SnapshotKept(p, stored[p].snapshot)'
      BY <2>1, <2>5, <3>2, SnapshotStays DEF PageKept
    <3>. QED
      BY <1>3, <2>3, <2>4, <2>6, <3>3, <3>4, <3>5 DEF Kept, PageKept
  <2>. QED
    BY <2>7, <2>8
<1>. QED
  BY <1>3, <1>4 DEF KInv

LEMMA StartFrame ==
  ASSUME TInv, Initialize
  PROVE  /\ mode # "up" /\ UNCHANGED <<remote, dirty, conflicted, sync, count, gone, windows>> /\ Grown
         /\ poll.pc \in InitSteps
         /\ \A p \in Pages : /\ known[p] = NoSnapshot /\ Settled(p) /\ SameRemote(p) /\ NotSettled(p)
                             /\ ~SyncIn(p, Steps) /\ ~SyncIn(p, Steps)' /\ ~Merging(p) /\ ~Merging(p)'
                             /\ Copies(p) = {local[p]} /\ Copies(p)' = {local'[p]}
                             /\ StillMerging(p) /\ SyncKept(p)' /\ ~NowAt(p, {"meta", "base"})
<1>1. mode # "up" /\ UNCHANGED <<remote, dirty, conflicted, sync, count, gone, windows>>
  BY DEF Initialize, InitBegin, InitWrite, InitMeta, InitBase, InitEnd, Starting
<1>2. mode \in {"down", "starting", "up"}
  BY DEF TInv, StateType
<1>3. /\ poll.pc \in InitSteps /\ sync.pc = "idle" /\ dirty = {} /\ conflicted = {}
      /\ \A p \in Pages : known[p] = NoSnapshot
  BY <1>1, <1>2 DEF TInv, PollType, Control, InitSteps
<1>4. sync.todo = {} /\ sync.conflicts = {}
  BY <1>3 DEF TInv, SyncType, SyncControl
<1>5. Grown
  BY <1>1 DEF Grown
<1>6. ASSUME NEW p \in Pages
      PROVE  /\ Settled(p) /\ SameRemote(p) /\ NotSettled(p)
             /\ ~SyncIn(p, Steps) /\ ~SyncIn(p, Steps)'
             /\ ~NowAt(p, {"meta", "base"})
  BY <1>1, <1>3, <1>4 DEF Settled, SameRemote, NotSettled, SyncIn, Steps, NowAt, InitSteps
<1>7. ASSUME NEW p \in Pages
      PROVE  /\ ~Merging(p) /\ ~Merging(p)' /\ StillMerging(p) /\ SyncKept(p)'
             /\ Copies(p) = {local[p]} /\ Copies(p)' = {local'[p]}
  BY <1>6, SyncElsewhere, SyncLeaves, CopiesOf, CopiesAfter DEF StillMerging
<1>. QED
  BY <1>1, <1>3, <1>5, <1>6, <1>7

\* A page an initialization leaves alone, but for how far it has come.
LEMMA StartElsewhere ==
  ASSUME TInv, Initialize, NEW p \in Pages, poll'.pc \in InitSteps, known'[p] = NoSnapshot,
         stored'[p] = stored[p], local'[p] = local[p], Kept(p)
  PROVE  PageKept(p)'
<1>1. /\ Grown /\ known[p] = NoSnapshot /\ SameRemote(p) /\ NotSettled(p) /\ ~SyncIn(p, Steps)
      /\ Copies(p) = {local[p]} /\ Copies(p)' = {local'[p]} /\ StillMerging(p)
      /\ ~NowAt(p, {"meta", "base"})
  BY StartFrame
<1>2. /\ SameSaved(p) /\ NoCopies(p) /\ ~SyncIn(p, {"base"})
  BY <1>1 DEF SameSaved, NoCopies, SyncIn, Steps
<1>3. PollSame(p)
  BY <1>1, NothingPolled DEF PollSame
<1>. QED
  BY <1>1, <1>2, <1>3, PageStays DEF Kept

LEMMA InitBeginKept == ASSUME TInv, KInv, InitBegin PROVE KInv'
<1>1. /\ mode = "down" /\ UNCHANGED <<remote, local, known, stored>> /\ Initialize
      /\ \/ /\ mode' = "starting" /\ poll' = [pc |-> "init", tree |-> Tree, todo |-> DOMAIN Tree]
         \/ mode' = "up" /\ UNCHANGED poll
  BY DEF InitBegin, Initialize
<1>2. poll'.pc \in InitSteps
  BY <1>1, StartFrame DEF InitSteps
<1>3. PollShape' /\ \A q : NowKept(q)' /\ ItemsKept(q)'
  BY <1>2, NothingPolled
<1>4. ASSUME NEW p \in Pages PROVE Kept(p)'
  <2>1. known'[p] = NoSnapshot /\ SyncKept(p)' /\ Kept(p) /\ UNCHANGED gone
    BY <1>1, StartFrame DEF KInv
  <2>2. PageKept(p)'
    BY <1>1, <1>2, <2>1, StartElsewhere
  <2>3. StartKept(p)'
    <3>1. CASE mode' = "up"
      BY <3>1 DEF StartKept
    <3>2. CASE poll' = [pc |-> "init", tree |-> Tree, todo |-> DOMAIN Tree]
      <4>1. poll'.pc = "init" /\ poll'.tree = Tree /\ poll'.todo = DOMAIN Tree
        BY <3>2
      <4>2. StartNow(p)'
        BY <4>1 DEF StartNow, NowAt
      <4>3. CASE p \notin DOMAIN Tree
        BY <4>1, <4>2, <4>3 DEF StartKept, StartTodo, StartDone
      <4>4. CASE p \in DOMAIN Tree
        <5>1. remote[p] # Absent /\ poll'.tree[p] = remote[p] /\ remote[p].rev \in Nat
          BY <4>1, <4>4, TreeType DEF TInv, StateType, PageType
        <5>2. StartTodo(p)'
          <6>1. AllKeep(p, stored[p].base, remote[p].body)
            BY <2>1 DEF Kept, PageKept, BaseKept
          <6>2. AllKeep(p, stored[p].base, remote[p].body)'
            BY <1>1, <6>1, StartFrame, AllStay
          <6>. QED
            BY <1>1, <5>1, <6>2 DEF StartTodo
        <5>3. StartDone(p)'
          <6>1. stored[p].snapshot.rev \leq remote[p].rev
            BY <2>1, <5>1, PastKnown DEF Kept
          <6>. QED
            BY <1>1, <4>1, <4>4, <5>1, <6>1 DEF StartDone, Past
        <5>. QED
          BY <4>2, <5>2, <5>3 DEF StartKept
      <4>. QED
        BY <4>3, <4>4
    <3>. QED
      BY <1>1, <3>1, <3>2
  <2>. QED
    BY <1>3, <2>1, <2>2, <2>3 DEF Kept
<1>. QED
  BY <1>3, <1>4 DEF KInv

LEMMA InitWriteKept == ASSUME TInv, KInv, NEW p \in Pages, InitWrite(p) PROVE KInv'
<1>1. /\ mode = "starting" /\ poll.pc = "init" /\ p \in poll.todo /\ Initialize
      /\ UNCHANGED <<remote, known, stored, gone>>
  BY DEF InitWrite, Starting, Initialize
<1>2. Listing(poll.tree, poll.todo) /\ p \in DOMAIN poll.tree
  BY <1>1 DEF TInv, PollType, Listing
<1>3. CASE mode' = "down" /\ poll' = NoPoll /\ UNCHANGED local
  <2>1. poll'.pc \in InitSteps
    BY <1>3 DEF NoPoll, InitSteps
  <2>2. PollShape' /\ \A q : NowKept(q)' /\ ItemsKept(q)'
    BY <2>1, NothingPolled
  <2>3. ASSUME NEW q \in Pages PROVE Kept(q)'
    <3>1. known'[q] = NoSnapshot /\ SyncKept(q)' /\ Kept(q)
      BY <1>1, StartFrame DEF KInv
    <3>2. PageKept(q)' /\ StartKept(q)'
      BY <1>1, <1>3, <2>1, <3>1, StartElsewhere DEF StartKept
    <3>. QED
      BY <2>2, <3>1, <3>2 DEF Kept
  <2>. QED
    BY <2>2, <2>3 DEF KInv
<1>4. ASSUME NEW body \in SUBSET Changes, ReadPageCached(p, poll.tree[p], body),
             local' = [local EXCEPT ![p] = body], mode' = mode, NEW e,
             e = [page |-> p, snapshot |-> Snapshot(poll.tree[p]), body |-> body],
             poll' = [pc |-> "initMeta", tree |-> poll.tree, todo |-> poll.todo \ {p}, now |-> e]
      PROVE  KInv'
  <2>1. /\ poll'.pc = "initMeta" /\ poll'.tree = poll.tree /\ poll'.todo = poll.todo \ {p}
        /\ poll'.now = e /\ e.page = p /\ e.body = body
    BY <1>4
  <2>2. poll'.pc \in InitSteps
    BY <2>1 DEF InitSteps
  <2>3. PollShape' /\ \A q : NowKept(q)' /\ ItemsKept(q)'
    BY <2>2, NothingPolled
  <2>4. local'[p] = body /\ \A q \in Pages : q # p => local'[q] = local[q]
    <3>1. local' = [local EXCEPT ![p] = body]
      BY <1>4
    <3>. QED
      BY <1>4, <3>1, FileWritten, Zenon
  <2>5. ASSUME NEW q \in Pages
        PROVE  /\ Kept(q) /\ StartTodo(q) /\ StartDone(q) /\ known'[q] = NoSnapshot /\ SyncKept(q)'
               /\ \A s : (Is(q, s) <=> Is(q, s)') /\ (Past(q, s) <=> Past(q, s)')
               /\ \A A, B : AllKeep(q, A, B) => AllKeep(q, A, B)'
               /\ Copies(q)' = {local'[q]} /\ remote'[q] = remote[q] /\ stored'[q] = stored[q]
    BY <1>1, StartFrame, RevisionsSame, AllStay DEF KInv, Kept, StartKept
  <2>6. ASSUME NEW q \in Pages, q # p PROVE Kept(q)'
    <3>1. PageKept(q)'
      BY <1>1, <2>2, <2>4, <2>5, <2>6, StartElsewhere
    <3>2. StartTodo(q)'
      BY <1>1, <2>1, <2>5, <2>6 DEF StartTodo
    <3>3. StartDone(q)'
      BY <2>1, <2>4, <2>5, <2>6 DEF StartDone
    <3>4. StartNow(q)'
      BY <2>1, <2>6 DEF StartNow, NowAt
    <3>. QED
      BY <2>3, <2>5, <3>1, <3>2, <3>3, <3>4 DEF Kept, StartKept
  <2>7. Kept(p)'
    <3>1. PageKept(p)
      BY <2>5 DEF Kept
    <3>2. /\ body \subseteq remote[p].body \cup gone /\ AllKeep(p, stored[p].base, body)
          /\ Is(p, poll.tree[p]) => remote[p].body = body
          /\ Past(p, poll.tree[p]) /\ stored[p].snapshot.rev \leq poll.tree[p].rev
      <4>1. body = poll.tree[p].body \/ body = remote[p].body
        BY <1>4 DEF ReadPageCached
      <4>2. AllKeep(p, stored[p].base, remote[p].body)
        BY <3>1 DEF PageKept, BaseKept
      <4>3. /\ Is(p, poll.tree[p]) => remote[p].body = poll.tree[p].body
            /\ poll.tree[p].body \subseteq remote[p].body \cup gone
            /\ AllKeep(p, stored[p].base, poll.tree[p].body)
        BY <1>1, <2>5 DEF StartTodo
      <4>4. Past(p, poll.tree[p]) /\ stored[p].snapshot.rev \leq poll.tree[p].rev
        BY <1>2, <2>5 DEF StartDone
      <4>. QED
        BY <4>1, <4>2, <4>3, <4>4
    <3>3. Uploaded(p)'
      BY <1>1, <2>4, <2>5, <3>2 DEF Uploaded
    <3>4. KnownFile(p)' /\ StoredIsKnown(p)' /\ SnapshotKept(p, known[p])'
      BY <2>5 DEF KnownFile, StoredIsKnown, SnapshotKept
    <3>5. BaseKept(p)'
      <4>1. AllKeep(p, stored[p].base, remote[p].body)
        BY <3>1 DEF PageKept, BaseKept
      <4>. QED
        BY <2>4, <2>5, <3>2, <4>1 DEF BaseKept
    <3>6. SnapshotKept(p, stored[p].snapshot)'
      <4>1. stored[p].snapshot # NoSnapshot => Past(p, stored[p].snapshot)
        BY <3>1 DEF PageKept, SnapshotKept
      <4>2. stored[p].snapshot # NoSnapshot /\ Is(p, stored[p].snapshot) => Is(p, poll.tree[p])
        <5>. SUFFICES ASSUME stored[p].snapshot # NoSnapshot, Is(p, stored[p].snapshot)
                      PROVE  Is(p, poll.tree[p])
          OBVIOUS
        <5>1. Given(stored[p].snapshot) /\ poll.tree[p].rev \in Nat /\ remote[p].rev \in Nat
          BY <1>2 DEF TInv, RevisionsType, StateType, Listing, PageType
        <5>2. remote[p].rev = stored[p].snapshot.rev /\ remote[p].rev >= 1
          BY <5>1 DEF Is, Given, TInv, StateType
        <5>3. remote[p] # Absent
          BY <5>2 DEF Absent
        <5>. QED
          BY <3>2, <5>1, <5>2, <5>3 DEF Is, Past
      <4>3. remote[p].body = body => Keeps(OfAll, p, remote[p].body, body)'
        BY <2>5 DEF Keeps
      <4>. QED
        BY <2>4, <2>5, <3>2, <4>1, <4>2, <4>3 DEF SnapshotKept
    <3>7. StartTodo(p)'
      BY <2>1 DEF StartTodo
    <3>8. StartDone(p)'
      BY <2>1, <2>4, <2>5, <3>2 DEF StartDone
    <3>9. StartNow(p)'
      BY <1>1, <2>1, <2>4, <2>5, <3>2 DEF StartNow
    <3>. QED
      BY <2>3, <2>5, <3>3, <3>4, <3>5, <3>6, <3>7, <3>8, <3>9 DEF Kept, PageKept, StartKept
  <2>. QED
    BY <2>3, <2>6, <2>7 DEF KInv
<1>. QED
  BY <1>3, <1>4 DEF InitWrite

LEMMA StartNowFacts ==
  ASSUME TInv, KInv, mode = "starting", poll.pc \in {"initMeta", "initBase"}, Initialize,
         UNCHANGED <<local, known, mode>>, poll'.pc \in {"init", "initBase"}, poll'.tree = poll.tree,
         poll'.todo = poll.todo, NEW e, e = poll.now, poll'.pc = "init" \/ poll'.now = e,
         NEW p, p = e.page, \A q \in Pages : q # p => stored'[q] = stored[q],
         PageKept(p)', stored'[p].snapshot.rev \leq poll.tree[p].rev
  PROVE  KInv'
<1>1. poll'.pc \in InitSteps
  BY DEF InitSteps
<1>2. PollShape' /\ \A q : NowKept(q)' /\ ItemsKept(q)'
  BY <1>1, NothingPolled
<1>3. p \in DOMAIN poll.tree /\ p \notin poll.todo /\ p \in Pages
  BY DEF TInv, PollType, Items, Item
<1>4. ASSUME NEW q \in Pages
      PROVE  /\ Kept(q) /\ StartTodo(q) /\ StartDone(q) /\ StartNow(q) /\ known'[q] = NoSnapshot
             /\ SyncKept(q)' /\ UNCHANGED gone
             /\ \A s : (Is(q, s) <=> Is(q, s)') /\ (Past(q, s) <=> Past(q, s)')
             /\ \A A, B : AllKeep(q, A, B) => AllKeep(q, A, B)'
             /\ remote'[q] = remote[q]
  BY StartFrame, RevisionsSame, AllStay DEF KInv, Kept, StartKept
<1>5. ASSUME NEW q \in Pages PROVE PageKept(q)'
  BY <1>1, <1>4, StartElsewhere
<1>6. ASSUME NEW q \in Pages PROVE StartTodo(q)' /\ StartDone(q)' /\ StartNow(q)'
  <2>1. StartTodo(q)'
    BY <1>3, <1>4 DEF StartTodo
  <2>2. StartDone(q)'
    BY <1>3, <1>4 DEF StartDone
  <2>3. StartNow(q)'
    BY <1>4 DEF StartNow, NowAt
  <2>. QED
    BY <2>1, <2>2, <2>3
<1>. QED
  BY <1>2, <1>4, <1>5, <1>6 DEF KInv, Kept, StartKept

LEMMA StartingAt ==
  ASSUME TInv, KInv, mode = "starting", poll.pc \in {"initMeta", "initBase"}, NEW e, e = poll.now,
         NEW p, p = e.page
  PROVE  /\ p \in Pages /\ e.snapshot \in Pair /\ Given(e.snapshot) /\ e.body \in SUBSET Changes
         /\ p \in DOMAIN poll.tree /\ e.snapshot.rev = poll.tree[p].rev /\ e.snapshot.rev \in Nat
         /\ poll = [pc |-> poll.pc, tree |-> poll.tree, todo |-> poll.todo, now |-> e]
         /\ Kept(p) /\ PageKept(p) /\ Past(p, e.snapshot)
         /\ Is(p, e.snapshot) => local[p] = remote[p].body
         /\ local[p] = e.body /\ e.body \subseteq remote[p].body \cup gone
         /\ stored[p].snapshot.rev \leq poll.tree[p].rev
<1>1. /\ Listing(poll.tree, poll.todo) /\ Items({e})
      /\ p \in DOMAIN poll.tree /\ p \notin poll.todo /\ e.snapshot = Snapshot(poll.tree[p])
      /\ poll = [pc |-> poll.pc, tree |-> poll.tree, todo |-> poll.todo, now |-> e]
  BY DEF TInv, PollType
<1>2. p \in Pages /\ e.snapshot \in Pair /\ Given(e.snapshot) /\ e.body \in SUBSET Changes
  BY <1>1 DEF Items, Item
<1>3. e.snapshot.rev = poll.tree[p].rev /\ e.snapshot.rev \in Nat
  BY <1>1, <1>2 DEF Snapshot, Pair
<1>4. Kept(p) /\ StartDone(p) /\ StartNow(p) /\ NowAt(p, {"initMeta", "initBase"})
  BY <1>2 DEF KInv, Kept, StartKept, NowAt
<1>5. /\ Past(p, poll.tree[p]) /\ (Is(p, poll.tree[p]) => local[p] = remote[p].body)
      /\ stored[p].snapshot.rev \leq poll.tree[p].rev
      /\ local[p] = e.body /\ e.body \subseteq remote[p].body \cup gone
  BY <1>1, <1>4 DEF StartDone, StartNow
<1>6. Past(p, e.snapshot) /\ (Is(p, e.snapshot) => local[p] = remote[p].body)
  BY <1>3, <1>5 DEF Past, Is
<1>. QED
  BY <1>1, <1>2, <1>3, <1>4, <1>5, <1>6 DEF Kept

LEMMA InitMetaKept == ASSUME TInv, KInv, InitMeta PROVE KInv'
<1>. SUFFICES ASSUME NEW e, e = poll.now, NEW p, p = e.page PROVE KInv'
  OBVIOUS
<1>1. /\ mode = "starting" /\ poll.pc = "initMeta" /\ Initialize
      /\ UNCHANGED <<remote, local, known, mode, count>>
      /\ stored' = [stored EXCEPT ![p].snapshot = e.snapshot]
      /\ poll' = [poll EXCEPT !.pc = "initBase"]
  BY DEF InitMeta, Starting, Initialize
<1>2. /\ p \in Pages /\ e.snapshot \in Pair /\ Given(e.snapshot)
      /\ e.snapshot.rev = poll.tree[p].rev /\ e.snapshot.rev \in Nat
      /\ poll = [pc |-> poll.pc, tree |-> poll.tree, todo |-> poll.todo, now |-> e]
      /\ PageKept(p) /\ Past(p, e.snapshot) /\ (Is(p, e.snapshot) => local[p] = remote[p].body)
  BY <1>1, StartingAt
<1>3. poll'.pc = "initBase" /\ poll'.tree = poll.tree /\ poll'.todo = poll.todo /\ poll'.now = e
  <2>1. poll' = [pc |-> "initBase", tree |-> poll.tree, todo |-> poll.todo, now |-> e]
    BY <1>1, <1>2
  <2>. QED
    BY <2>1
<1>4. /\ stored'[p].snapshot = e.snapshot /\ stored'[p].base = stored[p].base
      /\ \A q \in Pages : q # p => stored'[q] = stored[q]
  <2>1. stored' = [stored EXCEPT ![p].snapshot = e.snapshot] /\ UNCHANGED <<remote, known, count>>
    BY <1>1
  <2>2. p \in Pages /\ e.snapshot \in Pair /\ Given(e.snapshot)
    BY <1>2
  <2>. QED
    BY <2>1, <2>2, SnapshotSaved
<1>5. /\ Grown /\ known'[p] = NoSnapshot /\ known[p] = NoSnapshot /\ SameRemote(p) /\ NotSettled(p)
      /\ StillMerging(p) /\ NoCopies(p) /\ Copies(p) = {local[p]}
  BY <1>1, <1>2, StartFrame DEF NoCopies
<1>6. PageKept(p)'
  <2>1. Uploaded(p)'
    BY <1>1, <1>2, <1>5, UploadedStays DEF PageKept
  <2>2. KnownFile(p)' /\ StoredIsKnown(p)' /\ SnapshotKept(p, known[p])'
    BY <1>5 DEF KnownFile, StoredIsKnown, SnapshotKept
  <2>3. BaseKept(p)'
    BY <1>2, <1>4, <1>5, BaseStays DEF PageKept
  <2>4. SnapshotKept(p, stored[p].snapshot)'
    <3>1. SnapshotKept(p, e.snapshot)
      BY <1>2, <1>5 DEF SnapshotKept, Keeps
    <3>. QED
      BY <1>4, <1>5, <3>1, SnapshotStays
  <2>. QED
    BY <2>1, <2>2, <2>3, <2>4 DEF PageKept
<1>. QED
  BY <1>1, <1>2, <1>3, <1>4, <1>6, StartNowFacts

LEMMA InitBaseKept == ASSUME TInv, KInv, InitBase PROVE KInv'
<1>. SUFFICES ASSUME NEW e, e = poll.now, NEW p, p = e.page PROVE KInv'
  OBVIOUS
<1>1. /\ mode = "starting" /\ poll.pc = "initBase" /\ Initialize
      /\ UNCHANGED <<local, known, mode>>
      /\ stored' = [stored EXCEPT ![p].base = e.body]
      /\ poll' = [pc |-> "init", tree |-> poll.tree, todo |-> poll.todo]
  BY DEF InitBase, Starting, Initialize
<1>2. /\ p \in Pages /\ e.body \in SUBSET Changes /\ PageKept(p)
      /\ local[p] = e.body /\ e.body \subseteq remote[p].body \cup gone
      /\ stored[p].snapshot.rev \leq poll.tree[p].rev
  BY <1>1, StartingAt
<1>3. poll'.pc = "init" /\ poll'.tree = poll.tree /\ poll'.todo = poll.todo
  BY <1>1
<1>4. /\ stored'[p].base = e.body /\ stored'[p].snapshot = stored[p].snapshot
      /\ \A q \in Pages : q # p => stored'[q] = stored[q]
  <2>1. stored' = [stored EXCEPT ![p].base = e.body]
    BY <1>1
  <2>2. p \in Pages /\ e.body \in SUBSET Changes
    BY <1>2
  <2>. QED
    BY <2>1, <2>2, BaseSaved
<1>5. /\ Grown /\ known'[p] = NoSnapshot /\ known[p] = NoSnapshot /\ SameRemote(p) /\ NotSettled(p)
      /\ StillMerging(p) /\ NoCopies(p) /\ Copies(p)' = {local'[p]}
  BY <1>1, <1>2, StartFrame DEF NoCopies
<1>6. PageKept(p)'
  <2>1. Uploaded(p)'
    BY <1>1, <1>2, <1>5, UploadedStays DEF PageKept
  <2>2. KnownFile(p)' /\ StoredIsKnown(p)' /\ SnapshotKept(p, known[p])'
    BY <1>5 DEF KnownFile, StoredIsKnown, SnapshotKept
  <2>3. BaseKept(p)'
    <3>1. AllKeep(p, e.body, remote[p].body) /\ AllKeep(p, e.body, e.body)
      BY <1>2, KeepsSub
    <3>2. AllKeep(p, e.body, remote[p].body)' /\ AllKeep(p, e.body, e.body)'
      BY <1>5, <3>1, AllStay DEF SameRemote
    <3>. QED
      BY <1>1, <1>2, <1>4, <1>5, <3>2 DEF BaseKept
  <2>4. SnapshotKept(p, stored[p].snapshot)'
    BY <1>2, <1>4, <1>5, SnapshotStays DEF PageKept
  <2>. QED
    BY <2>1, <2>2, <2>3, <2>4 DEF PageKept
<1>. QED
  BY <1>1, <1>2, <1>3, <1>4, <1>6, StartNowFacts

LEMMA InitEndKept == ASSUME TInv, KInv, InitEnd PROVE KInv'
<1>1. /\ mode = "starting" /\ poll.pc = "init" /\ poll.todo = {} /\ Initialize
      /\ UNCHANGED <<local, stored>> /\ mode' = "up" /\ poll'.pc = "idle"
      /\ known' = [p \in Pages |-> IF p \in DOMAIN poll.tree THEN Snapshot(poll.tree[p]) ELSE NoSnapshot]
  BY DEF InitEnd, Starting, Initialize, NoPoll
<1>2. poll'.pc \in InitSteps
  BY <1>1 DEF InitSteps
<1>3. PollShape' /\ \A q : NowKept(q)' /\ ItemsKept(q)'
  BY <1>2, NothingPolled
<1>4. ASSUME NEW p \in Pages PROVE Kept(p)'
  <2>1. /\ Kept(p) /\ PageKept(p) /\ SyncKept(p)' /\ StartDone(p) /\ Grown /\ SameRemote(p)
        /\ NotSettled(p) /\ StillMerging(p) /\ NoCopies(p) /\ Copies(p)' = {local'[p]}
    BY <1>1, StartFrame DEF KInv, Kept, StartKept, NoCopies
  <2>2. CASE p \notin DOMAIN poll.tree
    <3>1. known'[p] = NoSnapshot
      BY <1>1, <2>2
    <3>2. PageKept(p)' /\ StartKept(p)'
      BY <1>1, <1>2, <2>1, <3>1, StartElsewhere DEF StartKept
    <3>. QED
      BY <1>3, <2>1, <3>2 DEF Kept
  <2>3. CASE p \in DOMAIN poll.tree
    <3>. SUFFICES ASSUME NEW s, s = Snapshot(poll.tree[p]) PROVE Kept(p)'
      OBVIOUS
    <3>1. known'[p] = s /\ s.rev = poll.tree[p].rev
      BY <1>1, <2>3 DEF Snapshot
    <3>2. /\ Past(p, s) /\ stored[p].snapshot.rev \leq s.rev
          /\ Is(p, s) => local[p] = remote[p].body
      BY <1>1, <2>1, <2>3, <3>1 DEF StartDone, Past, Is
    <3>3. Uploaded(p)'
      BY <1>1, <2>1, UploadedStays DEF PageKept
    <3>4. KnownFile(p)'
      BY <1>1, <2>1, <3>1, <3>2, RevisionsSame DEF KnownFile, SameText, SameRemote
    <3>5. BaseKept(p)'
      BY <1>1, <2>1, BaseStays DEF PageKept
    <3>6. StoredIsKnown(p)'
      BY <1>1, <3>1, <3>2 DEF StoredIsKnown
    <3>7. SnapshotKept(p, known[p])'
      BY <1>1, <2>1, <3>1, <3>2, RevisionsSame DEF SnapshotKept, SameRemote, Keeps
    <3>8. SnapshotKept(p, stored[p].snapshot)'
      BY <1>1, <2>1, SnapshotStays DEF PageKept
    <3>9. StartKept(p)'
      BY <1>1 DEF StartKept
    <3>. QED
      BY <1>3, <2>1, <3>3, <3>4, <3>5, <3>6, <3>7, <3>8, <3>9 DEF Kept, PageKept
  <2>. QED
    BY <2>2, <2>3
<1>. QED
  BY <1>3, <1>4 DEF KInv

LEMMA InitializeKept == ASSUME TInv, KInv, Initialize PROVE KInv'
BY InitBeginKept, InitWriteKept, InitMetaKept, InitBaseKept, InitEndKept DEF Initialize

(***************************************************************************)
(* Every reachable state.                                                  *)
(***************************************************************************)
LEMMA KeptInit == Init => KInv
<1>. SUFFICES ASSUME Init PROVE KInv
  OBVIOUS
<1>1. /\ poll.pc = "idle" /\ sync.pc = "idle" /\ mode = "down"
      /\ \A p \in Pages : /\ local[p] = NoFile /\ known[p] = NoSnapshot
                          /\ stored[p].snapshot = NoSnapshot /\ stored[p].base = {}
  BY NoSyncType DEF Init, NoPoll
<1>2. Unapplied = {} /\ PollShape
  BY <1>1 DEF Unapplied, PollShape
<1>3. ASSUME NEW p \in Pages PROVE Kept(p)
  <2>1. ~SyncIn(p, Steps) /\ ~NowAt(p, {"meta", "base"})
    BY <1>1 DEF SyncIn, Steps, NowAt
  <2>2. Uploaded(p) /\ KnownFile(p)
    BY <1>1, NoFileKeeps, ChangesType DEF Uploaded, KnownFile
  <2>3. \A B : AllKeep(p, stored[p].base, B)
    BY <1>1, KeepsSub
  <2>4. PageKept(p)
    BY <1>1, <2>2, <2>3 DEF PageKept, BaseKept, StoredIsKnown, SnapshotKept
  <2>. QED
    BY <1>1, <1>2, <2>1, <2>4, SyncElsewhere DEF Kept, ItemsKept, NowKept, StartKept
<1>. QED
  BY <1>2, <1>3 DEF KInv

LEMMA KeptStutters == ASSUME KInv, UNCHANGED vars PROVE KInv'
<1>1. PollShape' /\ Unapplied' = Unapplied
  BY ShapeStays DEF vars, KInv
<1>2. ASSUME NEW q \in Pages PROVE Kept(q)'
  <2>1. Untouched(q)
    BY <1>1 DEF vars, Untouched, Grown, SameRemote, SameSaved, SameSync, NotSettled, Settled, PollSame
  <2>. QED
    BY <2>1, Elsewhere DEF KInv
<1>. QED
  BY <1>1, <1>2 DEF KInv

LEMMA KeptStep == ASSUME TInv, KInv, [Next]_vars PROVE KInv'
<1>1. CASE UNCHANGED vars
  BY <1>1, KeptStutters
<1>2. CASE Next
  BY <1>2, UserKept, ForeignKept, SyncStepKept, RefreshKept, CrashKept, InitializeKept DEF Next
<1>. QED
  BY <1>1, <1>2

(***************************************************************************)
(* The file and the page keep what they have.                              *)
(***************************************************************************)
EditsStay(p) ==
  \/ (local[p] \ local'[p]) \cap Edits \subseteq gone' \cup remote[p].body
  \/ Overtaken(p, {"written", "applied", "ignored", "skipped", "crashed"})

RemoteStays(p) ==
  \/ remote[p].body \ remote'[p].body \subseteq gone'
  \/ Overtaken(p, {"posted", "applied", "ignored", "crashed"})

\* What is uploaded may leave the file.
LEMMA UploadedLeaves ==
  ASSUME NEW p, Uploaded(p), Settled(p), windows \subseteq windows', UNCHANGED gone PROVE EditsStay(p)
BY DEF Uploaded, W, MayLack, EditsStay, Overtaken

LEMMA FileStep ==
  ASSUME TInv, Next
  PROVE  \/ UNCHANGED local
         \/ \E p \in Pages : Edit(p) \/ Remove(p)
         \/ SyncWrite
         \/ poll.pc = "apply" /\ \E e \in poll.batch : PollWrite(e)
         \/ \E p \in Pages : InitWrite(p)
<1>1. ASSUME NEW p \in Pages, ForeignEdit(p) \/ ForeignRemove(p) PROVE UNCHANGED local
  BY <1>1 DEF ForeignEdit, ForeignRemove
<1>2. ASSUME Sync PROVE UNCHANGED local \/ SyncWrite
  <2>1. ASSUME NEW p \in Pages, SyncRead(p) PROVE UNCHANGED local
    BY <2>1 DEF SyncRead
  <2>2. ASSUME SyncBegin \/ SyncSnapshot \/ SyncCreate \/ SyncGet PROVE UNCHANGED local
    BY <2>2 DEF SyncBegin, SyncSnapshot, SyncCreate, SyncGet
  <2>3. ASSUME SyncDecide PROVE UNCHANGED local
    BY <2>3, Zenon DEF SyncDecide
  <2>4. ASSUME SyncPost \/ SyncMeta \/ SyncBase \/ SyncFails \/ SyncEnd PROVE UNCHANGED local
    BY <2>4 DEF SyncPost, SyncMeta, SyncBase, SyncFails, SyncEnd
  <2>. QED
    BY <1>2, <2>1, <2>2, <2>3, <2>4 DEF Sync
<1>3. ASSUME Refresh PROVE UNCHANGED local \/ (poll.pc = "apply" /\ \E e \in poll.batch : PollWrite(e))
  BY <1>3 DEF Refresh, PollBegin, PollRead, PollCheck, PollMeta, PollBase
<1>4. ASSUME Initialize PROVE UNCHANGED local \/ \E p \in Pages : InitWrite(p)
  BY <1>4 DEF Initialize, InitBegin, InitMeta, InitBase, InitEnd
<1>5. ASSUME Crash PROVE UNCHANGED local
  BY <1>5 DEF Crash
<1>. QED
  BY <1>1, <1>2, <1>3, <1>4, <1>5 DEF Next

LEMMA EditsStep == ASSUME TInv, KInv, [Next]_vars, NEW p \in Pages PROVE EditsStay(p)
<1>1. ASSUME local'[p] = local[p] PROVE EditsStay(p)
  BY <1>1 DEF EditsStay
<1>2. ASSUME NEW q \in Pages, Edit(q) \/ Remove(q) PROVE EditsStay(p)
  <2>1. /\ local[q] \cap Changes \subseteq local'[q] \cup gone'
        /\ q # p => local'[p] = local[p]
    BY <1>2, UserEffect
  <2>. QED
    BY <1>1, <2>1, ChangesType DEF EditsStay
<1>3. ASSUME SyncWrite PROVE EditsStay(p)
  <2>. SUFFICES ASSUME sync.page = p PROVE EditsStay(p)
    BY <1>1, <1>3 DEF SyncWrite, Page, TInv, StateType
  <2>1. SyncIn(p, {"write"}) /\ local' = [local EXCEPT ![p] = sync.bytes] /\ UNCHANGED gone
        /\ IF local[p] # sync.mine THEN Window(p, "written") ELSE UNCHANGED windows
    BY <1>3 DEF SyncWrite, At, SyncIn, Page
  <2>2. CASE local[p] # sync.mine
    BY <2>1, <2>2 DEF Window, EditsStay, Overtaken
  <2>3. CASE local[p] = sync.mine
    <3>1. Late(p) /\ Kept(p)
      BY <2>1 DEF Late, SyncIn, KInv
    <3>2. Keeps(OfEdits, p, sync.mine, sync.bytes)
      BY <3>1, LateFacts, ViewFacts DEF AllKeep
    <3>3. local'[p] = sync.bytes /\ UNCHANGED windows
      BY <2>1, <2>3 DEF TInv, StateType
    <3>4. sync.mine \cap Edits \subseteq sync.bytes \cup gone \/ W(p, {"applied", "ignored", "crashed"})
      BY <3>2, ViewFacts DEF Keeps
    <3>. QED
      BY <2>1, <2>3, <3>3, <3>4 DEF W, EditsStay, Overtaken
  <2>. QED
    BY <2>2, <2>3
<1>4. ASSUME poll.pc = "apply", NEW e \in poll.batch, PollWrite(e) PROVE EditsStay(p)
  <2>. SUFFICES ASSUME e.page = p PROVE EditsStay(p)
    BY <1>1, <1>4 DEF PollWrite, TInv, StateType
  <2>1. mode = "up" /\ PollOvertaken(e) /\ UNCHANGED <<gone, remote>>
    BY <1>4 DEF PollWrite, Polling
  <2>2. /\ windows \subseteq windows'
        /\ W(p, Over)' \/ p \notin Protected
    BY <1>4, <2>1, NotOvertaken DEF KInv
  <2>3. CASE W(p, Over)'
    BY <2>3 DEF W, EditsStay, Overtaken
  <2>4. CASE p \notin Protected
    <3>1. Settled(p)
      BY <2>4 DEF Settled, Protected, TInv, SyncType, SyncControl
    <3>. QED
      BY <2>1, <2>2, <3>1, UploadedLeaves DEF KInv, Kept, PageKept
  <2>. QED
    BY <2>2, <2>3, <2>4
<1>5. ASSUME NEW q \in Pages, InitWrite(q) PROVE EditsStay(p)
  <2>1. Settled(p) /\ UNCHANGED <<gone, windows>>
    BY <1>5, StartFrame DEF Initialize
  <2>. QED
    BY <2>1, UploadedLeaves DEF KInv, Kept, PageKept
<1>6. CASE UNCHANGED vars
  BY <1>1, <1>6 DEF vars
<1>7. CASE Next
  BY <1>1, <1>2, <1>3, <1>4, <1>5, <1>7, FileStep
<1>. QED
  BY <1>6, <1>7

LEMMA PageStep ==
  ASSUME TInv, Next
  PROVE  \/ UNCHANGED remote
         \/ \E p \in Pages : ForeignEdit(p) \/ ForeignRemove(p)
         \/ SyncCreate
         \/ SyncPost
<1>1. ASSUME NEW p \in Pages, Edit(p) \/ Remove(p) PROVE UNCHANGED remote
  BY <1>1 DEF Edit, Remove
<1>2. ASSUME Sync PROVE UNCHANGED remote \/ SyncCreate \/ SyncPost
  <2>1. ASSUME NEW p \in Pages, SyncRead(p) PROVE UNCHANGED remote
    BY <2>1 DEF SyncRead
  <2>2. ASSUME SyncBegin \/ SyncSnapshot \/ SyncGet \/ SyncMeta PROVE UNCHANGED remote
    BY <2>2 DEF SyncBegin, SyncSnapshot, SyncGet, SyncMeta
  <2>3. ASSUME SyncDecide PROVE UNCHANGED remote
    BY <2>3, Zenon DEF SyncDecide
  <2>4. ASSUME SyncBase \/ SyncWrite \/ SyncFails \/ SyncEnd PROVE UNCHANGED remote
    BY <2>4 DEF SyncBase, SyncWrite, SyncFails, SyncEnd
  <2>. QED
    BY <1>2, <2>1, <2>2, <2>3, <2>4 DEF Sync
<1>3. ASSUME Refresh PROVE UNCHANGED remote
  BY <1>3 DEF Refresh, PollBegin, PollRead, PollCheck, PollWrite, PollMeta, PollBase
<1>4. ASSUME Initialize PROVE UNCHANGED remote
  BY <1>4, StartFrame
<1>5. ASSUME Crash PROVE UNCHANGED remote
  BY <1>5 DEF Crash
<1>. QED
  BY <1>1, <1>2, <1>3, <1>4, <1>5 DEF Next

LEMMA PostStays ==
  ASSUME TInv, KInv, SyncPost, NEW p \in Pages, p = sync.page, NEW body \in SUBSET Changes,
         PostStored(body), body = sync.bytes \/ PostOvertaken
  PROVE  RemoteStays(p)
<1>1. SyncIn(p, {"post"}) /\ SyncIn(p, {"decide", "post"}) /\ SyncKept(p)
  BY DEF SyncPost, At, SyncIn, KInv, Kept
<1>2. Grown /\ (~PostOvertaken \/ W(p, {"posted"})')
  BY PostEffect
<1>3. remote'[p].body = body /\ remote[p].body \subseteq Changes
  BY SyncPostFields DEF TInv, StateType, PageType
<1>4. CASE PostOvertaken
  BY <1>2, <1>4 DEF W, RemoteStays, Overtaken
<1>5. CASE ~PostOvertaken
  <2>1. remote[p].body = sync.seen.body /\ body = sync.bytes
    BY <1>1, <1>5 DEF PostOvertaken, Page, SyncKept, SyncSeen, Is
  <2>2. CASE sync.act = "conflict"
    <3>1. sync.seen.body \ body \subseteq gone'
      BY <2>2 DEF PostStored
    <3>. QED
      BY <1>3, <2>1, <3>1 DEF RemoteStays
  <2>3. CASE sync.act # "conflict"
    <3>1. Keeps(OfAll, p, sync.seen.body, sync.bytes)
      BY <1>1, <2>3 DEF SyncKept, SyncPosts
    <3>2. \/ sync.seen.body \cap Changes \subseteq sync.bytes \cup gone
          \/ W(p, {"posted", "applied", "ignored", "crashed"})
      BY <3>1, ViewFacts DEF Keeps
    <3>. QED
      BY <1>2, <1>3, <2>1, <3>2 DEF Grown, W, RemoteStays, Overtaken
  <2>. QED
    BY <2>2, <2>3
<1>. QED
  BY <1>4, <1>5

LEMMA RemoteStep == ASSUME TInv, KInv, [Next]_vars, NEW p \in Pages PROVE RemoteStays(p)
<1>1. ASSUME remote'[p].body = remote[p].body PROVE RemoteStays(p)
  BY <1>1 DEF RemoteStays
<1>2. ASSUME NEW q \in Pages, ForeignEdit(q) PROVE RemoteStays(p)
  <2>1. remote[p].body \subseteq remote'[p].body
    BY <1>2 DEF ForeignEdit, TInv, StateType
  <2>. QED
    BY <2>1 DEF RemoteStays
<1>3. ASSUME NEW q \in Pages, ForeignRemove(q) PROVE RemoteStays(p)
  <2>1. q # p => remote'[p] = remote[p]
    BY <1>3 DEF ForeignRemove, TInv, StateType
  <2>2. q = p => remote[p].body \subseteq gone'
    BY <1>3 DEF ForeignRemove
  <2>. QED
    BY <1>1, <2>1, <2>2 DEF RemoteStays
<1>4. ASSUME SyncCreate PROVE RemoteStays(p)
  <2>1. remote'[p] = remote[p] \/ remote[p] = Absent
    BY <1>4 DEF SyncCreate, TInv, StateType
  <2>. QED
    BY <1>1, <2>1 DEF RemoteStays, Absent
<1>5. ASSUME SyncPost PROVE RemoteStays(p)
  <2>1. sync.page \in Pages /\ sync \in SyncRecord /\ remote[sync.page] \in PageType
    BY <1>5 DEF SyncPost, At, TInv, SyncType, SyncControl, AtNoPage, StateType
  <2>2. sync.bytes \in SUBSET Changes /\ (sync.bytes \cup remote[sync.page].body) \in SUBSET Changes
    BY <2>1 DEF SyncRecord, PageType
  <2>3. ASSUME NEW body \in SUBSET Changes, PostStored(body), body = sync.bytes \/ PostOvertaken
        PROVE  RemoteStays(p)
    <3>1. CASE p = sync.page
      BY <1>5, <2>3, <3>1, PostStays
    <3>2. CASE p # sync.page
      <4>1. remote'[p] = remote[p]
        BY <1>5, <2>3, <3>2, SyncPostFields
      <4>. QED
        BY <1>1, <4>1
    <3>. QED
      BY <3>1, <3>2
  <2>. QED
    BY <1>1, <1>5, <2>2, <2>3 DEF SyncPost, Page
<1>6. CASE UNCHANGED vars
  BY <1>1, <1>6 DEF vars
<1>7. CASE Next
  BY <1>1, <1>2, <1>3, <1>4, <1>5, <1>7, PageStep
<1>. QED
  BY <1>6, <1>7

(***************************************************************************)
(* The protection, where it is asked for by the path the engine knows.     *)
(***************************************************************************)
Asked ==
  PathsAgree =>
    /\ poll.pc \in {"apply", "meta", "base"} => \A e \in poll.batch : e.page \in poll.free
    /\ \A p \in Pages : <<p, "ignored">> \notin windows

AskedStays ==
  /\ poll' = poll \/ poll'.pc \notin {"apply", "meta", "base"}
  /\ \A p \in Pages : <<p, "ignored">> \in windows' => <<p, "ignored">> \in windows

LEMMA SyncAsks == ASSUME Sync PROVE AskedStays
<1>1. ASSUME NEW p \in Pages, SyncRead(p) PROVE UNCHANGED <<poll, windows>>
  BY <1>1, Zenon DEF SyncRead
<1>2. ASSUME SyncBegin \/ SyncSnapshot \/ SyncCreate \/ SyncFails PROVE UNCHANGED <<poll, windows>>
  BY <1>2, Zenon DEF SyncBegin, SyncSnapshot, SyncCreate, SyncFails
<1>3. ASSUME SyncDecide \/ SyncMeta \/ SyncBase \/ SyncEnd PROVE UNCHANGED <<poll, windows>>
  BY <1>3, Zenon DEF SyncDecide, SyncMeta, SyncBase, SyncEnd
<1>4. ASSUME SyncGet PROVE UNCHANGED poll /\ (Window(Page, "skipped") \/ UNCHANGED windows)
  BY <1>4, Zenon DEF SyncGet, Skip
<1>5. ASSUME SyncPost
      PROVE  /\ UNCHANGED poll
             /\ Window(Page, "skipped") \/ Window(Page, "posted") \/ UNCHANGED windows
  BY <1>5, Zenon DEF SyncPost, Skip, PostStored
<1>6. ASSUME SyncWrite PROVE UNCHANGED poll /\ (Window(Page, "written") \/ UNCHANGED windows)
  BY <1>6, Zenon DEF SyncWrite
<1>7. ASSUME NEW k \in {"skipped", "posted", "written"}, Window(Page, k), UNCHANGED poll PROVE AskedStays
  BY <1>7 DEF Window, AskedStays
<1>8. ASSUME UNCHANGED <<poll, windows>> PROVE AskedStays
  BY <1>8 DEF AskedStays
<1>. QED
  BY <1>1, <1>2, <1>3, <1>4, <1>5, <1>6, <1>7, <1>8, Zenon DEF Sync

LEMMA RefreshAsks == ASSUME TInv, Asked, Refresh PROVE Asked'
<1>. SUFFICES ASSUME PathsAgree PROVE Asked'
  BY DEF Asked
<1>1. ASSUME PollBegin PROVE Asked'
  BY <1>1 DEF PollBegin, Asked
<1>2. ASSUME NEW p \in Pages, PollRead(p) PROVE Asked'
  <2>1. poll'.pc \notin {"apply", "meta", "base"} /\ UNCHANGED windows
    BY <1>2 DEF PollRead, PollReadTo, NoPoll
  <2>. QED
    BY <2>1 DEF Asked
<1>3. ASSUME PollCheck PROVE Asked'
  <2>1. UNCHANGED windows /\ poll.pc = "read"
    BY <1>3 DEF PollCheck, Polling
  <2>2. CASE poll' = NoPoll
    BY <2>1, <2>2 DEF Asked, NoPoll
  <2>3. CASE /\ \A e \in poll.batch : ~IsProtected(e.page)
             /\ poll' = [pc |-> "apply", batch |-> poll.batch, free |-> Pages \ Protected]
    <3>1. \A e \in poll.batch : e.page \in Pages \ Protected
      BY <2>1, <2>3 DEF IsProtected, TInv, PollType, Items, Item
    <3>. QED
      BY <2>1, <2>3, <3>1 DEF Asked
  <2>. QED
    BY <1>3, <2>2, <2>3 DEF PollCheck
<1>4. ASSUME NEW e, e.page \in poll.free, PollOvertaken(e)
      PROVE  \A p \in Pages : <<p, "ignored">> \in windows' => <<p, "ignored">> \in windows
  BY <1>4 DEF PollOvertaken, Window
<1>5. ASSUME poll.pc = "apply", NEW e \in poll.batch, PollWrite(e) PROVE Asked'
  <2>1. /\ poll' = [pc |-> "meta", batch |-> poll.batch, free |-> poll.free, now |-> e]
        /\ PollOvertaken(e)
    BY <1>5 DEF PollWrite
  <2>2. \A p \in Pages : <<p, "ignored">> \in windows' => <<p, "ignored">> \in windows
    BY <1>4, <1>5, <2>1 DEF Asked
  <2>3. poll'.batch = poll.batch /\ poll'.free = poll.free
    BY <2>1
  <2>. QED
    BY <1>5, <2>2, <2>3 DEF Asked
<1>6. ASSUME PollMeta PROVE Asked'
  <2>1. poll.pc = "meta" /\ poll' = [poll EXCEPT !.pc = "base"] /\ UNCHANGED windows
    BY <1>6 DEF PollMeta, Polling
  <2>2. poll'.batch = poll.batch /\ poll'.free = poll.free
    BY <2>1 DEF TInv, PollType
  <2>. QED
    BY <2>1, <2>2 DEF Asked
<1>7. ASSUME PollBase PROVE Asked'
  <2>. SUFFICES ASSUME NEW e, e = poll.now PROVE Asked'
    OBVIOUS
  <2>1. /\ poll.pc = "base" /\ PollOvertaken(e)
        /\ \/ poll' = NoPoll
           \/ poll' = [pc |-> "apply", batch |-> poll.batch \ {e}, free |-> poll.free]
    BY <1>7 DEF PollBase, Polling
  <2>2. e \in poll.batch
    BY <2>1 DEF TInv, PollType
  <2>3. \A p \in Pages : <<p, "ignored">> \in windows' => <<p, "ignored">> \in windows
    BY <1>4, <2>1, <2>2 DEF Asked
  <2>4. poll'.pc = "idle" \/ (poll'.batch \subseteq poll.batch /\ poll'.free = poll.free)
    BY <2>1 DEF NoPoll
  <2>. QED
    BY <2>1, <2>3, <2>4 DEF Asked
<1>. QED
  BY <1>1, <1>2, <1>3, <1>5, <1>6, <1>7 DEF Refresh

LEMMA AskedStep == ASSUME TInv, TInv', Asked, [Next]_vars PROVE Asked'
<1>1. ASSUME AskedStays PROVE Asked'
  BY <1>1 DEF AskedStays, Asked
<1>2. ASSUME NEW p \in Pages, Edit(p) \/ Remove(p) \/ ForeignEdit(p) \/ ForeignRemove(p)
      PROVE  AskedStays
  BY <1>2, Zenon DEF Edit, Remove, ForeignEdit, ForeignRemove, AskedStays
<1>3. ASSUME Crash PROVE AskedStays
  BY <1>3 DEF Crash, AskedStays, NoPoll
<1>4. ASSUME Initialize PROVE AskedStays
  <2>1. UNCHANGED windows
    BY <1>4, StartFrame
  <2>2. poll'.pc \notin {"apply", "meta", "base"}
    <3>1. mode' # "up" \/ UNCHANGED poll \/ poll' = NoPoll
      BY <1>4 DEF Initialize, InitBegin, InitWrite, InitMeta, InitBase, InitEnd, Starting
    <3>2. poll.pc \in InitSteps
      BY <1>4, StartFrame
    <3>. QED
      BY <3>1, <3>2 DEF TInv, PollType, StateType, NoPoll, InitSteps
  <2>. QED
    BY <2>1, <2>2 DEF AskedStays
<1>5. CASE UNCHANGED vars
  BY <1>1, <1>5 DEF vars, AskedStays
<1>6. CASE Next
  BY <1>1, <1>2, <1>3, <1>4, <1>6, SyncAsks, RefreshAsks DEF Next
<1>. QED
  BY <1>5, <1>6

LEMMA Always == Spec => [](TInv /\ KInv /\ Asked)
<1>1. Init => TInv /\ KInv /\ Asked
  <2>1. Init => Asked
    BY DEF Init, NoPoll, Asked
  <2>. QED
    BY <2>1, TypeInit, KeptInit
<1>2. TInv /\ KInv /\ Asked /\ [Next]_vars => (TInv /\ KInv /\ Asked)'
  BY TypeStep, KeptStep, AskedStep
<1>. QED
  BY <1>1, <1>2, PTL DEF Spec

(* Whatever paths the backend asks with, a change leaves a file without    *)
(* being on the page, or a page without having been removed, only where a  *)
(* call was overtaken: by an edit of the file or of the page, by a refresh *)
(* of a protected page, by the loss of a page or by a crash (session.rs;   *)
(* text_merge.rs).                                                         *)
THEOREM WikiLossesAreNamed == Spec => [][\A p \in Pages : EditsStay(p) /\ RemoteStays(p)]_vars
<1>1. ASSUME TInv, KInv, Next PROVE \A p \in Pages : EditsStay(p) /\ RemoteStays(p)
  BY <1>1, EditsStep, RemoteStep
<1>. QED
  BY <1>1, Always, PTL DEF Spec

(* Where the engine and the backend name a file by the same path, a change *)
(* made in the mount leaves its file only once the page has it or somebody *)
(* removed it (session.rs: sync_dirty_file, apply_remote,                  *)
(* materialize_node; text_merge.rs), but in the four windows.              *)
THEOREM WikiEditsKept == PathsAgree /\ Spec => EditsKept
<1>1. ASSUME PathsAgree, TInv, KInv, Asked', [Next]_vars
      PROVE  \A p \in Pages :
               (local[p] \ local'[p]) \cap Edits \subseteq gone' \cup remote[p].body
               \/ Overtaken(p, {"written", "applied", "skipped", "crashed"})
  <2>1. ASSUME NEW p \in Pages, Overtaken(p, {"written", "applied", "ignored", "skipped", "crashed"})
        PROVE  Overtaken(p, {"written", "applied", "skipped", "crashed"})
    BY <1>1, <2>1 DEF Asked, Overtaken
  <2>. QED
    BY <1>1, <2>1, EditsStep, Zenon DEF EditsStay
<1>2. ASSUME PathsAgree PROVE Spec => EditsKept
  BY <1>1, <1>2, Always, PTL DEF Spec, EditsKept
<1>. QED
  BY <1>2

(* Under the same hypothesis, an upload removes from the wiki only what    *)
(* somebody had removed or what a reported conflict names (session.rs:     *)
(* update_remote_page; text_merge.rs), but where the page was              *)
(* edited within the call, a refresh was applied over a sync or a crash    *)
(* left half of a state.                                                   *)
THEOREM WikiRemoteKept == PathsAgree /\ Spec => RemoteKept
<1>1. ASSUME PathsAgree, TInv, KInv, Asked', [Next]_vars
      PROVE  \A p \in Pages :
               remote[p].body \ remote'[p].body \subseteq gone'
               \/ Overtaken(p, {"posted", "applied", "crashed"})
  <2>1. ASSUME NEW p \in Pages, Overtaken(p, {"posted", "applied", "ignored", "crashed"})
        PROVE  Overtaken(p, {"posted", "applied", "crashed"})
    BY <1>1, <2>1 DEF Asked, Overtaken
  <2>. QED
    BY <1>1, <2>1, RemoteStep, Zenon DEF RemoteStays
<1>2. ASSUME PathsAgree PROVE Spec => RemoteKept
  BY <1>1, <1>2, Always, PTL DEF Spec, RemoteKept
<1>. QED
  BY <1>2

(* Under the same hypothesis, a page that is neither dirty nor in conflict *)
(* has been uploaded, also after a sync that failed half way (session.rs:  *)
(* sync_dirty).                                                            *)
THEOREM WikiCleanIsUploaded == PathsAgree /\ Spec => []CleanIsUploaded
<1>1. ASSUME PathsAgree, TInv, KInv, Asked PROVE CleanIsUploaded
  <2>1. ASSUME NEW p \in Pages \ Protected
        PROVE  \/ local[p] \cap Edits \subseteq remote[p].body \cup gone
               \/ \E k \in {"skipped", "applied", "crashed"} : <<p, k>> \in windows
    <3>1. Settled(p)
      BY <1>1 DEF Settled, Protected, TInv, SyncType, SyncControl
    <3>. QED
      BY <1>1, <3>1 DEF KInv, Kept, PageKept, Uploaded, W, MayLack, Asked
  <2>. QED
    BY <2>1, Zenon DEF CleanIsUploaded
<1>2. ASSUME PathsAgree PROVE Spec => []CleanIsUploaded
  BY <1>1, <1>2, Always, PTL
<1>. QED
  BY <1>2

(* Under the same hypothesis, a revision the index knows is the text of    *)
(* the file, so a refresh may skip the page (session.rs: refresh_remote;   *)
(* page_index.rs).                                                         *)
THEOREM WikiKnownIsLocal == PathsAgree /\ Spec => []KnownIsLocal
<1>1. ASSUME PathsAgree, TInv, KInv, Asked PROVE KnownIsLocal
  <2>1. ASSUME NEW p \in Pages \ Protected, known[p] # NoSnapshot,
               known[p] = Snapshot(remote[p]), local[p] # NoFile
        PROVE  \/ local[p] = remote[p].body
               \/ \E k \in {"posted", "applied", "skipped"} : <<p, k>> \in windows
    <3>1. Settled(p)
      BY <1>1, <2>1 DEF Settled, Protected, TInv, SyncType, SyncControl
    <3>2. Is(p, known[p])
      BY <2>1 DEF Is, Snapshot
    <3>. QED
      BY <1>1, <2>1, <3>1, <3>2 DEF KInv, Kept, PageKept, KnownFile, SameText, W, MayDiffer, Asked
  <2>. QED
    BY <2>1, Zenon DEF KnownIsLocal
<1>2. ASSUME PathsAgree PROVE Spec => []KnownIsLocal
  BY <1>1, <1>2, Always, PTL
<1>. QED
  BY <1>2
===============================================================================
