------------------------------ MODULE WikiSession ------------------------------
(***************************************************************************)
(* The wiki backend (omnifuse-wiki/src/session.rs, page_index.rs, meta.rs) *)
(* with the merge policy of omnifuse-core/src/text_merge.rs: the sync of   *)
(* dirty pages, the refresh and the initialization, against a server other *)
(* people edit and which has no conditional update.                        *)
(*                                                                         *)
(* The text of a page is the set of changes it contains.  A revision       *)
(* stands for modified_at: the server gives every update a new one.  Each  *)
(* request to the server and each access to a file is an action.           *)
(***************************************************************************)
EXTENDS Naturals, FiniteSets

CONSTANTS
  Pages,
  Present,      \* the pages that exist at first
  PathsAgree,   \* are pages and dirty files named by the same paths
  MaxEdits,     \* bound on the changes made in the mount
  MaxForeign,   \* bound on the changes others make
  MaxRemovals,  \* bound on the files and pages that are removed
  MaxFailures,  \* bound on the syncs that fail
  MaxCrashes    \* bound on the crashes

ASSUME WikiSessionAssumption ==
  /\ Present \subseteq Pages
  /\ PathsAgree \in BOOLEAN
  /\ {MaxEdits, MaxForeign, MaxRemovals, MaxFailures, MaxCrashes} \subseteq Nat

VARIABLES
  remote,     \* the server: id, revision and text of each page
  local,      \* the local directory
  known,      \* page_index: snapshots (id and revision), in memory
  stored,     \* MetaStore: the snapshot and the base of each page, on disk
  mode,       \* is the mount down, starting or up
  dirty,      \* pages the engine will hand to the next sync
  conflicted, \* pages the last syncs reported as a conflict
  sync,       \* sync_dirty
  poll,       \* refresh_remote, or initialize
  count,      \* revisions, changes, removals, failures and crashes so far
  gone,       \* history: changes removed by somebody, or by a conflict that
              \* was reported
  windows     \* history: the pages a call was overtaken on, and where

vars == <<remote, local, known, stored, mode, dirty, conflicted, sync, poll,
          count, gone, windows>>

Absent == [id |-> 0, rev |-> 0, body |-> {}]
NoFile == {0}
NoSnapshot == [id |-> 0, rev |-> 0]
Snapshot(page) == [id |-> page.id, rev |-> page.rev]
Edits == 1..MaxEdits
Changes == 1..(MaxEdits + MaxForeign)
Text(file) == file \ NoFile

\* sync_dirty where it is at no page.  The fields from `page` on are the
\* variables of sync_dirty_file.
Between(pc, batch, todo, conflicts) ==
  [ pc |-> pc, batch |-> batch, todo |-> todo, conflicts |-> conflicts,
    page |-> "none", mine |-> {}, snapshot |-> NoSnapshot, seen |-> Absent,
    act |-> "none", bytes |-> {}, allow |-> FALSE, saved |-> NoSnapshot ]
NoSync == Between("idle", {}, {}, {})
NoPoll == [pc |-> "idle"]

Init ==
  /\ remote = [p \in Pages |-> IF p \in Present THEN [id |-> 1, rev |-> 1, body |-> {}]
                               ELSE Absent]
  /\ local = [p \in Pages |-> NoFile]
  /\ known = [p \in Pages |-> NoSnapshot]
  /\ stored = [p \in Pages |-> [snapshot |-> NoSnapshot, base |-> {}]]
  /\ mode = "down"
  /\ dirty = {}
  /\ conflicted = {}
  /\ sync = NoSync
  /\ poll = NoPoll
  /\ count = [edits |-> 0, foreign |-> 0, rev |-> 1, removals |-> 0, failures |-> 0, crashes |-> 0]
  /\ gone = {}
  /\ windows = {}

Count(what) == count' = [count EXCEPT ![what] = @ + 1]

-------------------------------------------------------------------------------
(* Whoever uses the mount, and the other editors of the wiki.              *)

Edit(p) ==
  /\ mode = "up" /\ count.edits < MaxEdits
  /\ Count("edits")
  /\ local' = [local EXCEPT ![p] = Text(@) \cup {count'.edits}]
  /\ dirty' = dirty \cup {p}
  /\ UNCHANGED <<remote, known, stored, mode, conflicted, sync, poll, gone, windows>>

Remove(p) ==
  /\ mode = "up" /\ count.removals < MaxRemovals
  /\ local[p] # NoFile
  /\ Count("removals")
  /\ local' = [local EXCEPT ![p] = NoFile]
  /\ gone' = gone \cup local[p]
  /\ dirty' = dirty \cup {p}
  /\ UNCHANGED <<remote, known, stored, mode, conflicted, sync, poll, windows>>

NewRevision == count.rev + 1

ForeignEdit(p) ==
  /\ count.foreign < MaxForeign
  /\ count' = [count EXCEPT !.foreign = @ + 1, !.rev = NewRevision]
  /\ remote' = [remote EXCEPT ![p] =
       [ id |-> IF @ = Absent THEN NewRevision ELSE @.id,
         rev |-> NewRevision,
         body |-> @.body \cup {MaxEdits + count'.foreign} ]]
  /\ UNCHANGED <<local, known, stored, mode, dirty, conflicted, sync, poll, gone,
                 windows>>

ForeignRemove(p) ==
  /\ remote[p] # Absent /\ count.removals < MaxRemovals
  /\ count' = [count EXCEPT !.removals = @ + 1, !.rev = NewRevision]
  /\ \/ remote' = [remote EXCEPT ![p].body = {}, ![p].rev = NewRevision]
     \/ remote' = [remote EXCEPT ![p] = Absent]
  /\ gone' = gone \cup remote[p].body
  /\ UNCHANGED <<local, known, stored, mode, dirty, conflicted, sync, poll, windows>>

-------------------------------------------------------------------------------
(* What the calls share.                                                   *)

\* snapshot_for: the index, or what an earlier run left on disk.
SnapshotFor(p) == IF known[p] # NoSnapshot THEN known[p] ELSE stored[p].snapshot

\* read_page_cached: the page as it is now, or, where the cache has it, the
\* text of the revision the tree has listed.
ReadPageCached(p, listed, body) ==
  \/ body = listed.body
  \/ remote[p] # Absent /\ body = remote[p].body

\* decide_text_merge.  Whether changes on both sides touch the same lines is
\* a matter of choice.
Decide(base, mine, theirs) ==
  IF base = theirs THEN {[act |-> IF mine = theirs THEN "synced" ELSE "upload", bytes |-> mine]}
  ELSE IF base = mine THEN {[act |-> "accept", bytes |-> theirs]}
  ELSE IF mine = theirs THEN {[act |-> "synced", bytes |-> mine]}
  ELSE {[act |-> "conflict", bytes |-> mine],
        [act |-> "merge",
         bytes |-> (mine \cap theirs) \cup (mine \ base) \cup (theirs \ base)]}

\* Where the code can lose a change, recorded so that the properties can say
\* that it can lose none elsewhere:
\*   posted    the page changed between get_page_by_slug and update_page
\*   written   the file changed between the sync's read and its write
\*   applied   the page was edited or synced while a refresh was applied
\*   ignored   a refresh was applied to a page that was protected
\*   skipped   the server did not find the page, and the sync succeeded
\*   crashed   the process died with the page unsynced or half saved
Window(p, kind) == windows' = windows \cup {<<p, kind>>}

-------------------------------------------------------------------------------
(* sync_dirty: one page of the batch after the other.                      *)

At(pc) == mode = "up" /\ sync.pc = pc
Page == sync.page

SyncBegin ==
  /\ At("idle") /\ dirty # {}
  /\ sync' = Between("next", dirty, dirty, {})
  /\ dirty' = {}
  /\ conflicted' = conflicted \ dirty
  /\ UNCHANGED <<remote, local, known, stored, mode, poll, count, gone, windows>>

PageEnds(conflict) ==
  sync' = Between("next", sync.batch, sync.todo \ {Page},
                  sync.conflicts \cup (IF conflict THEN {Page} ELSE {}))

\* Mutant: a failed sync forgets the files of its batch.
FailDropsBatch ==
  /\ count.failures < MaxFailures
  /\ Count("failures")
  /\ sync' = NoSync
  /\ UNCHANGED dirty

\* Offline, or an error that stands for no page: the engine keeps the batch.
Fail ==
  /\ count.failures < MaxFailures
  /\ Count("failures")
  /\ sync' = NoSync
  /\ dirty' = dirty \cup sync.batch

SyncFails ==
  /\ mode = "up" /\ sync.pc \in {"create", "get", "post"}
  /\ Fail
  /\ UNCHANGED <<remote, local, known, stored, mode, conflicted, poll, gone, windows>>

\* Mutant: a file that is gone is uploaded as it is.
SyncReadMissingAsEmpty(p) ==
  /\ At("next") /\ p \in sync.todo
  /\ sync' = [sync EXCEPT !.pc = "snapshot", !.page = p, !.mine = local[p]]
  /\ UNCHANGED <<remote, local, known, stored, mode, dirty, conflicted, poll, count, gone,
                 windows>>

\* The file is read before anything else: that it is gone is an error.
SyncRead(p) ==
  /\ At("next") /\ p \in sync.todo
  /\ \/ /\ local[p] # NoFile
        /\ sync' = [sync EXCEPT !.pc = "snapshot", !.page = p, !.mine = local[p]]
        /\ UNCHANGED <<dirty, count>>
     \/ local[p] = NoFile /\ Fail
  /\ UNCHANGED <<remote, local, known, stored, mode, conflicted, poll, gone, windows>>

SyncSnapshot ==
  /\ At("snapshot")
  /\ LET s == SnapshotFor(Page)
     IN  sync' = [sync EXCEPT !.pc = IF s = NoSnapshot THEN "create" ELSE "get",
                              !.snapshot = s]
  /\ UNCHANGED <<remote, local, known, stored, mode, dirty, conflicted, poll, count,
                 gone, windows>>

\* An occupied slug is an error for the whole batch.
SyncCreate ==
  /\ At("create")
  /\ \/ /\ remote[Page] = Absent
        /\ remote' = [remote EXCEPT ![Page] =
             [id |-> NewRevision, rev |-> NewRevision, body |-> sync.mine]]
        /\ Count("rev")
        /\ sync' = [sync EXCEPT !.pc = "meta", !.act = "upload", !.bytes = sync.mine,
                                !.saved = [id |-> NewRevision, rev |-> NewRevision]]
        /\ UNCHANGED dirty
     \/ remote[Page] # Absent /\ Fail /\ UNCHANGED remote
  /\ UNCHANGED <<local, known, stored, mode, conflicted, poll, gone, windows>>

\* Of a page that is not found the file is skipped, and the sync succeeds.
Skip == PageEnds(FALSE) /\ Window(Page, "skipped")

SyncGet ==
  /\ At("get")
  /\ \/ remote[Page] = Absent /\ Skip
     \/ /\ remote[Page] # Absent
        /\ sync' = [sync EXCEPT !.pc = "decide", !.seen = remote[Page]]
        /\ UNCHANGED windows
  /\ UNCHANGED <<remote, local, known, stored, mode, dirty, conflicted, poll, count,
                 gone>>

\* Mutant: the revision of the page is not compared.
SyncDecideBlindly ==
  /\ At("decide")
  /\ sync' = [sync EXCEPT !.pc = "post", !.act = "upload", !.bytes = sync.mine]
  /\ UNCHANGED <<remote, local, known, stored, mode, dirty, conflicted, poll, count,
                 gone, windows>>

\* The page is as last seen: upload.  Otherwise the merge decides.
SyncDecide ==
  /\ At("decide")
  /\ IF sync.seen.rev = sync.snapshot.rev
     THEN sync' = [sync EXCEPT !.pc = "post", !.act = "upload", !.bytes = sync.mine]
     ELSE \E d \in Decide(stored[Page].base, sync.mine, sync.seen.body) :
            sync' = [sync EXCEPT !.act = d.act, !.bytes = d.bytes, !.allow = TRUE,
                                 !.saved = Snapshot(sync.seen),
                                 !.pc = CASE d.act = "accept" -> "write"
                                          [] d.act = "synced" -> "meta"
                                          [] OTHER            -> "post"]
  /\ UNCHANGED <<remote, local, known, stored, mode, dirty, conflicted, poll, count,
                 gone, windows>>

\* update_page, by the id of the snapshot.  A page that changed since it was
\* read is overwritten; a server may also refuse, or merge where allowed.
PostOvertaken == remote[Page].rev # sync.seen.rev

PostStored(body) ==
  /\ remote' = [remote EXCEPT ![Page].rev = NewRevision, ![Page].body = body]
  /\ gone' = gone \cup (IF sync.act = "conflict" THEN sync.seen.body \ body ELSE {})
  /\ Count("rev")
  /\ sync' = [sync EXCEPT !.pc = "meta",
                          !.saved = [id |-> remote[Page].id, rev |-> NewRevision]]
  /\ IF PostOvertaken THEN Window(Page, "posted") ELSE UNCHANGED windows

SyncPost ==
  /\ At("post")
  /\ \/ /\ remote[Page].id # sync.snapshot.id
        /\ Skip
        /\ UNCHANGED <<remote, gone, count>>
     \/ /\ remote[Page].id = sync.snapshot.id
        /\ \/ PostStored(sync.bytes)
           \/ sync.allow /\ PostOvertaken /\ PostStored(sync.bytes \cup remote[Page].body)
           \/ PostOvertaken /\ PageEnds(TRUE) /\ UNCHANGED <<remote, gone, count, windows>>
  /\ UNCHANGED <<local, known, stored, mode, dirty, conflicted, poll>>

\* save_page_state: the metadata, then the base and the index.
SyncMeta ==
  /\ At("meta")
  /\ stored' = [stored EXCEPT ![Page].snapshot = sync.saved]
  /\ sync' = [sync EXCEPT !.pc = "base"]
  /\ UNCHANGED <<remote, local, known, mode, dirty, conflicted, poll, count, gone,
                 windows>>

\* Mutant: the merged text is not written to the file.
SyncBaseForgetsFile ==
  /\ At("base")
  /\ stored' = [stored EXCEPT ![Page].base = sync.bytes]
  /\ known' = [known EXCEPT ![Page] = sync.saved]
  /\ PageEnds(sync.act = "conflict")
  /\ UNCHANGED <<remote, local, mode, dirty, conflicted, poll, count, gone, windows>>

SyncBase ==
  /\ At("base")
  /\ stored' = [stored EXCEPT ![Page].base = sync.bytes]
  /\ known' = [known EXCEPT ![Page] = sync.saved]
  /\ IF sync.act = "merge" THEN sync' = [sync EXCEPT !.pc = "write"]
     ELSE PageEnds(sync.act = "conflict")
  /\ UNCHANGED <<remote, local, mode, dirty, conflicted, poll, count, gone, windows>>

\* The merged text replaces the file after everything else, an accepted one
\* before; neither looks at the file again.
SyncWrite ==
  /\ At("write")
  /\ local' = [local EXCEPT ![Page] = sync.bytes]
  /\ IF local[Page] # sync.mine THEN Window(Page, "written") ELSE UNCHANGED windows
  /\ IF sync.act = "merge" THEN PageEnds(FALSE) ELSE sync' = [sync EXCEPT !.pc = "meta"]
  /\ UNCHANGED <<remote, known, stored, mode, dirty, conflicted, poll, count, gone>>

SyncEnd ==
  /\ At("next") /\ sync.todo = {}
  /\ sync' = NoSync
  /\ conflicted' = conflicted \cup sync.conflicts
  /\ UNCHANGED <<remote, local, known, stored, mode, dirty, poll, count, gone, windows>>

-------------------------------------------------------------------------------
(* refresh_remote: the tree, the pages that differ, the check, the files.  *)

Polling(pc) == mode = "up" /\ poll.pc = pc
Protected == dirty \cup sync.batch \cup conflicted

\* PathProtection::is_protected, asked with the absolute path of the page.  The
\* engine's index has the paths the mount knows, relative to its root.
IsProtected(p) == PathsAgree /\ p \in Protected
Tree == [p \in {q \in Pages : remote[q] # Absent} |-> remote[p]]

PollBegin ==
  /\ Polling("idle")
  /\ \E p \in DOMAIN Tree : Tree[p].rev # SnapshotFor(p).rev
  /\ poll' = [pc |-> "read", tree |-> Tree, todo |-> DOMAIN Tree, batch |-> {}]
  /\ UNCHANGED <<remote, local, known, stored, mode, dirty, conflicted, sync, count,
                 gone, windows>>

PollReadTo(todo, batch) ==
  poll' = [pc |-> "read", tree |-> poll.tree, todo |-> todo, batch |-> batch]

PollRead(p) ==
  LET page == poll.tree[p]
  IN  /\ Polling("read") /\ p \in poll.todo
      /\ \/ /\ SnapshotFor(p).rev = page.rev
            /\ PollReadTo(poll.todo \ {p}, poll.batch)
         \/ /\ SnapshotFor(p).rev # page.rev
            /\ \/ \E body \in SUBSET Changes :
                    /\ ReadPageCached(p, page, body)
                    /\ PollReadTo(poll.todo \ {p}, poll.batch \cup
                         {[page |-> p, snapshot |-> Snapshot(page), body |-> body]})
               \/ remote[p] = Absent /\ poll' = NoPoll
      /\ UNCHANGED <<remote, local, known, stored, mode, dirty, conflicted, sync, count, gone,
                     windows>>

\* Mutant: protected pages are refreshed like the others.
PollCheckUnprotected ==
  /\ Polling("read") /\ poll.todo = {}
  /\ poll' = IF poll.batch = {} THEN NoPoll
             ELSE [pc |-> "apply", batch |-> poll.batch, free |-> Pages \ Protected]
  /\ UNCHANGED <<remote, local, known, stored, mode, dirty, conflicted, sync, count,
                 gone, windows>>

\* One protected page defers the whole batch.  (`free` is history.)
PollCheck ==
  /\ Polling("read") /\ poll.todo = {}
  /\ poll' = IF poll.batch = {} \/ \E e \in poll.batch : IsProtected(e.page) THEN NoPoll
             ELSE [pc |-> "apply", batch |-> poll.batch, free |-> Pages \ Protected]
  /\ UNCHANGED <<remote, local, known, stored, mode, dirty, conflicted, sync, count,
                 gone, windows>>

\* The page was edited or synced after the check, or protected before it.
PollOvertaken(e) ==
  IF e.page \in Protected \/ SnapshotFor(e.page).rev > e.snapshot.rev
  THEN Window(e.page, IF e.page \in Protected \ poll.free THEN "ignored" ELSE "applied")
  ELSE UNCHANGED windows

\* apply_remote: the file, the metadata, the rest.  Nothing is looked at
\* again: a file that was edited since the check, or uploaded since the tree
\* was read, is overwritten.
PollWrite(e) ==
  /\ Polling("apply") /\ e \in poll.batch
  /\ local' = [local EXCEPT ![e.page] = e.body]
  /\ poll' = [pc |-> "meta", batch |-> poll.batch, free |-> poll.free, now |-> e]
  /\ PollOvertaken(e)
  /\ UNCHANGED <<remote, known, stored, mode, dirty, conflicted, sync, count, gone>>

PollMeta ==
  /\ Polling("meta")
  /\ stored' = [stored EXCEPT ![poll.now.page].snapshot = poll.now.snapshot]
  /\ poll' = [poll EXCEPT !.pc = "base"]
  /\ UNCHANGED <<remote, local, known, mode, dirty, conflicted, sync, count, gone,
                 windows>>

PollBase ==
  LET e == poll.now
  IN  /\ Polling("base")
      /\ stored' = [stored EXCEPT ![e.page].base = e.body]
      /\ known' = [known EXCEPT ![e.page] = e.snapshot]
      /\ poll' = IF poll.batch = {e} THEN NoPoll
                 ELSE [pc |-> "apply", batch |-> poll.batch \ {e}, free |-> poll.free]
      /\ PollOvertaken(e)
      /\ UNCHANGED <<remote, local, mode, dirty, conflicted, sync, count, gone>>

-------------------------------------------------------------------------------
(* The process dies, and initialize.                                       *)

Crash ==
  /\ mode # "down" /\ count.crashes < MaxCrashes
  /\ Count("crashes")
  /\ mode' = "down"
  /\ known' = [p \in Pages |-> NoSnapshot]
  /\ dirty' = {} /\ conflicted' = {}
  /\ sync' = NoSync /\ poll' = NoPoll
  /\ windows' = windows \cup
       {<<p, "crashed">> : p \in Protected} \cup
       (IF poll.pc \in {"meta", "base"} THEN {<<poll.now.page, "crashed">>} ELSE {})
  /\ UNCHANGED <<remote, local, stored, gone>>

\* Without the server the mount starts on the files it has, if any.
InitBegin ==
  /\ mode = "down"
  /\ \/ /\ mode' = "starting"
        /\ poll' = [pc |-> "init", tree |-> Tree, todo |-> DOMAIN Tree]
     \/ /\ \E p \in Pages : stored[p].snapshot # NoSnapshot
        /\ mode' = "up"
        /\ UNCHANGED poll
  /\ UNCHANGED <<remote, local, known, stored, dirty, conflicted, sync, count, gone,
                 windows>>

Starting(pc) == mode = "starting" /\ poll.pc = pc

\* materialize_node: what was edited and not uploaded is overwritten.
InitWrite(p) ==
  LET page == poll.tree[p]
  IN  /\ Starting("init") /\ p \in poll.todo
      /\ \/ \E body \in SUBSET Changes :
              /\ ReadPageCached(p, page, body)
              /\ local' = [local EXCEPT ![p] = body]
              /\ poll' = [pc |-> "initMeta", tree |-> poll.tree, todo |-> poll.todo \ {p},
                          now |-> [page |-> p, snapshot |-> Snapshot(page), body |-> body]]
              /\ UNCHANGED mode
         \/ /\ remote[p] = Absent
            /\ mode' = "down" /\ poll' = NoPoll
            /\ UNCHANGED local
      /\ UNCHANGED <<remote, known, stored, dirty, conflicted, sync, count, gone, windows>>

InitMeta ==
  /\ Starting("initMeta")
  /\ stored' = [stored EXCEPT ![poll.now.page].snapshot = poll.now.snapshot]
  /\ poll' = [poll EXCEPT !.pc = "initBase"]
  /\ UNCHANGED <<remote, local, known, mode, dirty, conflicted, sync, count, gone,
                 windows>>

InitBase ==
  /\ Starting("initBase")
  /\ stored' = [stored EXCEPT ![poll.now.page].base = poll.now.body]
  /\ poll' = [pc |-> "init", tree |-> poll.tree, todo |-> poll.todo]
  /\ UNCHANGED <<remote, local, known, mode, dirty, conflicted, sync, count, gone,
                 windows>>

InitEnd ==
  /\ Starting("init") /\ poll.todo = {}
  /\ known' = [p \in Pages |-> IF p \in DOMAIN poll.tree
                              THEN Snapshot(poll.tree[p]) ELSE NoSnapshot]
  /\ mode' = "up"
  /\ poll' = NoPoll
  /\ UNCHANGED <<remote, local, stored, dirty, conflicted, sync, count, gone, windows>>

-------------------------------------------------------------------------------
Sync ==
  \/ SyncBegin \/ (\E p \in Pages : SyncRead(p)) \/ SyncSnapshot \/ SyncCreate \/ SyncGet
  \/ SyncDecide \/ SyncPost \/ SyncMeta \/ SyncBase \/ SyncWrite \/ SyncFails \/ SyncEnd

Refresh ==
  \/ PollBegin \/ (\E p \in Pages : PollRead(p)) \/ PollCheck
  \/ (poll.pc = "apply" /\ \E e \in poll.batch : PollWrite(e)) \/ PollMeta \/ PollBase

Initialize ==
  InitBegin \/ (\E p \in Pages : InitWrite(p)) \/ InitMeta \/ InitBase \/ InitEnd

Next ==
  \/ \E p \in Pages : Edit(p) \/ Remove(p) \/ ForeignEdit(p) \/ ForeignRemove(p)
  \/ Sync
  \/ Refresh
  \/ Crash
  \/ Initialize

Spec == Init /\ [][Next]_vars

-------------------------------------------------------------------------------
(***************************************************************************)
(* Properties.                                                             *)
(***************************************************************************)
Overtaken(p, kinds) == \E k \in kinds : <<p, k>> \in windows'

\* What is kept of a page are changes; no snapshot is newer than the server.
TypeOK ==
  /\ \A p \in Pages :
       /\ remote[p].body \subseteq Changes
       /\ local[p] = NoFile \/ local[p] \subseteq Changes
       /\ stored[p].base \subseteq Changes
       /\ known[p].rev <= count.rev /\ stored[p].snapshot.rev <= count.rev
  /\ mode \in {"down", "starting", "up"}
  /\ dirty \cup conflicted \cup sync.batch \subseteq Pages
  /\ gone \subseteq Changes

(***************************************************************************)
(* A change made in the mount disappears from its file only once the page  *)
(* has it or somebody removed it: neither a merge nor a refresh, nor the   *)
(* initialization after a restart, replaces what is not uploaded.  The     *)
(* windows in which the code does replace it are the four that are named.  *)
(***************************************************************************)
EditsKept ==
  [][\A p \in Pages :
       (local[p] \ local'[p]) \cap Edits \subseteq gone' \cup remote[p].body
       \/ Overtaken(p, {"written", "applied", "skipped", "crashed"})]_vars

(***************************************************************************)
(* An upload removes a change from the wiki only if somebody had removed   *)
(* it or the sync reports a conflict, although no update is conditional:   *)
(* it takes an edit of the page within the call, a refresh applied over a  *)
(* sync, or a restart that finds half of a state saved.                    *)
(***************************************************************************)
RemoteKept ==
  [][\A p \in Pages :
       remote[p].body \ remote'[p].body \subseteq gone'
       \/ Overtaken(p, {"posted", "applied", "crashed"})]_vars

(***************************************************************************)
(* A page that is neither dirty nor in conflict has been uploaded, also    *)
(* after a sync that failed at another page or went offline half way.      *)
(***************************************************************************)
CleanIsUploaded ==
  mode = "up" /\ sync = NoSync =>
    \A p \in Pages \ Protected :
      \/ local[p] \cap Edits \subseteq remote[p].body \cup gone
      \/ \E k \in {"skipped", "applied", "crashed"} : <<p, k>> \in windows

(***************************************************************************)
(* The refresh takes a page whose revision is known for unchanged, so a    *)
(* known revision must mean that the file has the text of that revision.   *)
(***************************************************************************)
KnownIsLocal ==
  mode = "up" /\ sync = NoSync /\ poll = NoPoll =>
    \A p \in Pages \ Protected :
      /\ known[p] # NoSnapshot /\ known[p] = Snapshot(remote[p]) /\ local[p] # NoFile
      => \/ local[p] = remote[p].body
         \/ \E k \in {"posted", "applied", "skipped"} : <<p, k>> \in windows
===============================================================================
