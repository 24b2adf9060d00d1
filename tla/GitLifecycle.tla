------------------------------ MODULE GitLifecycle ------------------------------
(***************************************************************************)
(* The Git backend (omnifuse-git/src/sync_lifecycle.rs, ops.rs, engine.rs  *)
(* and repo_source.rs): a clone in the mount's cache, opened and brought   *)
(* up to date at startup, committed and pushed by the sync worker and      *)
(* pulled by the poll worker, while people edit the files and others push. *)
(*                                                                         *)
(* The content of a file is the set of changes it contains.  The remote    *)
(* branch is the sequence of its trees; a local branch is the number of    *)
(* the remote commit it is based on and the trees it adds.  One git        *)
(* command is one action (op_lock is held for one command), but for a pull *)
(* that has to rebase: it takes one for each commit it replays and two     *)
(* more, so that files change under it.                                    *)
(***************************************************************************)
EXTENDS Naturals, Sequences, SequencesExt, FiniteSets

CONSTANTS
  Files,
  Tracked,      \* the files of the first commit
  PathsAgree,   \* do Git and the dirty index name files by the same paths
  MaxRetries,   \* max_push_retries
  MaxEdits,     \* bound on the changes made in the mount
  MaxForeign,   \* bound on the changes others push
  MaxTroubles   \* bound on the files that are removed, the git commands that
                \* fail for the network and the crashes, together

ASSUME GitLifecycleAssumption ==
  /\ Tracked \subseteq Files
  /\ PathsAgree \in BOOLEAN
  /\ {MaxRetries, MaxEdits, MaxForeign, MaxTroubles} \subseteq Nat

VARIABLES
  remote,    \* the branch at the server: its trees, oldest first
  repo,      \* .git: is there a clone, origin/<branch>, the branch, the HEAD
             \* of a rebase that is not finished and how many commits it
             \* has replayed, and the index
  work,      \* the working tree, which is the mount's local directory
  mode,      \* is the mount down, starting or up
  dirty,     \* the engine's dirty set: what the next sync gets
  protected, \* the engine's dirty index: what a refresh must not touch
  sync,      \* sync_local
  poll,      \* refresh_remote_protected, or startup_sync
  count,     \* changes and troubles so far
  history    \* changes removed or discarded, overrun by a rebase or carried
             \* over a restart; was a file edited under a rebase, or untracked
             \* when it began; the picks that conflicted

vars == <<remote, repo, work, mode, dirty, protected, sync, poll, count, history>>

NoFile == {0}
Text(file) == file \ NoFile
Edits == 1..MaxEdits
Changes == 1..(MaxEdits + MaxForeign)
Tree == [Files -> (SUBSET Changes) \cup {NoFile}]
In(tree) == UNION {Text(tree[f]) : f \in Files}
Differ(tree, other) == {f \in Files : tree[f] # other[f]}

None == [base |-> 0, ahead |-> <<>>]
Tip(branch) == IF branch.ahead = <<>> THEN remote[branch.base] ELSE Last(branch.ahead)
RemoteTip == Last(remote)
HEAD == IF repo.rebase # None THEN repo.rebase ELSE repo.branch
Origin == remote[repo.origin]

NoSync == [pc |-> "idle", batch |-> {}, retries |-> 0]
NoPoll == [pc |-> "idle"]
Empty == [f \in Files |-> NoFile]

Init ==
  /\ remote = << [f \in Files |-> IF f \in Tracked THEN {} ELSE NoFile] >>
  /\ repo = [cloned |-> FALSE, origin |-> 1, branch |-> None, rebase |-> None, done |-> 0,
           index |-> Empty]
  /\ work = Empty
  /\ mode = "down"
  /\ dirty = {}
  /\ protected = {}
  /\ sync = NoSync
  /\ poll = NoPoll
  /\ count = [edits |-> 0, foreign |-> 0, troubles |-> 0]
  /\ history = [gone |-> {}, overrun |-> {}, carried |-> {}, raced |-> FALSE,
                clashed |-> {}]

Count(what) == count' = [count EXCEPT ![what] = @ + 1]

\* op_lock: a pull that rebases holds it between its two steps.
Rebasing == "rebasing" \in {sync.pc, poll.pc}

-------------------------------------------------------------------------------
(* Whoever uses the mount, and others who push to the branch.              *)

Touched(f) ==
  /\ dirty' = dirty \cup {f}
  /\ protected' = protected \cup {f}
  /\ UNCHANGED <<remote, repo, mode, sync, poll>>

Edit(f) ==
  /\ mode = "up" /\ count.edits < MaxEdits
  /\ Count("edits")
  /\ work' = [work EXCEPT ![f] = Text(@) \cup {count'.edits}]
  /\ history' = [history EXCEPT !.raced = @ \/ Rebasing]
  /\ Touched(f)

RemoveFile(f) ==
  /\ mode = "up" /\ count.troubles < MaxTroubles
  /\ work[f] # NoFile
  /\ Count("troubles")
  /\ work' = [work EXCEPT ![f] = NoFile]
  /\ history' = [history EXCEPT !.gone = @ \cup work[f], !.raced = @ \/ Rebasing]
  /\ Touched(f)

ForeignPush(f) ==
  /\ count.foreign < MaxForeign
  /\ Count("foreign")
  /\ remote' = Append(remote, [RemoteTip EXCEPT ![f] = Text(@) \cup {MaxEdits + count'.foreign}])
  /\ UNCHANGED <<repo, work, mode, dirty, protected, sync, poll, history>>

ForeignRemove(f) ==
  /\ count.troubles < MaxTroubles
  /\ RemoteTip[f] # NoFile
  /\ Count("troubles")
  /\ remote' = Append(remote, [RemoteTip EXCEPT ![f] = NoFile])
  /\ history' = [history EXCEPT !.gone = @ \cup RemoteTip[f]]
  /\ UNCHANGED <<repo, work, mode, dirty, protected, sync, poll>>

-------------------------------------------------------------------------------
(* git pull --rebase.                                                      *)

Untracked(f) == repo.index[f] = NoFile /\ work[f] # NoFile
Unstaged(f) == repo.index[f] # NoFile /\ work[f] # repo.index[f]
Staged(f) == repo.index[f] # Tip(HEAD)[f]
Unclean == \E f \in Files : Unstaged(f) \/ Staged(f)

\* Git refuses to write over a file it does not track.
Obstructed(tree) == \E f \in Files : Untracked(f) /\ tree[f] # NoFile

\* The working tree when tree is checked out: untracked files stay.
Checkout(tree) == [f \in Files |-> IF Untracked(f) /\ tree[f] = NoFile THEN work[f] ELSE tree[f]]

\* Three-way merge of one file; whether changes on both sides touch the same
\* lines is a matter of choice, unless one side has no file to merge.
Overlap(base, mine, theirs) == base # mine /\ base # theirs /\ mine # theirs
Clash(base, mine, theirs) == Overlap(base, mine, theirs) /\ NoFile \in {base, mine, theirs}
Merge(base, mine, theirs) ==
  IF base = mine THEN theirs
  ELSE IF base = theirs \/ mine = theirs THEN mine
  ELSE (mine \cap theirs) \cup (mine \ base) \cup (theirs \ base)

\* A rebase replays the commits of the branch one after the other: the next
\* of them is Commit(repo.done + 1), and HEAD is what it is applied to.
Mine(i) == IF i = 0 THEN remote[repo.branch.base] ELSE repo.branch.ahead[i]
Before == Mine(repo.done)
After  == Mine(repo.done + 1)
Onto   == Tip(repo.rebase)
Picked == [f \in Files |-> Merge(Before[f], After[f], Onto[f])]

\* Git decides by the three trees: what conflicted once conflicts again.
Pick == <<Before, After, Onto>>
Overlaps == \E f \in Files : Overlap(Before[f], After[f], Onto[f])
Clashes  == \E f \in Files : Clash(Before[f], After[f], Onto[f])
\* The commit writes to a file that was edited since the rebase began.
Blocked  == \E f \in Differ(Onto, Picked) : Untracked(f) \/ Unstaged(f)

Edited(tree) == [f \in Files |-> IF Untracked(f) \/ Unstaged(f) THEN work[f] ELSE tree[f]]

\* What the callers do with the result: push_with_retry, and refresh_remote
\* or startup_sync, which end with any.
PullEnds(who, result) ==
  IF who = "sync"
  THEN /\ IF result = "ok" THEN sync' = [sync EXCEPT !.pc = "push"] ELSE sync' = NoSync
       /\ dirty' = IF result = "error" THEN dirty \cup sync.batch ELSE dirty
       /\ protected' = IF result = "conflict" THEN protected \cup sync.batch ELSE protected
       /\ UNCHANGED <<poll, mode>>
  ELSE /\ poll' = NoPoll
       /\ mode' = "up"
       /\ UNCHANGED <<sync, dirty, protected>>

Pulls(who) ==
  /\ ~Rebasing
  /\ IF who = "sync" THEN sync.pc = "pull" ELSE poll.pc = "pull"

PullFails(who) ==
  /\ Pulls(who)
  /\ \/ count.troubles < MaxTroubles /\ Count("troubles") /\ UNCHANGED repo
     \/ Unclean /\ UNCHANGED <<count, repo>>
     \/ /\ ~Unclean
        /\ repo' = [repo EXCEPT !.origin = Len(remote)]
        /\ \/ HEAD.base < Len(remote) /\ Obstructed(RemoteTip)
           \/ repo.rebase # None /\ HEAD.ahead # <<>>
        /\ UNCHANGED count
  /\ PullEnds(who, "error")
  /\ UNCHANGED <<remote, work, history>>

\* Nothing to replay: fast-forward, or up to date.
PullForwards(who) ==
  /\ Pulls(who) /\ ~Unclean
  /\ IF HEAD.ahead = <<>>
     THEN /\ HEAD.base < Len(remote) => ~Obstructed(RemoteTip)
          /\ LET forward == [base |-> Len(remote), ahead |-> <<>>] IN
             repo' = IF repo.rebase # None
                     THEN [repo EXCEPT !.origin = Len(remote), !.index = RemoteTip, !.rebase = forward]
                     ELSE [repo EXCEPT !.origin = Len(remote), !.index = RemoteTip, !.branch = forward]
          /\ work' = Checkout(RemoteTip)
     ELSE /\ repo.rebase = None /\ HEAD.base = Len(remote)
          /\ repo' = [repo EXCEPT !.origin = Len(remote)]
          /\ UNCHANGED work
  /\ PullEnds(who, "ok")
  /\ UNCHANGED <<remote, count, history>>

PullBegin(who) ==
  /\ Pulls(who) /\ ~Unclean
  /\ repo.rebase = None /\ HEAD.ahead # <<>> /\ HEAD.base < Len(remote)
  /\ ~Obstructed(RemoteTip)
  /\ repo' = [repo EXCEPT !.origin = Len(remote), !.index = RemoteTip,
                          !.rebase = [base |-> Len(remote), ahead |-> <<>>]]
  /\ work' = Checkout(RemoteTip)
  /\ IF who = "sync" THEN sync' = [sync EXCEPT !.pc = "rebasing"] /\ UNCHANGED poll
                     ELSE poll' = [poll EXCEPT !.pc = "rebasing"] /\ UNCHANGED sync
  /\ history' = [history EXCEPT !.raced = @ \/ \E f \in Files : Untracked(f)]
  /\ UNCHANGED <<remote, mode, dirty, protected, count>>

IsRebasing(who) == IF who = "sync" THEN sync.pc = "rebasing" ELSE poll.pc = "rebasing"

\* The next commit of the branch is replayed; one that became empty is dropped.
Picking(who) == IsRebasing(who) /\ repo.done < Len(repo.branch.ahead)

PullPicks(who) ==
  /\ Picking(who)
  /\ ~Blocked /\ ~Clashes /\ Pick \notin history.clashed
  /\ repo' = [repo EXCEPT !.done = @ + 1, !.index = Picked,
                !.rebase.ahead = IF Picked = Onto THEN @ ELSE Append(@, Picked)]
  /\ work' = Edited(Picked)
  /\ UNCHANGED <<remote, mode, dirty, protected, sync, poll, count, history>>

\* All of them are: the branch is moved to the last.
PullFinishes(who) ==
  /\ IsRebasing(who)
  /\ repo.done = Len(repo.branch.ahead)
  /\ repo' = [repo EXCEPT !.branch = repo.rebase, !.rebase = None, !.done = 0]
  /\ PullEnds(who, "ok")
  /\ UNCHANGED <<remote, work, count, history>>

\* (mutant) The conflict is reported, the rebase is not aborted.
PullDoesNotAbort(who) ==
  /\ Picking(who) /\ Overlaps
  /\ PullEnds(who, "conflict")
  /\ UNCHANGED <<remote, repo, work, count, history>>

\* (mutant) A conflict resets the branch to the remote's.
PullResets(who) ==
  /\ Picking(who) /\ Overlaps
  /\ repo' = [repo EXCEPT !.branch = repo.rebase, !.rebase = None, !.done = 0]
  /\ work' = Checkout(Tip(repo.rebase))
  /\ PullEnds(who, "conflict")
  /\ UNCHANGED <<remote, count, history>>

\* A commit conflicts: git rebase --abort resets the working tree to the
\* branch as it was.
PullAborts(who) ==
  /\ Picking(who) /\ Overlaps
  /\ repo' = [repo EXCEPT !.rebase = None, !.done = 0, !.index = Tip(repo.branch)]
  /\ work' = Checkout(Tip(repo.branch))
  /\ history' = [history EXCEPT !.overrun = @ \cup ((In(work) \cap Edits) \ In(work')),
                               !.clashed = @ \cup {Pick}]
  /\ PullEnds(who, "conflict")
  /\ UNCHANGED <<remote, count>>

\* A commit would write over an edit: git stops in the middle of the rebase
\* with "Could not apply", which is not among the messages that pull aborts on.
PullStops(who) ==
  /\ Picking(who) /\ Blocked
  /\ PullEnds(who, "error")
  /\ UNCHANGED <<remote, repo, work, count, history>>

Pull(who) ==
  \/ PullFails(who) \/ PullForwards(who) \/ PullBegin(who)
  \/ PullPicks(who) \/ PullFinishes(who) \/ PullAborts(who) \/ PullStops(who)

-------------------------------------------------------------------------------
(* sync_local: auto_commit, then push_with_retry.                          *)

SyncEnds ==
  /\ sync' = NoSync
  /\ UNCHANGED <<remote, work, mode, poll, history>>

SyncError ==
  /\ dirty' = dirty \cup sync.batch
  /\ UNCHANGED protected
  /\ SyncEnds

\* A conflict: the batch goes back to the dirty index only.
SyncConflict ==
  /\ protected' = protected \cup sync.batch
  /\ UNCHANGED dirty
  /\ SyncEnds

SyncSucceeds ==
  /\ protected' = protected \ sync.batch
  /\ UNCHANGED dirty
  /\ sync' = NoSync
  /\ UNCHANGED <<work, mode, poll, history>>

SyncBegin ==
  /\ mode = "up" /\ sync.pc = "idle" /\ dirty # {}
  /\ sync' = [pc |-> "stage", batch |-> dirty, retries |-> 0]
  /\ dirty' = {}
  /\ UNCHANGED <<remote, repo, work, mode, protected, poll, count, history>>

\* git add: a file that neither exists nor is tracked fails the whole batch.
Stage ==
  /\ sync.pc = "stage" /\ ~Rebasing
  /\ IF \E f \in sync.batch : repo.index[f] = NoFile /\ work[f] = NoFile
     THEN UNCHANGED <<repo, count>> /\ SyncError
     ELSE /\ repo' = [repo EXCEPT !.index =
               [f \in Files |-> IF f \in sync.batch THEN work[f] ELSE @[f]]]
          /\ sync' = [sync EXCEPT !.pc = "commit"]
          /\ UNCHANGED <<remote, work, mode, dirty, protected, poll, count, history>>

\* git commit: with nothing staged it says "nothing to commit" only where the
\* working tree is clean.
Commit ==
  /\ sync.pc = "commit" /\ ~Rebasing
  /\ LET commit(branch) == [branch EXCEPT !.ahead = Append(@, repo.index)]
         staged == \E f \in Files : Staged(f)
     IN IF ~staged /\ \E f \in Files : Untracked(f) \/ Unstaged(f)
        THEN UNCHANGED <<repo, count>> /\ SyncError
        ELSE /\ repo' = IF ~staged THEN repo
                        ELSE IF repo.rebase # None THEN [repo EXCEPT !.rebase = commit(@)]
                        ELSE [repo EXCEPT !.branch = commit(@)]
             /\ sync' = [sync EXCEPT !.pc = "push"]
             /\ UNCHANGED <<remote, work, mode, dirty, protected, poll, count, history>>

\* (mutant) git push --force.
PushedByForce == remote' = SubSeq(remote, 1, repo.branch.base) \o repo.branch.ahead

\* git push of the branch: the server takes it only where it extends its own.
Pushed ==
  /\ repo.branch.base = Len(remote)
  /\ remote' = remote \o repo.branch.ahead

Push ==
  /\ sync.pc = "push" /\ ~Rebasing
  /\ Pushed
  /\ repo' = [repo EXCEPT !.branch = [base |-> Len(remote'), ahead |-> <<>>],
                          !.origin = Len(remote')]
  /\ UNCHANGED count
  /\ SyncSucceeds

\* The connection fails before, or after the server has taken the commits.
PushFails ==
  /\ sync.pc = "push" /\ ~Rebasing
  /\ count.troubles < MaxTroubles /\ Count("troubles")
  /\ \/ UNCHANGED <<repo, remote>>
     \/ Pushed /\ repo' = [repo EXCEPT !.branch = [base |-> Len(remote'), ahead |-> <<>>]]
  /\ dirty' = dirty \cup sync.batch
  /\ sync' = NoSync
  /\ UNCHANGED <<work, mode, protected, poll, history>>

\* (mutants) One retry too many; no limit; success when the retries are used up.
PushRejectedOnceMore ==
  /\ sync.pc = "push" /\ ~Rebasing
  /\ repo.branch.base < Len(remote) \/ repo.branch.ahead # <<>>
  /\ UNCHANGED <<repo, count>>
  /\ IF sync.retries > MaxRetries
     THEN SyncConflict
     ELSE /\ sync' = [sync EXCEPT !.pc = "pull", !.retries = @ + 1]
          /\ UNCHANGED <<remote, work, mode, dirty, protected, poll, history>>

PushRejectedForever ==
  /\ sync.pc = "push" /\ ~Rebasing
  /\ repo.branch.base < Len(remote) \/ repo.branch.ahead # <<>>
  /\ sync' = [sync EXCEPT !.pc = "pull"]
  /\ UNCHANGED <<remote, repo, work, mode, dirty, protected, poll, count, history>>

PushRejectedFallsThrough ==
  /\ sync.pc = "push" /\ ~Rebasing
  /\ repo.branch.base < Len(remote) \/ repo.branch.ahead # <<>>
  /\ UNCHANGED <<remote, repo, count>>
  /\ IF sync.retries >= MaxRetries
     THEN SyncSucceeds
     ELSE /\ sync' = [sync EXCEPT !.pc = "pull", !.retries = @ + 1]
          /\ UNCHANGED <<work, mode, dirty, protected, poll, history>>

\* The server's branch has moved on, or the server declines the push.
PushRejected ==
  /\ sync.pc = "push" /\ ~Rebasing
  /\ repo.branch.base < Len(remote) \/ repo.branch.ahead # <<>>
  /\ UNCHANGED <<repo, count>>
  /\ IF sync.retries >= MaxRetries
     THEN SyncConflict
     ELSE /\ sync' = [sync EXCEPT !.pc = "pull", !.retries = @ + 1]
          /\ UNCHANGED <<remote, work, mode, dirty, protected, poll, history>>

Sync == Stage \/ Commit \/ Push \/ PushFails \/ PushRejected \/ Pull("sync")

-------------------------------------------------------------------------------
(* refresh_remote_protected: look for changes, and pull them unless one is *)
(* of a file with local changes.                                           *)

PollTo(pc) == poll' = [poll EXCEPT !.pc = pc]
PollEnds == poll' = NoPoll

PollBegin ==
  /\ mode = "up" /\ poll.pc = "idle"
  /\ poll' = [pc |-> "fetch", head |-> Tip(HEAD), spared |-> {}, seen |-> 0]
  /\ UNCHANGED <<remote, repo, work, mode, dirty, protected, sync, count, history>>

Fetched ==
  /\ repo' = [repo EXCEPT !.origin = Len(remote)]
  /\ UNCHANGED count

FetchFailed ==
  /\ count.troubles < MaxTroubles /\ Count("troubles")
  /\ UNCHANGED repo

PollFetch ==
  /\ poll.pc \in {"fetch", "fetch again"} /\ ~Rebasing
  /\ \/ Fetched /\ PollTo(IF poll.pc = "fetch" THEN "check" ELSE "compare")
     \/ FetchFailed /\ PollEnds
  /\ UNCHANGED <<remote, work, mode, dirty, protected, sync, history>>

\* history: the files that are to be spared by this refresh, and the commit
\* of the remote it was decided for.  A check within a sync's rebase compares
\* with the commits replayed so far, and spares nothing if it is aborted.
Spared == IF Rebasing THEN {} ELSE protected

\* (mutant) The dirty index is not asked.
PollCheckUnprotected ==
  /\ poll.pc = "check"
  /\ IF poll.head = Origin \/ Differ(Tip(HEAD), Origin) = {}
     THEN PollEnds
     ELSE poll' = [poll EXCEPT !.pc = "head", !.spared = Spared, !.seen = repo.origin]
  /\ UNCHANGED <<remote, repo, work, mode, dirty, protected, sync, count, history>>

\* PathProtection::is_protected, asked with the absolute path of the file.  The
\* engine's index has the paths the mount knows, relative to its root.
IsProtected(f) == PathsAgree /\ f \in protected

\* check_remote compares with the head it read before it fetched,
\* diff_remote_files with the head there is now.
PollCheck ==
  /\ poll.pc = "check"
  /\ LET changed == Differ(Tip(HEAD), Origin) IN
     IF poll.head = Origin \/ changed = {} \/ \E f \in changed : IsProtected(f)
     THEN PollEnds
     ELSE poll' = [poll EXCEPT !.pc = "head", !.spared = Spared, !.seen = repo.origin]
  /\ UNCHANGED <<remote, repo, work, mode, dirty, protected, sync, count, history>>

\* refresh_remote looks again, and does not check again.
PollHead ==
  /\ poll.pc = "head"
  /\ poll' = [poll EXCEPT !.pc = "fetch again", !.head = Tip(HEAD)]
  /\ UNCHANGED <<remote, repo, work, mode, dirty, protected, sync, count, history>>

PollCompare ==
  /\ poll.pc = "compare"
  /\ IF poll.head = Origin THEN PollEnds ELSE PollTo("pull")
  /\ UNCHANGED <<remote, repo, work, mode, dirty, protected, sync, count, history>>

Poll == PollFetch \/ PollCheck \/ PollHead \/ PollCompare \/ Pull("poll")

-------------------------------------------------------------------------------
(* open: prepare the clone, then startup_sync.                             *)

\* worktree_health: no rebase left behind, and git status reports nothing.
Healthy == repo.rebase = None /\ ~Unclean /\ \A f \in Files : ~Untracked(f)

Unsent == 1..count.edits \ In(RemoteTip)

OpenDiscard ==
  /\ mode = "down" /\ repo.cloned /\ ~Healthy
  /\ repo' = [repo EXCEPT !.cloned = FALSE, !.rebase = None, !.done = 0]
  /\ work' = Empty
  /\ history' = [history EXCEPT !.gone = @ \cup Unsent]
  /\ UNCHANGED <<remote, mode, dirty, protected, sync, poll, count>>

Starts ==
  /\ mode' = "starting"
  /\ poll' = [pc |-> "startup"]

OpenClone ==
  /\ mode = "down" /\ ~repo.cloned
  /\ repo' = [cloned |-> TRUE, origin |-> Len(remote), rebase |-> None, done |-> 0,
              index |-> RemoteTip, branch |-> [base |-> Len(remote), ahead |-> <<>>]]
  /\ work' = RemoteTip
  /\ Starts
  /\ UNCHANGED <<remote, dirty, protected, sync, count, history>>

\* fetch_updates goes on where the fetch fails; the branch is checked out.
OpenReuse ==
  /\ mode = "down" /\ repo.cloned /\ Healthy
  /\ Fetched \/ FetchFailed
  /\ Starts
  /\ UNCHANGED <<remote, work, dirty, protected, sync, history>>

\* startup_sync pulls only what this fetch brings.
StartupFetch ==
  /\ poll.pc = "startup"
  /\ \/ /\ Fetched /\ repo'.origin # repo.origin
        /\ PollTo("pull")
        /\ UNCHANGED mode
     \/ /\ \/ Fetched /\ repo'.origin = repo.origin
           \/ FetchFailed
        /\ PollEnds
        /\ mode' = "up"
  /\ UNCHANGED <<remote, work, dirty, protected, sync, history>>

\* The mount ends, at once: the sets of the engine are in memory.
Crash ==
  /\ mode # "down" /\ count.troubles < MaxTroubles
  /\ Count("troubles")
  /\ mode' = "down"
  /\ dirty' = {} /\ protected' = {}
  /\ sync' = NoSync /\ poll' = NoPoll
  /\ history' = [history EXCEPT !.carried = @ \cup Unsent, !.raced = @ \/ Rebasing]
  /\ UNCHANGED <<remote, repo, work>>

-------------------------------------------------------------------------------

Next ==
  \/ \E f \in Files : Edit(f) \/ RemoveFile(f) \/ ForeignPush(f) \/ ForeignRemove(f)
  \/ SyncBegin \/ Sync
  \/ PollBegin \/ Poll
  \/ OpenDiscard \/ OpenClone \/ OpenReuse \/ StartupFetch
  \/ Crash

\* A git command ends, and whoever waits for op_lock gets it: tokio's RwLock
\* serves its waiters in order.
Fairness == SF_vars(Sync) /\ WF_vars(Poll)

Spec == Init /\ [][Next]_vars /\ Fairness

-------------------------------------------------------------------------------
Branch == [base : 0..Len(remote), ahead : Seq(Tree)]

\* The state has its type; a push is retried max_push_retries times at most
\* (push_with_retry).
TypeOK ==
  /\ remote \in Seq(Tree) /\ remote # <<>>
  /\ repo \in [cloned : BOOLEAN, origin : 1..Len(remote), branch : Branch, rebase : Branch,
               done : Nat, index : Tree]
  /\ work \in Tree
  /\ mode \in {"down", "starting", "up"}
  /\ dirty \subseteq Files /\ protected \subseteq Files
  /\ sync \in [pc : {"idle", "stage", "commit", "push", "pull", "rebasing"},
               batch : SUBSET Files, retries : 0..MaxRetries]
  /\ poll.pc \in {"idle", "fetch", "check", "head", "fetch again", "compare", "pull",
                  "rebasing", "startup"}
  /\ history.gone \subseteq Changes

\* A change made in the mount is in the working tree, on the local branch or
\* at the remote.  Lost are what somebody removed, what a clone was discarded
\* with at startup (worktree_health), and an edit made while a rebase was
\* running that git rebase --abort then reset (engine.rs, pull): a rebase never
\* starts over an edit.
EditsKept ==
  1..count.edits \subseteq In(work) \cup In(RemoteTip) \cup history.gone \cup history.overrun
    \cup (IF repo.cloned THEN In(Tip(repo.branch)) \cup In(Tip(HEAD)) ELSE {})

\* What others pushed is not taken back by a push of the mount, whatever was
\* fetched, pulled or retried in between (push_with_retry).
RemoteKept ==
  (MaxEdits + 1)..(MaxEdits + count.foreign) \subseteq In(RemoteTip) \cup history.gone

\* A file that waits for no sync, is in none and was not reported as a
\* conflict has been pushed: sync_local reports success only for changes the
\* server has.  A restart forgets what was waiting.
CleanIsPushed ==
  mode = "up" =>
    \A f \in Files \ (dirty \cup sync.batch \cup protected) :
      Text(work[f]) \cap Edits \subseteq In(RemoteTip) \cup history.gone \cup history.carried

\* A pull leaves no rebase behind (engine.rs, pull: "Abort rebase on
\* conflicts"), unless a file was edited or the process died while it ran, or
\* a file was untracked when it began.
RebaseIsFinished ==
  repo.rebase # None => Rebasing \/ history.raced

\* A refresh changes no file that the dirty index protected at its check, but
\* for a change that was pushed after the check (refresh_remote_protected),
\* however often the clone was committed, pulled and pushed in between.  A
\* check within a rebase is not one of the branch (see Spared).
RefreshSparesProtected ==
  [][\A f \in Files :
       /\ mode = "up" /\ poll.pc \in {"pull", "rebasing"} /\ poll'.pc = "idle"
       /\ f \in poll.spared
       /\ Tip(repo.branch)[f] # Tip(repo.branch)'[f]
       => \E i \in poll.seen..Len(remote) : remote[i][f] # remote[poll.seen][f]]_vars

\* Every sync ends, also where the server declines every push.
SyncAnswers == sync.pc # "idle" ~> sync.pc = "idle"
===============================================================================
