-------------------------- MODULE GitLifecycleProofs --------------------------
(***************************************************************************)
(* Proofs about the Git backend: for any set of files, any number of       *)
(* changes, pushes, retries and troubles.                                  *)
(***************************************************************************)
EXTENDS GitLifecycle, TLAPS

(***************************************************************************)
(* Types.  Trees hold changes that were made; a branch is based on a       *)
(* commit of the remote as soon as there is a clone.                       *)
(***************************************************************************)
Made == 1..count.edits \cup (MaxEdits + 1)..(MaxEdits + count.foreign)
TreeOf(c) == [Files -> (SUBSET c) \cup {NoFile}]
Line(r, c) == [base : 0..Len(r), ahead : Seq(TreeOf(c))]

StoreType ==
  /\ remote \in Seq(TreeOf(Made)) /\ remote # <<>>
  /\ repo \in [cloned : BOOLEAN, origin : 1..Len(remote), branch : Line(remote, Made),
               rebase : Line(remote, Made), done : Nat, index : TreeOf(Made)]
  /\ work \in TreeOf(Made)

SyncType ==
  sync \in [pc : {"idle", "stage", "commit", "push", "pull", "rebasing"},
            batch : SUBSET Files, retries : 0..MaxRetries]

PollType ==
  /\ "pc" \in DOMAIN poll
  /\ poll.pc \in {"idle", "fetch", "check", "head", "fetch again", "compare", "pull",
                  "rebasing", "startup"}

RestType ==
  /\ mode \in {"down", "starting", "up"}
  /\ dirty \subseteq Files /\ protected \subseteq Files
  /\ count \in [edits : 0..MaxEdits, foreign : 0..MaxForeign, troubles : Nat]
  /\ history \in [gone : SUBSET Changes, overrun : SUBSET Changes, carried : SUBSET Changes,
                  raced : BOOLEAN, clashed : SUBSET (Tree \X Tree \X Tree)]

(* A command runs in a clone, a rebase of one command at a time.           *)
Control ==
  /\ repo.cloned => repo.branch.base # 0
  /\ ~repo.cloned => mode = "down" /\ work = Empty /\ repo.rebase = None
  /\ mode = "down" => sync.pc = "idle" /\ poll.pc = "idle"
  /\ sync.pc = "idle" => sync.batch = {}
  /\ repo.rebase = None => repo.done = 0
  /\ repo.rebase # None => repo.rebase.base # 0 /\ repo.branch.base < Len(remote)
  /\ sync.pc = "rebasing" => poll.pc # "rebasing"
  /\ Rebasing => repo.rebase # None /\ repo.done \leq Len(repo.branch.ahead)

TInv == StoreType /\ SyncType /\ PollType /\ RestType /\ Control

(***************************************************************************)
(* Nothing is taken back but what is gone: from a tree to one that was     *)
(* made from it, each file keeps its changes.                              *)
(***************************************************************************)
Grows(t, u, g) == \A f \in Files : Text(t[f]) \subseteq Text(u[f]) \cup g
At(r, b, i) == IF i = 0 THEN r[b.base] ELSE b.ahead[i]
Top(r, b) == At(r, b, Len(b.ahead))
LineGrows(r, b, g) ==
  \A i, j \in 0..Len(b.ahead) : i \leq j => Grows(At(r, b, i), At(r, b, j), g)

RemoteGrows ==
  \A i, j \in 1..Len(remote) : i \leq j => Grows(remote[i], remote[j], history.gone)

BranchesGrow ==
  /\ repo.cloned => LineGrows(remote, repo.branch, history.gone)
  /\ repo.rebase # None => LineGrows(remote, repo.rebase, history.gone)

\* HEAD, the index and the working tree.
FilesGrow ==
  repo.cloned =>
    /\ Grows(Top(remote, HEAD), repo.index, history.gone)
    /\ Grows(repo.index, work, history.gone)

\* What a rebase has made so far has the commits it has picked, and nothing
\* that neither side has.
RebaseGrows ==
  Rebasing =>
    /\ Grows(At(remote, repo.branch, repo.done), Top(remote, repo.rebase), history.gone)
    /\ \A f \in Files :
         Text(Top(remote, repo.rebase)[f]) \subseteq
           Text(Top(remote, repo.branch)[f]) \cup Text(RemoteTip[f]) \cup history.gone

\* The index differs from HEAD between git add and git commit only.
IndexIsHead ==
  Rebasing \/ (mode # "down" /\ sync.pc # "commit") => repo.index = Top(remote, HEAD)

\* What was added is committed, unless it was edited since.
StagedIsWork ==
  sync.pc \in {"commit", "push", "pull", "rebasing"} =>
    \A f \in sync.batch \ dirty : repo.index[f] = work[f]

Clean == Files \ (dirty \cup sync.batch \cup protected)
Settled(t) ==
  \A f \in Clean :
    Text(t[f]) \cap Edits \subseteq In(RemoteTip) \cup history.gone \cup history.carried
CleanIsSettled == Settled(work) /\ (repo.cloned => Settled(Top(remote, repo.branch)))

\* No file is edited under a rebase that nobody raced.
RebaseIsClean == Rebasing /\ ~history.raced => work = repo.index

GInv ==
  /\ RemoteGrows /\ BranchesGrow /\ FilesGrow /\ RebaseGrows /\ IndexIsHead /\ StagedIsWork
  /\ CleanIsSettled /\ RebaseIsClean
  /\ EditsKept /\ RemoteKept /\ RebaseIsFinished

IInv == TInv /\ GInv

(***************************************************************************)
(* Lemmas about trees and branches.                                        *)
(***************************************************************************)
LEMMA TreeMore == ASSUME NEW c, NEW d, c \subseteq d PROVE TreeOf(c) \subseteq TreeOf(d)
BY DEF TreeOf

LEMMA SeqMore == ASSUME NEW S, NEW T, S \subseteq T PROVE Seq(S) \subseteq Seq(T)
OBVIOUS

LEMMA LineMore ==
  ASSUME NEW r, NEW s, Len(r) \in Nat, Len(s) \in Nat, Len(r) \leq Len(s),
         NEW c, NEW d, c \subseteq d
  PROVE  Line(r, c) \subseteq Line(s, d)
<1>1. Seq(TreeOf(c)) \subseteq Seq(TreeOf(d))
  BY TreeMore, SeqMore
<1>. QED
  BY <1>1 DEF Line

LEMMA TopIsTip ==
  ASSUME NEW b \in [base : Nat, ahead : Seq(Tree)]
  PROVE  Tip(b) = Top(remote, b)
BY DEF Tip, Top, At, Last

LEMMA TopType ==
  ASSUME NEW c, NEW r \in Seq(TreeOf(c)), NEW b \in Line(r, c), b.base # 0
  PROVE  /\ Top(r, b) \in TreeOf(c)
         /\ \A i \in 0..Len(b.ahead) : At(r, b, i) \in TreeOf(c)
BY DEF Line, Top, At

LEMMA MadeType == ASSUME RestType PROVE Made \subseteq Changes
BY GitLifecycleAssumption DEF RestType, Made, Changes

LEMMA MadeSame == ASSUME count'.edits = count.edits, count'.foreign = count.foreign
                  PROVE  Made' = Made
BY DEF Made

LEMMA NoneType == \A r, c : Len(r) \in Nat => None \in Line(r, c)
BY DEF None, Line

LEMMA TroubleType ==
  ASSUME RestType, Count("troubles")
  PROVE  /\ count' \in [edits : 0..MaxEdits, foreign : 0..MaxForeign, troubles : Nat]
         /\ count'.edits = count.edits /\ count'.foreign = count.foreign
BY DEF RestType, Count

LEMMA StoreMore ==
  ASSUME StoreType, UNCHANGED repo, Len(remote) \leq Len(remote'), Made \subseteq Made'
  PROVE  repo' \in [cloned : BOOLEAN, origin : 1..Len(remote'), branch : Line(remote', Made'),
                    rebase : Line(remote', Made'), done : Nat, index : TreeOf(Made')]
<1>1. Line(remote, Made) \subseteq Line(remote', Made')
  BY LineMore DEF StoreType
<1>2. TreeOf(Made) \subseteq TreeOf(Made')
  BY TreeMore
<1>. QED
  BY <1>1, <1>2 DEF StoreType

LEMMA UserTypes ==
  ASSUME TInv, NEW f \in Files, Edit(f) \/ RemoveFile(f)
  PROVE  TInv'
<1>. USE DEF TInv
<1>1. UNCHANGED <<remote, repo, mode, sync, poll>> /\ dirty' \subseteq Files /\ protected' \subseteq Files
  BY DEF Edit, RemoveFile, Touched, RestType
<1>2. SyncType' /\ PollType'
  BY <1>1 DEF SyncType, PollType
<1>3. mode = "up"
  BY DEF Edit, RemoveFile
<1>4. Control'
  BY <1>1, <1>3 DEF Control, Rebasing
<1>5. ASSUME Edit(f) PROVE StoreType' /\ RestType'
  <2>1. count' \in [edits : 0..MaxEdits, foreign : 0..MaxForeign, troubles : Nat]
        /\ count'.edits = count.edits + 1 /\ count'.foreign = count.foreign
    BY <1>5, GitLifecycleAssumption DEF Edit, Count, RestType
  <2>2. Made \subseteq Made' /\ count'.edits \in Made'
    BY <2>1 DEF Made, RestType
  <2>3. work' \in TreeOf(Made')
    BY <1>5, <2>2 DEF Edit, StoreType, TreeOf, Text, NoFile
  <2>4. Seq(TreeOf(Made)) \subseteq Seq(TreeOf(Made'))
    BY <2>2, TreeMore, SeqMore
  <2>5. repo' \in [cloned : BOOLEAN, origin : 1..Len(remote'), branch : Line(remote', Made'),
                   rebase : Line(remote', Made'), done : Nat, index : TreeOf(Made')]
    BY <1>1, <2>2, StoreMore DEF StoreType
  <2>6. history' \in [gone : SUBSET Changes, overrun : SUBSET Changes, carried : SUBSET Changes,
                      raced : BOOLEAN, clashed : SUBSET (Tree \X Tree \X Tree)]
    BY <1>5 DEF Edit, RestType, Rebasing
  <2>. QED
    BY <1>1, <2>1, <2>3, <2>4, <2>5, <2>6 DEF StoreType, RestType
<1>6. ASSUME RemoveFile(f) PROVE StoreType' /\ RestType'
  <2>1. count' \in [edits : 0..MaxEdits, foreign : 0..MaxForeign, troubles : Nat]
        /\ Made' = Made
    BY <1>6, TroubleType, MadeSame DEF RemoveFile
  <2>2. work' \in TreeOf(Made') /\ work[f] \subseteq Changes
    BY <1>6, <2>1, MadeType DEF RemoveFile, StoreType, TreeOf, NoFile
  <2>3. history' \in [gone : SUBSET Changes, overrun : SUBSET Changes, carried : SUBSET Changes,
                      raced : BOOLEAN, clashed : SUBSET (Tree \X Tree \X Tree)]
    BY <1>6, <2>2 DEF RemoveFile, RestType, Rebasing
  <2>. QED
    BY <1>1, <2>1, <2>2, <2>3 DEF StoreType, RestType
<1>. QED
  BY <1>2, <1>4, <1>5, <1>6

LEMMA ForeignTypes ==
  ASSUME TInv, NEW f \in Files, ForeignPush(f) \/ ForeignRemove(f)
  PROVE  TInv' /\ Len(remote') = Len(remote) + 1 /\ \A i \in 1..Len(remote) : remote'[i] = remote[i]
<1>. USE DEF TInv
<1>1. UNCHANGED <<repo, work, mode, dirty, protected, sync, poll>>
  BY DEF ForeignPush, ForeignRemove
<1>2. SyncType' /\ PollType'
  BY <1>1 DEF SyncType, PollType
<1>3. RemoteTip \in TreeOf(Made)
  BY DEF StoreType, RemoteTip, Last
<1>4. ASSUME NEW t \in TreeOf(Made'), remote' = Append(remote, t), Made \subseteq Made'
      PROVE  /\ StoreType' /\ Len(remote') = Len(remote) + 1
             /\ \A i \in 1..Len(remote) : remote'[i] = remote[i]
  <2>1. Seq(TreeOf(Made)) \subseteq Seq(TreeOf(Made')) /\ TreeOf(Made) \subseteq TreeOf(Made')
    BY <1>4, TreeMore, SeqMore
  <2>2. remote' \in Seq(TreeOf(Made')) /\ remote' # <<>> /\ Len(remote') = Len(remote) + 1
        /\ \A i \in 1..Len(remote) : remote'[i] = remote[i]
    BY <1>4, <2>1 DEF StoreType
  <2>3. Len(remote) \leq Len(remote')
    BY <2>2 DEF StoreType
  <2>4. repo' \in [cloned : BOOLEAN, origin : 1..Len(remote'), branch : Line(remote', Made'),
                   rebase : Line(remote', Made'), done : Nat, index : TreeOf(Made')]
    BY <1>1, <1>4, <2>3, StoreMore
  <2>. QED
    BY <1>1, <2>1, <2>2, <2>4 DEF StoreType
<1>5. ASSUME ForeignPush(f) PROVE TInv' /\ Len(remote') = Len(remote) + 1
             /\ \A i \in 1..Len(remote) : remote'[i] = remote[i]
  <2>1. count' \in [edits : 0..MaxEdits, foreign : 0..MaxForeign, troubles : Nat]
        /\ count'.edits = count.edits /\ count'.foreign = count.foreign + 1
    BY <1>5, GitLifecycleAssumption DEF ForeignPush, Count, RestType
  <2>2. Made \subseteq Made' /\ MaxEdits + count'.foreign \in Made'
    BY <2>1, GitLifecycleAssumption DEF Made, RestType
  <2>3. [RemoteTip EXCEPT ![f] = Text(@) \cup {MaxEdits + count'.foreign}] \in TreeOf(Made')
    BY <1>3, <2>2 DEF TreeOf, Text, NoFile
  <2>4. StoreType' /\ Len(remote') = Len(remote) + 1 /\ \A i \in 1..Len(remote) : remote'[i] = remote[i]
    BY <1>4, <1>5, <2>2, <2>3 DEF ForeignPush
  <2>5. RestType'
    BY <1>1, <1>5, <2>1 DEF RestType, ForeignPush
  <2>6. Control'
    BY <1>1, <2>4 DEF Control, Rebasing, StoreType, Line
  <2>. QED
    BY <1>2, <2>4, <2>5, <2>6
<1>6. ASSUME ForeignRemove(f) PROVE TInv' /\ Len(remote') = Len(remote) + 1
             /\ \A i \in 1..Len(remote) : remote'[i] = remote[i]
  <2>1. count' \in [edits : 0..MaxEdits, foreign : 0..MaxForeign, troubles : Nat]
        /\ Made' = Made
    BY <1>6, TroubleType, MadeSame DEF ForeignRemove
  <2>2. [RemoteTip EXCEPT ![f] = NoFile] \in TreeOf(Made')
    BY <1>3, <2>1 DEF TreeOf
  <2>3. RemoteTip[f] \subseteq Changes
    BY <1>3, <1>6, MadeType DEF ForeignRemove, TreeOf, NoFile
  <2>4. StoreType' /\ Len(remote') = Len(remote) + 1 /\ \A i \in 1..Len(remote) : remote'[i] = remote[i]
    BY <1>4, <1>6, <2>1, <2>2 DEF ForeignRemove
  <2>5. history' \in [gone : SUBSET Changes, overrun : SUBSET Changes, carried : SUBSET Changes,
                      raced : BOOLEAN, clashed : SUBSET (Tree \X Tree \X Tree)]
    BY <1>6, <2>3 DEF ForeignRemove, RestType
  <2>6. RestType'
    BY <1>1, <2>1, <2>5 DEF RestType
  <2>7. Control'
    BY <1>1, <2>4 DEF Control, Rebasing, StoreType, Line
  <2>. QED
    BY <1>2, <2>4, <2>6, <2>7
<1>. QED
  BY <1>5, <1>6

LEMMA MergeType ==
  ASSUME NEW c, NEW b \in (SUBSET c) \cup {NoFile}, NEW m \in (SUBSET c) \cup {NoFile},
         NEW t \in (SUBSET c) \cup {NoFile}, ~Clash(b, m, t)
  PROVE  Merge(b, m, t) \in (SUBSET c) \cup {NoFile}
BY DEF Clash, Overlap, Merge

LEMMA CheckoutType ==
  ASSUME NEW c, NEW t \in TreeOf(c), work \in TreeOf(c)
  PROVE  Checkout(t) \in TreeOf(c)
BY DEF Checkout, TreeOf

LEMMA BranchTypes ==
  ASSUME TInv
  PROVE  /\ RemoteTip \in TreeOf(Made) /\ RemoteTip = remote[Len(remote)] /\ Len(remote) \in Nat \ {0}
         /\ repo.cloned => /\ Tip(repo.branch) = Top(remote, repo.branch)
                           /\ Tip(repo.branch) \in TreeOf(Made)
                           /\ Tip(HEAD) = Top(remote, HEAD) /\ Tip(HEAD) \in TreeOf(Made)
                           /\ HEAD \in Line(remote, Made) /\ HEAD.base # 0
         /\ repo.rebase # None => /\ Tip(repo.rebase) = Top(remote, repo.rebase)
                                  /\ Tip(repo.rebase) \in TreeOf(Made)
<1>. USE DEF TInv
<1>1. RemoteTip \in TreeOf(Made) /\ RemoteTip = remote[Len(remote)] /\ Len(remote) \in Nat \ {0}
  BY DEF StoreType, RemoteTip, Last
<1>2. \A b \in Line(remote, Made) : b.base # 0 =>
        Tip(b) = Top(remote, b) /\ Tip(b) \in TreeOf(Made)
  <2>1. SUFFICES ASSUME NEW b \in Line(remote, Made), b.base # 0
                 PROVE  Tip(b) = Top(remote, b) /\ Tip(b) \in TreeOf(Made)
    OBVIOUS
  <2>2. Tip(b) = Top(remote, b)
    BY DEF Line, Tip, Top, At, Last
  <2>. QED
    BY <2>1, <2>2, TopType DEF StoreType
<1>3. repo.branch \in Line(remote, Made) /\ repo.rebase \in Line(remote, Made)
  BY DEF StoreType
<1>. QED
  BY <1>1, <1>2, <1>3 DEF Control, HEAD

LEMMA EndsType ==
  ASSUME TInv, NEW who \in {"sync", "poll"}, NEW result \in {"ok", "error", "conflict"},
         PullEnds(who, result), Pulls(who) \/ IsRebasing(who)
  PROVE  /\ SyncType' /\ PollType' /\ ~Rebasing'
         /\ mode \in {"starting", "up"} /\ mode' \in {"starting", "up"} /\ repo.cloned
         /\ dirty' \subseteq Files /\ protected' \subseteq Files
         /\ sync'.pc = "idle" => sync'.batch = {}
<1>. USE DEF TInv
<1>1. mode \in {"starting", "up"} /\ repo.cloned
  BY DEF Pulls, IsRebasing, Control, RestType
<1>2. CASE who = "sync"
  <2>1. UNCHANGED <<poll, mode>> /\ (sync' = [sync EXCEPT !.pc = "push"] \/ sync' = NoSync)
        /\ (dirty' = dirty \/ dirty' = dirty \cup sync.batch)
        /\ (protected' = protected \/ protected' = protected \cup sync.batch)
    BY <1>2 DEF PullEnds
  <2>2. poll.pc # "rebasing"
    BY <1>2, PollType DEF Pulls, IsRebasing, Control, Rebasing
  <2>3. SyncType' /\ sync'.pc \in {"push", "idle"} /\ (sync'.pc = "idle" => sync'.batch = {})
    BY <2>1, GitLifecycleAssumption DEF SyncType, NoSync
  <2>. QED
    BY <1>1, <2>1, <2>2, <2>3 DEF PollType, Rebasing, SyncType, RestType
<1>3. CASE who = "poll"
  <2>1. UNCHANGED <<sync, dirty, protected>> /\ poll' = NoPoll /\ mode' = "up"
    BY <1>3 DEF PullEnds
  <2>2. sync.pc # "rebasing"
    BY <1>3 DEF Pulls, IsRebasing, Control, Rebasing
  <2>. QED
    BY <1>1, <2>1, <2>2 DEF PollType, NoPoll, SyncType, Rebasing, RestType, Control
<1>. QED
  BY <1>2, <1>3

(* What is left of Control once a pull has ended, or the server has answered. *)
LEMMA EndsControl ==
  ASSUME TInv, ~Rebasing', mode' # "down", repo'.cloned, repo'.branch.base # 0,
         repo'.rebase = None => repo'.done = 0,
         repo'.rebase # None => repo'.rebase.base # 0 /\ repo'.branch.base < Len(remote'),
         sync'.pc = "idle" => sync'.batch = {}
  PROVE  Control'
BY DEF Control, Rebasing

LEMMA HistorySame ==
  ASSUME RestType, UNCHANGED history, count'.edits = count.edits, count'.foreign = count.foreign,
         count' \in [edits : 0..MaxEdits, foreign : 0..MaxForeign, troubles : Nat],
         mode' \in {"down", "starting", "up"}, dirty' \subseteq Files, protected' \subseteq Files
  PROVE  RestType' /\ Made' = Made
BY MadeSame DEF RestType

LEMMA PullFailsTypes ==
  ASSUME TInv, NEW who \in {"sync", "poll"}, PullFails(who)
  PROVE  TInv' /\ repo' \in {repo, [repo EXCEPT !.origin = Len(remote)]}
<1>. USE DEF TInv
<1>1. PullEnds(who, "error") /\ Pulls(who) /\ UNCHANGED <<remote, work, history>>
      /\ repo' \in {repo, [repo EXCEPT !.origin = Len(remote)]}
      /\ (Count("troubles") \/ UNCHANGED count)
  BY DEF PullFails
<1>2. /\ SyncType' /\ PollType' /\ ~Rebasing' /\ mode' \in {"starting", "up"} /\ repo.cloned
      /\ dirty' \subseteq Files /\ protected' \subseteq Files
      /\ sync'.pc = "idle" => sync'.batch = {}
  BY <1>1, EndsType
<1>3. /\ count' \in [edits : 0..MaxEdits, foreign : 0..MaxForeign, troubles : Nat]
      /\ count'.edits = count.edits /\ count'.foreign = count.foreign
  BY <1>1, TroubleType DEF RestType
<1>4. RestType' /\ Made' = Made
  BY <1>1, <1>2, <1>3, HistorySame
<1>5. Len(remote) \in 1..Len(remote)
  BY DEF StoreType
<1>6. repo' = [cloned |-> repo.cloned, origin |-> repo'.origin, branch |-> repo.branch,
               rebase |-> repo.rebase, done |-> repo.done, index |-> repo.index]
      /\ repo'.origin \in 1..Len(remote)
  BY <1>1, <1>5 DEF StoreType
<1>7. StoreType'
  BY <1>1, <1>4, <1>6 DEF StoreType, Line
<1>8. Control'
  BY <1>1, <1>2, <1>6, EndsControl DEF Control
<1>. QED
  BY <1>1, <1>2, <1>4, <1>7, <1>8

LEMMA PullForwardsTypes ==
  ASSUME TInv, NEW who \in {"sync", "poll"}, PullForwards(who)
  PROVE  TInv'
<1>. USE DEF TInv
<1>1. PullEnds(who, "ok") /\ Pulls(who) /\ UNCHANGED <<remote, count, history>>
  BY DEF PullForwards
<1>2. /\ SyncType' /\ PollType' /\ ~Rebasing' /\ mode' \in {"starting", "up"} /\ repo.cloned
      /\ dirty' \subseteq Files /\ protected' \subseteq Files
      /\ sync'.pc = "idle" => sync'.batch = {}
  BY <1>1, EndsType
<1>3. RestType' /\ Made' = Made
  BY <1>1, <1>2, HistorySame DEF RestType
<1>. DEFINE forward == [base |-> Len(remote), ahead |-> <<>>]
<1>4. Len(remote) \in 1..Len(remote) /\ RemoteTip \in TreeOf(Made)
  BY BranchTypes DEF StoreType
<1>5. forward \in Line(remote, Made) /\ forward.base # 0
  BY <1>4 DEF Line
<1>6. work' \in TreeOf(Made)
  BY <1>4, CheckoutType DEF PullForwards, StoreType
<1>7. CASE HEAD.ahead = <<>> /\ repo.rebase # None
  <2>1. repo' = [repo EXCEPT !.origin = Len(remote), !.index = RemoteTip, !.rebase = forward]
    BY <1>7 DEF PullForwards
  <2>2. StoreType'
    BY <1>1, <1>3, <1>4, <1>5, <1>6, <2>1 DEF StoreType, Line
  <2>3. repo'.cloned = repo.cloned /\ repo'.branch = repo.branch /\ repo'.rebase = forward
        /\ forward # None
    BY <1>5, <2>1 DEF StoreType, None
  <2>4. Control'
    BY <1>1, <1>2, <1>5, <1>7, <2>3, EndsControl DEF Control
  <2>. QED
    BY <1>2, <1>3, <2>2, <2>4
<1>8. CASE HEAD.ahead = <<>> /\ repo.rebase = None
  <2>1. repo' = [repo EXCEPT !.origin = Len(remote), !.index = RemoteTip, !.branch = forward]
    BY <1>8 DEF PullForwards
  <2>2. StoreType'
    BY <1>1, <1>3, <1>4, <1>5, <1>6, <2>1 DEF StoreType, Line
  <2>3. Control'
    BY <1>1, <1>2, <1>5, <1>8, <2>1, EndsControl DEF Control, StoreType
  <2>. QED
    BY <1>2, <1>3, <2>2, <2>3
<1>9. CASE HEAD.ahead # <<>>
  <2>1. repo' = [repo EXCEPT !.origin = Len(remote)] /\ repo.rebase = None
    BY <1>9 DEF PullForwards
  <2>2. StoreType'
    BY <1>1, <1>3, <1>4, <1>6, <2>1 DEF StoreType, Line
  <2>3. Control'
    BY <1>1, <1>2, <2>1, EndsControl DEF Control, StoreType
  <2>. QED
    BY <1>2, <1>3, <2>2, <2>3
<1>. QED
  BY <1>7, <1>8, <1>9

LEMMA PullBeginTypes ==
  ASSUME TInv, NEW who \in {"sync", "poll"}, PullBegin(who)
  PROVE  TInv'
<1>. USE DEF TInv
<1>1. Pulls(who) /\ UNCHANGED <<remote, mode, dirty, protected, count>>
      /\ repo.rebase = None /\ HEAD.base < Len(remote)
  BY DEF PullBegin
<1>2. mode # "down" /\ repo.cloned /\ mode' \in {"down", "starting", "up"}
  BY <1>1 DEF Pulls, Control, RestType
<1>3. Made' = Made
  BY <1>1, MadeSame
<1>. DEFINE start == [base |-> Len(remote), ahead |-> <<>>]
<1>4. repo' = [repo EXCEPT !.origin = Len(remote), !.index = RemoteTip, !.rebase = start]
  BY DEF PullBegin
<1>5. Len(remote) \in 1..Len(remote) /\ RemoteTip \in TreeOf(Made)
  BY BranchTypes DEF StoreType
<1>6. start \in Line(remote, Made) /\ start.base # 0 /\ start # None
  BY <1>5 DEF Line, None
<1>7. StoreType'
  BY <1>1, <1>3, <1>4, <1>5, <1>6, CheckoutType DEF PullBegin, StoreType, Line
<1>8. RestType'
  <2>1. history' \in [gone : SUBSET Changes, overrun : SUBSET Changes, carried : SUBSET Changes,
                      raced : BOOLEAN, clashed : SUBSET (Tree \X Tree \X Tree)]
    BY DEF PullBegin, RestType
  <2>. QED
    BY <1>1, <2>1 DEF RestType
<1>9. SyncType' /\ PollType' /\ (sync'.pc = "rebasing" => poll'.pc # "rebasing")
      /\ sync'.batch = sync.batch /\ (sync'.pc = "idle" => sync.pc = "idle")
  <2>1. CASE who = "sync"
    BY <1>1, <2>1 DEF PullBegin, SyncType, PollType, Pulls, Rebasing
  <2>2. CASE who = "poll"
    <3>1. poll' = [poll EXCEPT !.pc = "rebasing"] /\ UNCHANGED sync
      BY <2>2 DEF PullBegin
    <3>2. PollType'
      BY <3>1 DEF PollType
    <3>. QED
      BY <1>1, <3>1, <3>2 DEF SyncType, Pulls, Rebasing
  <2>. QED
    BY <2>1, <2>2
<1>10. Control'
  <2>1. repo'.cloned = repo.cloned /\ repo'.branch = repo.branch /\ repo'.rebase = start
        /\ repo'.done = 0
    BY <1>1, <1>4 DEF StoreType, Control
  <2>2. repo.branch.base < Len(remote) /\ 0 \leq Len(repo.branch.ahead)
    BY <1>1 DEF HEAD, StoreType, Line
  <2>. QED
    BY <1>1, <1>2, <1>6, <1>9, <2>1, <2>2 DEF Control
<1>. QED
  BY <1>7, <1>8, <1>9, <1>10

LEMMA PickTypes ==
  ASSUME TInv, NEW who \in {"sync", "poll"}, Picking(who)
  PROVE  /\ Before \in TreeOf(Made) /\ After \in TreeOf(Made) /\ Onto \in TreeOf(Made)
         /\ ~Clashes => Picked \in TreeOf(Made)
         /\ repo.cloned /\ repo.rebase # None /\ repo.branch \in Line(remote, Made)
         /\ repo.done + 1 \in 1..Len(repo.branch.ahead)
         /\ Before = At(remote, repo.branch, repo.done)
         /\ After = At(remote, repo.branch, repo.done + 1)
         /\ Onto = Top(remote, repo.rebase)
<1>. USE DEF TInv
<1>1. repo.rebase # None /\ repo.cloned
  BY DEF Picking, IsRebasing, Control, Rebasing
<1>2. repo.done \in Nat /\ repo.done < Len(repo.branch.ahead) /\ repo.branch \in Line(remote, Made)
  BY DEF Picking, StoreType
<1>3. repo.done + 1 \in 1..Len(repo.branch.ahead)
  BY <1>2 DEF Line
<1>4. Before = At(remote, repo.branch, repo.done) /\ After = At(remote, repo.branch, repo.done + 1)
  BY DEF Before, After, Mine, At
<1>5. \A i \in 0..Len(repo.branch.ahead) : At(remote, repo.branch, i) \in TreeOf(Made)
  BY <1>1, <1>2, TopType DEF StoreType, Control
<1>6. Before \in TreeOf(Made) /\ After \in TreeOf(Made)
  BY <1>2, <1>3, <1>4, <1>5
<1>7. Onto \in TreeOf(Made) /\ Onto = Top(remote, repo.rebase)
  BY <1>1, BranchTypes DEF Onto
<1>8. ASSUME ~Clashes PROVE Picked \in TreeOf(Made)
  <2>1. \A f \in Files : Merge(Before[f], After[f], Onto[f]) \in (SUBSET Made) \cup {NoFile}
    BY <1>6, <1>7, <1>8, MergeType DEF Clashes, TreeOf
  <2>. QED
    BY <2>1 DEF Picked, TreeOf
<1>. QED
  BY <1>1, <1>2, <1>3, <1>4, <1>6, <1>7, <1>8

LEMMA PullPicksTypes ==
  ASSUME TInv, NEW who \in {"sync", "poll"}, PullPicks(who)
  PROVE  /\ TInv' /\ Rebasing'
         /\ repo' = [repo EXCEPT !.done = @ + 1, !.index = Picked, !.rebase = repo'.rebase]
         /\ repo'.rebase.base = repo.rebase.base /\ repo'.rebase # None
         /\ \/ Picked = Onto /\ repo'.rebase = repo.rebase
            \/ repo'.rebase.ahead = Append(repo.rebase.ahead, Picked)
<1>. USE DEF TInv
<1>1. Picking(who) /\ ~Clashes /\ UNCHANGED <<remote, mode, dirty, protected, sync, poll, count, history>>
  BY DEF PullPicks
<1>2. /\ Picked \in TreeOf(Made) /\ repo.cloned /\ repo.rebase # None
      /\ repo.done + 1 \in 1..Len(repo.branch.ahead)
  BY <1>1, PickTypes
<1>. DEFINE more == IF Picked = Onto THEN repo.rebase.ahead ELSE Append(repo.rebase.ahead, Picked)
            next == [base |-> repo.rebase.base, ahead |-> more]
<1>3. repo.rebase \in [base : 0..Len(remote), ahead : Seq(TreeOf(Made))]
  BY DEF StoreType, Line
<1>4. \A m : [repo.rebase EXCEPT !.ahead = m] = [base |-> repo.rebase.base, ahead |-> m]
  BY <1>3
<1>5. repo' = [repo EXCEPT !.done = @ + 1, !.index = Picked, !.rebase = [repo.rebase EXCEPT !.ahead = more]]
  BY <1>3 DEF PullPicks, StoreType
<1>6. next \in Line(remote, Made)
  BY <1>2, <1>3 DEF Line
<1>7. next # None /\ next.base # 0
  BY <1>2 DEF None, Control
<1>8. repo' = [repo EXCEPT !.done = @ + 1, !.index = Picked, !.rebase = next] /\ repo'.rebase = next
  BY <1>4, <1>5 DEF StoreType
<1>. HIDE DEF next
<1>20. repo' = [cloned |-> repo.cloned, origin |-> repo.origin, branch |-> repo.branch,
                rebase |-> next, done |-> repo.done + 1, index |-> Picked]
  BY <1>8 DEF StoreType
<1>9. Made' = Made /\ RestType'
  BY <1>1, MadeSame DEF RestType
<1>10. work' \in TreeOf(Made)
  <2>1. work' = Edited(Picked)
    BY DEF PullPicks
  <2>. QED
    BY <1>2, <2>1 DEF Edited, TreeOf, StoreType
<1>11. StoreType'
  BY <1>1, <1>2, <1>6, <1>20, <1>9, <1>10 DEF StoreType, Line
<1>12. SyncType' /\ PollType' /\ (Rebasing <=> Rebasing') /\ Rebasing
  BY <1>1 DEF SyncType, PollType, Rebasing, Picking, IsRebasing
<1>13. Control'
  <2>1. repo'.cloned = repo.cloned /\ repo'.branch = repo.branch /\ repo'.done = repo.done + 1
        /\ repo'.rebase = next /\ repo.done + 1 \leq Len(repo.branch.ahead)
    BY <1>2, <1>20 DEF StoreType
  <2>. QED
    BY <1>1, <1>2, <1>7, <1>12, <2>1 DEF Control
<1>14. /\ next.base = repo.rebase.base
       /\ Picked = Onto => next = repo.rebase
       /\ Picked # Onto => next.ahead = Append(repo.rebase.ahead, Picked)
  BY <1>3 DEF next
<1>. QED
  BY <1>7, <1>8, <1>9, <1>11, <1>12, <1>13, <1>14

LEMMA PullEndsTypes ==
  ASSUME TInv, NEW who \in {"sync", "poll"}, PullFinishes(who) \/ PullAborts(who) \/ PullStops(who)
  PROVE  TInv'
<1>. USE DEF TInv
<1>1. IsRebasing(who) /\ UNCHANGED <<remote, count>>
      /\ \E result \in {"ok", "conflict", "error"} : PullEnds(who, result)
  BY DEF PullFinishes, PullAborts, PullStops, Picking
<1>2. /\ SyncType' /\ PollType' /\ ~Rebasing' /\ mode' \in {"starting", "up"} /\ repo.cloned
      /\ dirty' \subseteq Files /\ protected' \subseteq Files
      /\ sync'.pc = "idle" => sync'.batch = {}
  BY <1>1, EndsType
<1>3. Made' = Made
  BY <1>1, MadeSame
<1>4. repo.rebase # None /\ repo.rebase.base # 0 /\ None \in Line(remote, Made)
  BY <1>1, NoneType DEF IsRebasing, Control, Rebasing, StoreType
<1>5. CASE PullFinishes(who)
  <2>1. repo' = [repo EXCEPT !.branch = repo.rebase, !.rebase = None, !.done = 0]
        /\ UNCHANGED <<work, history>>
    BY <1>5 DEF PullFinishes
  <2>2. StoreType'
    BY <1>1, <1>3, <1>4, <2>1 DEF StoreType, Line
  <2>3. RestType'
    BY <1>1, <1>2, <2>1, HistorySame DEF RestType
  <2>4. repo'.cloned /\ repo'.branch = repo.rebase /\ repo'.rebase = None /\ repo'.done = 0
    BY <1>2, <2>1 DEF StoreType
  <2>5. Control'
    BY <1>2, <1>4, <2>4, EndsControl
  <2>. QED
    BY <1>2, <2>2, <2>3, <2>5
<1>6. CASE PullAborts(who)
  <2>1. repo' = [repo EXCEPT !.rebase = None, !.done = 0, !.index = Tip(repo.branch)]
        /\ work' = Checkout(Tip(repo.branch)) /\ Picking(who)
    BY <1>6 DEF PullAborts
  <2>2. Tip(repo.branch) \in TreeOf(Made)
    BY <1>2, BranchTypes
  <2>3. StoreType'
    BY <1>1, <1>3, <1>4, <2>1, <2>2, CheckoutType DEF StoreType, Line
  <2>4. Pick \in Tree \X Tree \X Tree
    <3>1. TreeOf(Made) \subseteq Tree
      BY MadeType DEF TreeOf, Tree
    <3>. QED
      BY <2>1, <3>1, PickTypes DEF Pick
  <2>5. history' \in [gone : SUBSET Changes, overrun : SUBSET Changes, carried : SUBSET Changes,
                      raced : BOOLEAN, clashed : SUBSET (Tree \X Tree \X Tree)]
    <3>1. (In(work) \cap Edits) \ In(work') \subseteq Changes
      BY GitLifecycleAssumption DEF Edits, Changes
    <3>. DEFINE more == history.overrun \cup ((In(work) \cap Edits) \ In(work'))
    <3>2. history' = [gone |-> history.gone, overrun |-> more, carried |-> history.carried,
                      raced |-> history.raced, clashed |-> history.clashed \cup {Pick}]
      BY <1>6 DEF PullAborts, RestType
    <3>3. more \in SUBSET Changes
      BY <3>1 DEF RestType
    <3>. HIDE DEF more
    <3>. QED
      BY <2>4, <3>2, <3>3 DEF RestType
  <2>6. RestType'
    BY <1>1, <1>2, <2>5 DEF RestType
  <2>7. repo'.cloned /\ repo'.branch = repo.branch /\ repo'.rebase = None /\ repo'.done = 0
    BY <1>2, <2>1 DEF StoreType
  <2>8. Control'
    BY <1>2, <2>7, EndsControl DEF Control
  <2>. QED
    BY <1>2, <2>3, <2>6, <2>8
<1>7. CASE PullStops(who)
  <2>1. UNCHANGED <<repo, work, history>>
    BY <1>7 DEF PullStops
  <2>2. StoreType' /\ RestType'
    BY <1>1, <1>2, <1>3, <2>1, HistorySame DEF StoreType, Line, RestType
  <2>3. Control'
    BY <1>1, <1>2, <2>1, EndsControl DEF Control
  <2>. QED
    BY <1>2, <2>2, <2>3
<1>. QED
  BY <1>5, <1>6, <1>7

LEMMA PullTypes == ASSUME TInv, NEW who \in {"sync", "poll"}, Pull(who) PROVE TInv'
BY PullFailsTypes, PullForwardsTypes, PullBeginTypes, PullPicksTypes, PullEndsTypes DEF Pull

LEMMA PushedTypes ==
  ASSUME TInv, repo.cloned, Pushed, repo.rebase = None, Made' = Made
  PROVE  /\ remote' \in Seq(TreeOf(Made')) /\ remote' # <<>> /\ Len(remote) \leq Len(remote')
         /\ Len(remote') \in 1..Len(remote')
         /\ \A i \in 1..Len(remote) : remote'[i] = remote[i]
         /\ \A i \in 1..Len(repo.branch.ahead) : remote'[Len(remote) + i] = repo.branch.ahead[i]
         /\ Len(remote') = Len(remote) + Len(repo.branch.ahead)
         /\ Len(remote) \in Nat \ {0} /\ Len(repo.branch.ahead) \in Nat
         /\ [base |-> Len(remote'), ahead |-> <<>>] \in Line(remote', Made')
         /\ Line(remote, Made) \subseteq Line(remote', Made')
<1>. DEFINE ahead == repo.branch.ahead
<1>1. ahead \in Seq(TreeOf(Made)) /\ remote \in Seq(TreeOf(Made)) /\ remote # <<>>
  BY DEF TInv, StoreType, Line
<1>2. remote' = remote \o ahead
  BY DEF Pushed
<1>3. /\ remote' \in Seq(TreeOf(Made)) /\ Len(remote') = Len(remote) + Len(ahead)
      /\ \A i \in 1..Len(remote) : remote'[i] = remote[i]
      /\ \A i \in 1..Len(ahead) : remote'[Len(remote) + i] = ahead[i]
  <2>. HIDE DEF ahead
  <2>. QED
    BY <1>1, <1>2
<1>4. Len(remote) \in Nat /\ Len(remote) > 0 /\ Len(ahead) \in Nat
  BY <1>1
<1>5. Len(remote) \leq Len(remote') /\ Len(remote') \in 1..Len(remote') /\ remote' # <<>>
  BY <1>1, <1>3, <1>4
<1>6. Line(remote, Made) \subseteq Line(remote', Made')
  BY <1>4, <1>5, LineMore
<1>. QED
  BY <1>3, <1>4, <1>5, <1>6 DEF Line

LEMMA SyncTypes ==
  ASSUME TInv, SyncBegin \/ Stage \/ Commit \/ Push \/ PushFails \/ PushRejected
  PROVE  TInv'
<1>. USE DEF TInv
<1>1. UNCHANGED <<work, mode, poll, history>>
  BY DEF SyncBegin, Stage, Commit, Push, PushFails, PushRejected, SyncError, SyncConflict,
         SyncSucceeds, SyncEnds
<1>2. mode # "down" /\ repo.cloned
  BY DEF SyncBegin, Stage, Commit, Push, PushFails, PushRejected, Control
<1>3. PollType'
  BY <1>1 DEF PollType
<1>4. /\ NoSync \in [pc : {"idle", "stage", "commit", "push", "pull", "rebasing"},
                     batch : SUBSET Files, retries : 0..MaxRetries]
      /\ NoSync.pc = "idle" /\ NoSync.batch = {}
  BY GitLifecycleAssumption DEF NoSync
<1>5. ASSUME SyncType', dirty' \subseteq Files, protected' \subseteq Files,
             sync'.pc = "idle" => sync'.batch = {}, sync'.pc # "rebasing",
             UNCHANGED <<remote, repo, count>>
      PROVE  TInv'
  <2>1. Made' = Made
    BY <1>5, MadeSame
  <2>2. StoreType' /\ RestType'
    BY <1>1, <1>5, <2>1 DEF StoreType, RestType, Line
  <2>3. Control'
    BY <1>1, <1>2, <1>5 DEF Control, Rebasing
  <2>. QED
    BY <1>3, <1>5, <2>2, <2>3
<1>6. ASSUME SyncBegin PROVE TInv'
  <2>1. SyncType' /\ sync'.pc = "stage" /\ dirty' = {} /\ UNCHANGED <<remote, repo, protected, count>>
    BY <1>6, GitLifecycleAssumption DEF SyncBegin, SyncType, RestType
  <2>. QED
    BY <1>5, <2>1 DEF RestType
<1>7. ASSUME Stage PROVE TInv'
  <2>1. CASE sync' = NoSync
    <3>1. UNCHANGED <<repo, count, remote, protected>> /\ dirty' = dirty \cup sync.batch
      BY <1>7, <2>1 DEF Stage, SyncError, SyncEnds, NoSync, SyncType
    <3>. QED
      BY <1>4, <1>5, <2>1, <3>1 DEF SyncType, RestType
  <2>2. CASE sync' # NoSync
    <3>. DEFINE index == [f \in Files |-> IF f \in sync.batch THEN work[f] ELSE repo.index[f]]
    <3>1. repo' = [repo EXCEPT !.index = index] /\ sync' = [sync EXCEPT !.pc = "commit"]
          /\ UNCHANGED <<remote, dirty, protected, count>> /\ ~Rebasing
      BY <1>7, <2>2 DEF Stage, SyncError, SyncEnds
    <3>2. index \in TreeOf(Made)
      BY DEF StoreType, TreeOf
    <3>. HIDE DEF index
    <3>3. Made' = Made
      BY <3>1, MadeSame
    <3>4. StoreType' /\ RestType'
      BY <1>1, <3>1, <3>2, <3>3 DEF StoreType, RestType, Line
    <3>5. SyncType' /\ sync'.pc = "commit"
      BY <3>1 DEF SyncType
    <3>6. repo'.cloned = repo.cloned /\ repo'.branch = repo.branch /\ repo'.rebase = repo.rebase
          /\ repo'.done = repo.done
      BY <3>1 DEF StoreType
    <3>7. Control'
      BY <1>1, <1>2, <3>1, <3>5, <3>6 DEF Control, Rebasing
    <3>. QED
      BY <1>3, <3>4, <3>5, <3>7
  <2>. QED
    BY <2>1, <2>2
<1>8. ASSUME Commit PROVE TInv'
  <2>1. CASE UNCHANGED repo
    <3>1. UNCHANGED <<count, remote, protected>> /\ (dirty' = dirty \cup sync.batch \/ dirty' = dirty)
          /\ (sync' = NoSync \/ sync' = [sync EXCEPT !.pc = "push"])
      BY <1>8 DEF Commit, SyncError, SyncEnds
    <3>2. SyncType' /\ sync'.pc \in {"idle", "push"} /\ (sync'.pc = "idle" => sync'.batch = {})
      BY <1>4, <3>1 DEF SyncType
    <3>. QED
      BY <1>5, <2>1, <3>1, <3>2 DEF SyncType, RestType
  <2>2. CASE repo' # repo
    <3>1. /\ sync' = [sync EXCEPT !.pc = "push"] /\ UNCHANGED <<remote, dirty, protected, count>>
          /\ ~Rebasing
          /\ IF repo.rebase # None
             THEN repo' = [repo EXCEPT !.rebase = [repo.rebase EXCEPT !.ahead = Append(@, repo.index)]]
             ELSE repo' = [repo EXCEPT !.branch = [repo.branch EXCEPT !.ahead = Append(@, repo.index)]]
      BY <1>8, <2>2 DEF Commit
    <3>2. \A b \in Line(remote, Made) :
            [b EXCEPT !.ahead = Append(@, repo.index)]
              = [base |-> b.base, ahead |-> Append(b.ahead, repo.index)]
      BY DEF Line
    <3>3. \A b \in Line(remote, Made) :
            [base |-> b.base, ahead |-> Append(b.ahead, repo.index)] \in Line(remote, Made)
      BY DEF Line, StoreType
    <3>4. Made' = Made
      BY <3>1, MadeSame
    <3>5. RestType' /\ SyncType' /\ sync'.pc = "push"
      BY <1>1, <3>1 DEF SyncType, RestType
    <3>6. CASE repo.rebase # None
      <4>. DEFINE b == repo.rebase
                  next == [base |-> b.base, ahead |-> Append(b.ahead, repo.index)]
      <4>1. next \in Line(remote, Made) /\ next.base # 0 /\ next # None
        BY <3>3, <3>6 DEF StoreType, None, Control
      <4>2. repo' = [repo EXCEPT !.rebase = next]
        BY <3>1, <3>2, <3>6 DEF StoreType
      <4>. HIDE DEF next
      <4>3. StoreType'
        BY <1>1, <3>1, <3>4, <4>1, <4>2 DEF StoreType, Line
      <4>4. repo'.cloned = repo.cloned /\ repo'.branch = repo.branch /\ repo'.rebase = next
            /\ repo'.done = repo.done
        BY <4>2 DEF StoreType
      <4>5. Control'
        BY <1>1, <1>2, <3>1, <3>5, <3>6, <4>1, <4>4 DEF Control, Rebasing
      <4>. QED
        BY <1>3, <3>5, <4>3, <4>5
    <3>7. CASE repo.rebase = None
      <4>. DEFINE b == repo.branch
                  next == [base |-> b.base, ahead |-> Append(b.ahead, repo.index)]
      <4>1. next \in Line(remote, Made) /\ next.base # 0
        BY <1>2, <3>3 DEF StoreType, Control
      <4>2. repo' = [repo EXCEPT !.branch = next]
        BY <3>1, <3>2, <3>7 DEF StoreType
      <4>. HIDE DEF next
      <4>3. StoreType'
        BY <1>1, <3>1, <3>4, <4>1, <4>2 DEF StoreType, Line
      <4>4. repo'.cloned = repo.cloned /\ repo'.branch = next /\ repo'.rebase = repo.rebase
            /\ repo'.done = repo.done
        BY <4>2 DEF StoreType
      <4>5. Control'
        BY <1>1, <1>2, <3>1, <3>5, <3>7, <4>1, <4>4 DEF Control, Rebasing
      <4>. QED
        BY <1>3, <3>5, <4>3, <4>5
    <3>. QED
      BY <3>6, <3>7
  <2>. QED
    BY <2>1, <2>2
<1>9. ASSUME PushRejected PROVE TInv'
  <2>1. UNCHANGED <<repo, count, remote, dirty>> /\ (protected' = protected \cup sync.batch \/ protected' = protected)
        /\ \/ sync' = NoSync
           \/ sync' = [sync EXCEPT !.pc = "pull", !.retries = @ + 1] /\ ~(sync.retries \geq MaxRetries)
    BY <1>9 DEF PushRejected, SyncConflict, SyncEnds
  <2>2. SyncType' /\ sync'.pc \in {"idle", "pull"} /\ (sync'.pc = "idle" => sync'.batch = {})
    <3>1. MaxRetries \in Nat
      BY GitLifecycleAssumption
    <3>2. ASSUME sync' = [sync EXCEPT !.pc = "pull", !.retries = @ + 1], ~(sync.retries \geq MaxRetries)
          PROVE  SyncType' /\ sync'.pc = "pull"
      <4>1. sync.retries + 1 \in 0..MaxRetries
        BY <3>1, <3>2 DEF SyncType
      <4>. QED
        BY <3>2, <4>1 DEF SyncType
    <3>. QED
      BY <1>4, <2>1, <3>2 DEF SyncType
  <2>. QED
    BY <1>5, <2>1, <2>2 DEF SyncType, RestType
<1>10. ASSUME sync.pc = "push", ~Rebasing, Pushed, NEW origin \in {repo.origin, Len(remote')},
              repo' = [repo EXCEPT !.branch = [base |-> Len(remote'), ahead |-> <<>>], !.origin = origin],
              dirty' \subseteq Files, protected' \subseteq Files, sync' = NoSync,
              count' \in [edits : 0..MaxEdits, foreign : 0..MaxForeign, troubles : Nat],
              Made' = Made
       PROVE  TInv'
  <2>1. repo.rebase = None
    BY <1>10 DEF Pushed, Control, StoreType, Line
  <2>. DEFINE next == [base |-> Len(remote'), ahead |-> <<>>]
  <2>2. /\ remote' \in Seq(TreeOf(Made')) /\ remote' # <<>> /\ Len(remote) \leq Len(remote')
        /\ Len(remote') \in 1..Len(remote')
        /\ next \in Line(remote', Made') /\ Line(remote, Made) \subseteq Line(remote', Made')
    BY <1>2, <1>10, <2>1, PushedTypes
  <2>3. next.base # 0 /\ origin \in 1..Len(remote')
    BY <1>10, <2>2 DEF StoreType
  <2>. HIDE DEF next
  <2>4. repo' = [cloned |-> repo.cloned, origin |-> origin, branch |-> next,
                 rebase |-> repo.rebase, done |-> repo.done, index |-> repo.index]
    BY <1>10 DEF StoreType, next
  <2>5. StoreType'
    BY <1>1, <1>10, <2>2, <2>3, <2>4 DEF StoreType
  <2>6. RestType' /\ SyncType'
    BY <1>1, <1>4, <1>10 DEF RestType, SyncType
  <2>7. Control'
    BY <1>1, <1>2, <1>4, <1>10, <2>1, <2>3, <2>4 DEF Control, Rebasing
  <2>. QED
    BY <1>3, <2>5, <2>6, <2>7
<1>11. ASSUME Push PROVE TInv'
  <2>1. protected' = protected \ sync.batch /\ UNCHANGED <<dirty, count>> /\ sync' = NoSync
        /\ sync.pc = "push" /\ ~Rebasing /\ Pushed
        /\ repo' = [repo EXCEPT !.branch = [base |-> Len(remote'), ahead |-> <<>>], !.origin = Len(remote')]
    BY <1>11 DEF Push, SyncSucceeds
  <2>2. Made' = Made
    BY <2>1, MadeSame
  <2>. QED
    BY <1>10, <2>1, <2>2 DEF RestType
<1>12. ASSUME PushFails PROVE TInv'
  <2>1. dirty' = dirty \cup sync.batch /\ UNCHANGED protected /\ sync' = NoSync
        /\ Count("troubles") /\ sync.pc = "push" /\ ~Rebasing
    BY <1>12 DEF PushFails
  <2>2. /\ count' \in [edits : 0..MaxEdits, foreign : 0..MaxForeign, troubles : Nat]
        /\ Made' = Made
    BY <2>1, TroubleType, MadeSame
  <2>3. CASE UNCHANGED <<repo, remote>>
    <3>1. StoreType' /\ RestType' /\ SyncType'
      BY <1>1, <1>4, <2>1, <2>2, <2>3 DEF StoreType, RestType, SyncType, Line
    <3>2. Control'
      BY <1>1, <1>2, <1>4, <2>1, <2>3 DEF Control, Rebasing
    <3>. QED
      BY <1>3, <3>1, <3>2
  <2>4. CASE Pushed /\ repo' = [repo EXCEPT !.branch = [base |-> Len(remote'), ahead |-> <<>>]]
    <3>1. repo' = [repo EXCEPT !.branch = [base |-> Len(remote'), ahead |-> <<>>], !.origin = repo.origin]
      BY <2>4 DEF StoreType
    <3>. QED
      BY <1>10, <2>1, <2>2, <2>4, <3>1 DEF RestType, SyncType
  <2>. QED
    BY <1>12, <2>3, <2>4 DEF PushFails
<1>. QED
  BY <1>6, <1>7, <1>8, <1>9, <1>11, <1>12

(* A step that leaves .git and the files alone.                            *)
LEMMA QuietTypes ==
  ASSUME TInv, UNCHANGED <<remote, repo, work, mode, dirty, protected, sync, count, history>>,
         PollType', poll'.pc # "rebasing", mode = "down" => poll'.pc = "idle"
  PROVE  TInv'
<1>1. Made' = Made
  BY MadeSame
<1>2. StoreType' /\ RestType' /\ SyncType'
  BY <1>1 DEF TInv, StoreType, RestType, SyncType, Line
<1>3. Control'
  BY DEF TInv, Control, Rebasing
<1>. QED
  BY <1>2, <1>3 DEF TInv

LEMMA FetchTypes ==
  ASSUME TInv, UNCHANGED <<remote, work, history>>, Fetched \/ FetchFailed
  PROVE  /\ StoreType'
         /\ count' \in [edits : 0..MaxEdits, foreign : 0..MaxForeign, troubles : Nat]
         /\ count'.edits = count.edits /\ count'.foreign = count.foreign
         /\ repo' = [repo EXCEPT !.origin = repo'.origin]
         /\ \A x \in {"cloned", "branch", "rebase", "done", "index"} : repo'[x] = repo[x]
<1>1. /\ count' \in [edits : 0..MaxEdits, foreign : 0..MaxForeign, troubles : Nat]
      /\ count'.edits = count.edits /\ count'.foreign = count.foreign
  BY TroubleType DEF TInv, RestType, Fetched, FetchFailed
<1>2. Made' = Made
  BY <1>1, MadeSame
<1>3. PICK o \in 1..Len(remote) : repo' = [repo EXCEPT !.origin = o]
  <2>1. CASE Fetched
    BY <2>1 DEF Fetched, TInv, StoreType
  <2>2. CASE FetchFailed
    BY <2>2 DEF FetchFailed, TInv, StoreType
  <2>. QED
    BY <2>1, <2>2
<1>4. repo' = [cloned |-> repo.cloned, origin |-> o, branch |-> repo.branch,
               rebase |-> repo.rebase, done |-> repo.done, index |-> repo.index]
  BY <1>3 DEF TInv, StoreType
<1>5. StoreType'
  BY <1>2, <1>4 DEF TInv, StoreType, Line
<1>. QED
  BY <1>1, <1>3, <1>4, <1>5

LEMMA PollToType ==
  ASSUME PollType, NEW pc \in {"idle", "fetch", "check", "head", "fetch again", "compare", "pull",
                               "rebasing", "startup"}, PollTo(pc)
  PROVE  PollType' /\ poll'.pc = pc
BY DEF PollType, PollTo

LEMMA NoCallType ==
  ASSUME sync' = NoSync, poll' = NoPoll
  PROVE  SyncType' /\ PollType' /\ sync'.pc = "idle" /\ poll'.pc = "idle" /\ sync'.batch = {}
<1>1. 0 \in 0..MaxRetries
  BY GitLifecycleAssumption
<1>. QED
  BY <1>1 DEF SyncType, PollType, NoSync, NoPoll

LEMMA PollEndsType == ASSUME PollEnds PROVE PollType' /\ poll'.pc = "idle"
BY DEF PollType, PollEnds, NoPoll

LEMMA PollTypes ==
  ASSUME TInv, PollBegin \/ PollFetch \/ PollCheck \/ PollHead \/ PollCompare
  PROVE  TInv'
<1>1. PollType' /\ poll'.pc # "rebasing"
  <2>1. PollType
    BY DEF TInv
  <2>2. CASE PollEnds
    BY <2>2, PollEndsType
  <2>3. CASE \E pc \in {"check", "compare", "pull"} : PollTo(pc)
    BY <2>1, <2>3, PollToType
  <2>4. CASE PollBegin
    BY <2>4 DEF PollBegin, PollType
  <2>5. CASE poll' = [poll EXCEPT !.pc = "head", !.spared = Spared, !.seen = repo.origin]
    BY <2>1, <2>5 DEF PollType
  <2>6. CASE poll' = [poll EXCEPT !.pc = "fetch again", !.head = Tip(HEAD)]
    BY <2>1, <2>6 DEF PollType
  <2>. QED
    BY <2>2, <2>3, <2>4, <2>5, <2>6 DEF PollFetch, PollCheck, PollHead, PollCompare
<1>2. mode # "down"
  BY DEF PollBegin, PollFetch, PollCheck, PollHead, PollCompare, TInv, Control
<1>3. CASE PollFetch
  <2>1. UNCHANGED <<remote, work, mode, dirty, protected, sync, history>> /\ (Fetched \/ FetchFailed)
    BY <1>3 DEF PollFetch
  <2>2. /\ StoreType'
        /\ count' \in [edits : 0..MaxEdits, foreign : 0..MaxForeign, troubles : Nat]
        /\ repo'.cloned = repo.cloned /\ repo'.branch = repo.branch /\ repo'.rebase = repo.rebase
        /\ repo'.done = repo.done
    BY <2>1, FetchTypes
  <2>3. RestType' /\ SyncType'
    BY <2>1, <2>2 DEF TInv, RestType, SyncType
  <2>4. Control'
    BY <1>1, <1>2, <2>1, <2>2 DEF TInv, Control, Rebasing
  <2>. QED
    BY <1>1, <2>2, <2>3, <2>4 DEF TInv
<1>4. CASE PollBegin \/ PollCheck \/ PollHead \/ PollCompare
  <2>1. UNCHANGED <<remote, repo, work, mode, dirty, protected, sync, count, history>>
    BY <1>4 DEF PollBegin, PollCheck, PollHead, PollCompare
  <2>. QED
    BY <1>1, <1>2, <2>1, QuietTypes
<1>. QED
  BY <1>3, <1>4

LEMMA UnsentType == TInv => Unsent \subseteq Changes
BY GitLifecycleAssumption DEF TInv, RestType, Unsent, Changes

LEMMA OpenTypes ==
  ASSUME TInv, OpenDiscard \/ OpenClone \/ OpenReuse \/ StartupFetch \/ Crash
  PROVE  TInv'
<1>. USE DEF TInv
<1>0. \A h : Len(h) \in Nat => None \in Line(h, Made)
  BY NoneType
<1>1. ASSUME OpenDiscard PROVE TInv'
  <2>1. repo' = [repo EXCEPT !.cloned = FALSE, !.rebase = None, !.done = 0] /\ work' = Empty
        /\ UNCHANGED <<remote, mode, dirty, protected, sync, poll, count>> /\ mode = "down"
    BY <1>1 DEF OpenDiscard
  <2>2. Made' = Made
    BY <2>1, MadeSame
  <2>3. Empty \in TreeOf(Made) /\ None \in Line(remote, Made)
    BY NoneType DEF Empty, TreeOf, StoreType
  <2>4. StoreType' /\ SyncType' /\ PollType'
    BY <2>1, <2>2, <2>3 DEF StoreType, SyncType, PollType, Line
  <2>5. history' \in [gone : SUBSET Changes, overrun : SUBSET Changes, carried : SUBSET Changes,
                      raced : BOOLEAN, clashed : SUBSET (Tree \X Tree \X Tree)]
    BY <1>1, UnsentType DEF OpenDiscard, RestType
  <2>6. RestType'
    BY <2>1, <2>5 DEF RestType
  <2>7. ~repo'.cloned /\ repo'.rebase = None /\ repo'.done = 0
    BY <2>1 DEF StoreType
  <2>8. Control'
    BY <2>1, <2>7 DEF Control, Rebasing
  <2>. QED
    BY <2>4, <2>6, <2>8
<1>2. ASSUME OpenClone PROVE TInv'
  <2>1. /\ repo' = [cloned |-> TRUE, origin |-> Len(remote), rebase |-> None, done |-> 0,
                    index |-> RemoteTip, branch |-> [base |-> Len(remote), ahead |-> <<>>]]
        /\ work' = RemoteTip /\ mode = "down" /\ mode' = "starting" /\ poll' = [pc |-> "startup"]
        /\ UNCHANGED <<remote, dirty, protected, sync, count, history>>
    BY <1>2 DEF OpenClone, Starts
  <2>2. Made' = Made
    BY <2>1, MadeSame
  <2>3. RemoteTip \in TreeOf(Made) /\ Len(remote) \in 1..Len(remote) /\ None \in Line(remote, Made)
    BY BranchTypes, NoneType DEF StoreType
  <2>4. [base |-> Len(remote), ahead |-> <<>>] \in Line(remote, Made)
    BY <2>3 DEF Line
  <2>5. StoreType'
    BY <2>1, <2>2, <2>3, <2>4 DEF StoreType, Line
  <2>6. SyncType' /\ PollType' /\ RestType'
    BY <2>1 DEF SyncType, PollType, RestType
  <2>7. Control'
    BY <2>1, <2>3 DEF Control, Rebasing
  <2>. QED
    BY <2>5, <2>6, <2>7
<1>3. ASSUME OpenReuse PROVE TInv'
  <2>1. UNCHANGED <<remote, work, dirty, protected, sync, history>> /\ (Fetched \/ FetchFailed)
        /\ mode = "down" /\ repo.cloned /\ mode' = "starting" /\ poll' = [pc |-> "startup"]
    BY <1>3 DEF OpenReuse, Starts
  <2>2. /\ StoreType'
        /\ count' \in [edits : 0..MaxEdits, foreign : 0..MaxForeign, troubles : Nat]
        /\ repo'.cloned = repo.cloned /\ repo'.branch = repo.branch /\ repo'.rebase = repo.rebase
        /\ repo'.done = repo.done
    BY <2>1, FetchTypes
  <2>3. SyncType' /\ PollType' /\ RestType'
    BY <2>1, <2>2 DEF SyncType, PollType, RestType
  <2>4. Control'
    BY <2>1, <2>2 DEF Control, Rebasing
  <2>. QED
    BY <2>2, <2>3, <2>4
<1>4. ASSUME StartupFetch PROVE TInv'
  <2>1. UNCHANGED <<remote, work, dirty, protected, sync, history>> /\ (Fetched \/ FetchFailed)
        /\ poll.pc = "startup" /\ mode' \in {mode, "up"}
    BY <1>4 DEF StartupFetch
  <2>2. /\ StoreType'
        /\ count' \in [edits : 0..MaxEdits, foreign : 0..MaxForeign, troubles : Nat]
        /\ repo'.cloned = repo.cloned /\ repo'.branch = repo.branch /\ repo'.rebase = repo.rebase
        /\ repo'.done = repo.done
    BY <2>1, FetchTypes
  <2>3. PollType' /\ poll'.pc \in {"idle", "pull"}
    BY <1>4, PollToType, PollEndsType DEF StartupFetch
  <2>4. mode # "down"
    BY <2>1 DEF Control
  <2>5. SyncType' /\ RestType'
    BY <2>1, <2>2 DEF SyncType, RestType
  <2>6. Control'
    BY <2>1, <2>2, <2>3, <2>4 DEF Control, Rebasing
  <2>. QED
    BY <2>2, <2>3, <2>5, <2>6
<1>5. ASSUME Crash PROVE TInv'
  <2>1. /\ Count("troubles") /\ mode # "down" /\ mode' = "down" /\ dirty' = {} /\ protected' = {}
        /\ sync' = NoSync /\ poll' = NoPoll /\ UNCHANGED <<remote, repo, work>>
    BY <1>5 DEF Crash
  <2>2. /\ count' \in [edits : 0..MaxEdits, foreign : 0..MaxForeign, troubles : Nat]
        /\ Made' = Made
    BY <2>1, TroubleType, MadeSame
  <2>3. StoreType'
    BY <2>1, <2>2 DEF StoreType, Line
  <2>4. SyncType' /\ PollType' /\ sync'.pc = "idle" /\ poll'.pc = "idle" /\ sync'.batch = {}
    BY <2>1, NoCallType
  <2>5. history' \in [gone : SUBSET Changes, overrun : SUBSET Changes, carried : SUBSET Changes,
                      raced : BOOLEAN, clashed : SUBSET (Tree \X Tree \X Tree)]
    BY <1>5, UnsentType DEF Crash, RestType, Rebasing
  <2>6. RestType'
    BY <2>1, <2>2, <2>5 DEF RestType
  <2>7. Control'
    BY <2>1, <2>4 DEF Control, Rebasing
  <2>. QED
    BY <2>3, <2>4, <2>6, <2>7
<1>. QED
  BY <1>1, <1>2, <1>3, <1>4, <1>5

LEMMA TypeInit == Init => TInv
<1>. SUFFICES ASSUME Init PROVE TInv
  OBVIOUS
<1>1. Empty \in TreeOf(Made) /\ [f \in Files |-> IF f \in Tracked THEN {} ELSE NoFile] \in TreeOf(Made)
  BY DEF Empty, TreeOf
<1>2. Len(remote) = 1 /\ None \in Line(remote, Made)
  BY NoneType DEF Init
<1>3. StoreType
  BY <1>1, <1>2 DEF Init, StoreType
<1>4. SyncType /\ PollType
  BY GitLifecycleAssumption DEF Init, SyncType, PollType, NoSync, NoPoll
<1>5. RestType
  BY GitLifecycleAssumption DEF Init, RestType
<1>6. Control
  BY DEF Init, Control, NoSync, NoPoll, None, Rebasing
<1>. QED
  BY <1>3, <1>4, <1>5, <1>6 DEF TInv

LEMMA TypeStep == TInv /\ [Next]_vars => TInv'
<1>. SUFFICES ASSUME TInv, [Next]_vars PROVE TInv'
  OBVIOUS
<1>1. CASE UNCHANGED vars
  <2>1. Made' = Made
    BY <1>1, MadeSame DEF vars
  <2>2. StoreType' /\ SyncType' /\ PollType' /\ RestType' /\ Control'
    BY <1>1, <2>1 DEF vars, TInv, StoreType, SyncType, PollType, RestType, Control, Line, Rebasing
  <2>. QED
    BY <2>2 DEF TInv
<1>2. CASE Next
  <2>1. CASE \E f \in Files : Edit(f) \/ RemoveFile(f) \/ ForeignPush(f) \/ ForeignRemove(f)
    BY <2>1, UserTypes, ForeignTypes
  <2>2. CASE SyncBegin \/ Sync
    BY <2>2, SyncTypes, PullTypes DEF Sync
  <2>3. CASE PollBegin \/ Poll
    BY <2>3, PollTypes, PullTypes DEF Poll
  <2>4. CASE OpenDiscard \/ OpenClone \/ OpenReuse \/ StartupFetch \/ Crash
    BY <2>4, OpenTypes
  <2>. QED
    BY <1>2, <2>1, <2>2, <2>3, <2>4 DEF Next
<1>. QED
  BY <1>1, <1>2

LEMMA TypeImplied == TInv => TypeOK
<1>. SUFFICES ASSUME TInv PROVE TypeOK
  OBVIOUS
<1>1. Made \subseteq Changes
  BY MadeType DEF TInv
<1>2. TreeOf(Made) \subseteq Tree /\ Tree = TreeOf(Changes)
  BY <1>1 DEF TreeOf, Tree
<1>3. Seq(TreeOf(Made)) \subseteq Seq(Tree)
  BY <1>2, SeqMore
<1>4. Line(remote, Made) \subseteq Branch
  BY <1>3 DEF Line, Branch
<1>. QED
  BY <1>2, <1>3, <1>4 DEF TInv, StoreType, SyncType, PollType, RestType, TypeOK

(* Server, clone, working tree and calls keep their types, and a push is    *)
(* retried max_push_retries times at most (push_with_retry).                *)
THEOREM GitTypeCorrect == Spec => []TypeOK
<1>1. Spec => []TInv
  BY TypeInit, TypeStep, PTL DEF Spec
<1>. QED
  BY <1>1, TypeImplied, PTL

(***************************************************************************)
(* What a tree made from others keeps.                                     *)
(***************************************************************************)
LEMMA GrowsSame == \A t, g : Grows(t, t, g)
BY DEF Grows

LEMMA GrowsOn ==
  ASSUME NEW t, NEW u, NEW v, NEW g, Grows(t, u, g), Grows(u, v, g)
  PROVE  Grows(t, v, g)
BY DEF Grows

LEMMA GrowsMore ==
  ASSUME NEW t, NEW u, NEW g, NEW h, g \subseteq h, Grows(t, u, g)
  PROVE  Grows(t, u, h)
BY DEF Grows

LEMMA GrowsIn ==
  ASSUME NEW t, NEW u, NEW g, Grows(t, u, g)
  PROVE  In(t) \subseteq In(u) \cup g
BY DEF Grows, In

LEMMA InText == \A t, f : f \in Files => Text(t[f]) \subseteq In(t)
BY DEF In

(* git's merge keeps what either side has, but for what the other took     *)
(* away, and makes nothing up.                                             *)
LEMMA MergeKeeps ==
  ASSUME NEW b, NEW m, NEW t, NEW g
  PROVE  /\ Text(b) \subseteq Text(m) \cup g => Text(t) \subseteq Text(Merge(b, m, t)) \cup g
         /\ Text(b) \subseteq Text(t) \cup g => Text(m) \subseteq Text(Merge(b, m, t)) \cup g
         /\ Text(Merge(b, m, t)) \subseteq Text(m) \cup Text(t)
BY DEF Merge, Text

LEMMA PickedKeeps ==
  ASSUME NEW g
  PROVE  /\ Grows(Before, After, g) => Grows(Onto, Picked, g)
         /\ Grows(Before, Onto, g) => Grows(After, Picked, g)
         /\ \A f \in Files : Text(Picked[f]) \subseteq Text(After[f]) \cup Text(Onto[f])
BY MergeKeeps DEF Grows, Picked

LEMMA LineNew ==
  ASSUME NEW r, NEW n
  PROVE  LET b == [base |-> n, ahead |-> <<>>]
         IN  (\A g : LineGrows(r, b, g)) /\ Top(r, b) = r[n]
BY GrowsSame DEF LineGrows, Top, At

LEMMA LineMoreGone ==
  ASSUME NEW r, NEW b, NEW g, NEW h, g \subseteq h, LineGrows(r, b, g)
  PROVE  LineGrows(r, b, h)
BY GrowsMore DEF LineGrows

LEMMA LineStays ==
  ASSUME NEW c, NEW r, NEW s, NEW b \in Line(r, c), b.base # 0, Len(r) \in Nat,
         \A i \in 1..Len(r) : s[i] = r[i]
  PROVE  /\ \A i : At(s, b, i) = At(r, b, i)
         /\ Top(s, b) = Top(r, b)
         /\ \A g : LineGrows(s, b, g) <=> LineGrows(r, b, g)
<1>1. b.base \in 1..Len(r)
  BY DEF Line
<1>2. \A i : At(s, b, i) = At(r, b, i)
  BY <1>1 DEF At
<1>. QED
  BY <1>2 DEF Top, LineGrows

LEMMA AheadReplaced ==
  ASSUME NEW S, NEW T, NEW b \in [base : S, ahead : T], NEW m
  PROVE  [b EXCEPT !.ahead = m] = [base |-> b.base, ahead |-> m]
OBVIOUS

LEMMA LineAppend ==
  ASSUME NEW c, NEW r, NEW b \in Line(r, c), NEW t, NEW n \in [base : {b.base}, ahead : {Append(b.ahead, t)}],
         NEW g, LineGrows(r, b, g), Grows(Top(r, b), t, g)
  PROVE  LineGrows(r, n, g) /\ Top(r, n) = t
<1>. DEFINE len == Len(b.ahead)
<1>1. len \in Nat /\ Len(n.ahead) = len + 1
  BY DEF Line
<1>2. At(r, n, len + 1) = t
  BY DEF At, Line
<1>3. \A i \in 0..len : At(r, n, i) = At(r, b, i)
  BY <1>1 DEF At, Line
<1>4. \A i \in 0..len : Grows(At(r, b, i), t, g)
  <2>1. \A i \in 0..len : Grows(At(r, b, i), At(r, b, len), g)
    BY <1>1 DEF LineGrows
  <2>. QED
    BY <2>1, GrowsOn DEF Top
<1>. HIDE DEF len
<1>5. ASSUME NEW i \in 0..(len + 1), NEW j \in 0..(len + 1), i \leq j
      PROVE  Grows(At(r, n, i), At(r, n, j), g)
  <2>1. CASE j = len + 1 /\ i = len + 1
    BY <1>2, <2>1, GrowsSame
  <2>2. CASE j = len + 1 /\ i # len + 1
    <3>1. i \in 0..len
      BY <1>1, <2>2
    <3>. QED
      BY <1>2, <1>3, <1>4, <2>2, <3>1
  <2>3. CASE j # len + 1
    <3>1. i \in 0..len /\ j \in 0..len
      BY <1>1, <1>5, <2>3
    <3>2. Grows(At(r, b, i), At(r, b, j), g)
      BY <1>5, <3>1 DEF LineGrows, len
    <3>. QED
      BY <1>3, <3>1, <3>2
  <2>. QED
    BY <2>1, <2>2, <2>3
<1>. QED
  BY <1>1, <1>2, <1>5 DEF LineGrows, Top

(***************************************************************************)
(* Steps that change neither the trees of the clone nor those of others.   *)
(***************************************************************************)
SameStore ==
  /\ UNCHANGED <<remote, work, history>>
  /\ repo'.cloned = repo.cloned /\ repo'.branch = repo.branch /\ repo'.rebase = repo.rebase
  /\ repo'.done = repo.done /\ repo'.index = repo.index
  /\ count'.edits = count.edits /\ count'.foreign = count.foreign

LEMMA SameStoreKeeps ==
  ASSUME IInv, SameStore, Clean' \subseteq Clean, Rebasing' => Rebasing,
         Rebasing => Rebasing' \/ history.raced \/ repo.rebase = None,
         mode' # "down" /\ sync'.pc # "commit" =>
           (mode # "down" /\ sync.pc # "commit") \/ repo.index = Top(remote, HEAD),
         sync'.pc \in {"commit", "push", "pull", "rebasing"} =>
           \A f \in sync'.batch \ dirty' : repo.index[f] = work[f]
  PROVE  GInv'
<1>. USE DEF SameStore
<1>1. HEAD' = HEAD /\ RemoteTip' = RemoteTip
  BY DEF HEAD, RemoteTip, Last
<1>2. \A b : Tip(b)' = Tip(b)
  BY DEF Tip, Last
<1>3. Tip(repo.branch)' = Tip(repo.branch) /\ Tip(HEAD)' = Tip(HEAD)
  BY <1>1 DEF Tip, Last
<1>4. RemoteGrows' /\ BranchesGrow' /\ FilesGrow'
  BY <1>1 DEF IInv, GInv, RemoteGrows, BranchesGrow, FilesGrow
<1>5. RebaseGrows'
  BY <1>1 DEF IInv, GInv, RebaseGrows
<1>6. IndexIsHead'
  BY <1>1 DEF IInv, GInv, IndexIsHead
<1>7. StagedIsWork'
  BY DEF IInv, GInv, StagedIsWork
<1>8. CleanIsSettled'
  BY <1>1 DEF IInv, GInv, CleanIsSettled, Settled
<1>9. RebaseIsClean' /\ RebaseIsFinished'
  BY DEF IInv, GInv, RebaseIsClean, RebaseIsFinished
<1>10. EditsKept' /\ RemoteKept'
  BY <1>1, <1>3 DEF IInv, GInv, EditsKept, RemoteKept
<1>. QED
  BY <1>4, <1>5, <1>6, <1>7, <1>8, <1>9, <1>10 DEF GInv

(* With nothing staged, the index is HEAD.                                 *)
LEMMA UnstagedIsHead ==
  ASSUME TInv, repo.cloned, \A f \in Files : ~Staged(f)
  PROVE  repo.index = Top(remote, HEAD)
<1>1. Tip(HEAD) = Top(remote, HEAD) /\ Tip(HEAD) \in TreeOf(Made) /\ repo.index \in TreeOf(Made)
  BY BranchTypes DEF TInv, StoreType
<1>2. \A f \in Files : repo.index[f] = Tip(HEAD)[f]
  BY DEF Staged
<1>. QED
  BY <1>1, <1>2 DEF TreeOf

LEMMA QuietKeeps ==
  ASSUME IInv, SyncBegin \/ PushRejected \/ PollBegin \/ PollFetch \/ PollCheck \/ PollHead
               \/ PollCompare \/ OpenReuse \/ StartupFetch
  PROVE  GInv'
<1>1. CASE SyncBegin
  <2>1. SameStore /\ UNCHANGED <<mode, protected, poll>> /\ sync'.pc = "stage"
        /\ sync'.batch = dirty /\ dirty' = {} /\ sync.pc = "idle"
    BY <1>1 DEF SyncBegin, SameStore
  <2>2. Clean' \subseteq Clean
    BY <2>1 DEF Clean, IInv, TInv, Control
  <2>3. (Rebasing' <=> Rebasing) /\ ~(sync'.pc \in {"commit", "push", "pull", "rebasing"})
    BY <2>1 DEF Rebasing
  <2>. QED
    BY <2>1, <2>2, <2>3, SameStoreKeeps
<1>2. CASE PushRejected
  <2>1. SameStore /\ UNCHANGED <<mode, dirty, poll>> /\ sync.pc = "push" /\ ~Rebasing
        /\ \/ sync' = NoSync /\ protected' = protected \cup sync.batch
           \/ sync' = [sync EXCEPT !.pc = "pull", !.retries = @ + 1] /\ protected' = protected
    BY <1>2 DEF PushRejected, SyncConflict, SyncEnds, SameStore
  <2>2. /\ Clean' \subseteq Clean
        /\ \/ sync'.pc = "idle"
           \/ sync'.pc = "pull" /\ sync'.batch = sync.batch
    <3>1. CASE sync' = NoSync /\ protected' = protected \cup sync.batch
      BY <2>1, <3>1 DEF Clean, NoSync
    <3>2. CASE sync' = [sync EXCEPT !.pc = "pull", !.retries = @ + 1] /\ protected' = protected
      <4>1. sync'.pc = "pull" /\ sync'.batch = sync.batch
        BY <3>2 DEF IInv, TInv, SyncType
      <4>. QED
        BY <2>1, <3>2, <4>1 DEF Clean
    <3>. QED
      BY <2>1, <3>1, <3>2
  <2>3. ~Rebasing'
    BY <2>1, <2>2 DEF Rebasing
  <2>4. sync'.pc \in {"commit", "push", "pull", "rebasing"} =>
          \A f \in sync'.batch \ dirty' : repo.index[f] = work[f]
    BY <2>1, <2>2 DEF IInv, GInv, StagedIsWork
  <2>. QED
    BY <2>1, <2>2, <2>3, <2>4, SameStoreKeeps
<1>3. CASE PollBegin \/ PollFetch \/ PollCheck \/ PollHead \/ PollCompare
  <2>1. SameStore /\ UNCHANGED <<mode, dirty, protected, sync>>
    <3>1. CASE PollFetch
      <4>1. UNCHANGED <<remote, work, history, mode, dirty, protected, sync>> /\ (Fetched \/ FetchFailed)
        BY <3>1 DEF PollFetch
      <4>. QED
        BY <4>1, FetchTypes DEF IInv, SameStore
    <3>. QED
      BY <1>3, <3>1 DEF PollBegin, PollCheck, PollHead, PollCompare, SameStore
  <2>2. poll.pc # "rebasing"
    BY <1>3 DEF PollBegin, PollFetch, PollCheck, PollHead, PollCompare
  <2>3. poll'.pc # "rebasing"
    <3>1. PollType
      BY DEF IInv, TInv
    <3>2. CASE PollEnds
      BY <3>2, PollEndsType
    <3>3. CASE \E pc \in {"check", "compare", "pull"} : PollTo(pc)
      BY <3>1, <3>3, PollToType
    <3>4. CASE PollBegin
      BY <3>4 DEF PollBegin
    <3>5. CASE poll' = [poll EXCEPT !.pc = "head", !.spared = Spared, !.seen = repo.origin]
      BY <3>1, <3>5 DEF PollType
    <3>6. CASE poll' = [poll EXCEPT !.pc = "fetch again", !.head = Tip(HEAD)]
      BY <3>1, <3>6 DEF PollType
    <3>. QED
      BY <1>3, <3>2, <3>3, <3>4, <3>5, <3>6 DEF PollFetch, PollCheck, PollHead, PollCompare
  <2>4. Clean' = Clean /\ (Rebasing' <=> Rebasing)
    BY <2>1, <2>2, <2>3 DEF Clean, Rebasing
  <2>5. sync'.pc \in {"commit", "push", "pull", "rebasing"} =>
          \A f \in sync'.batch \ dirty' : repo.index[f] = work[f]
    BY <2>1 DEF IInv, GInv, StagedIsWork
  <2>. QED
    BY <2>1, <2>4, <2>5, SameStoreKeeps
<1>4. CASE OpenReuse
  <2>1. UNCHANGED <<remote, work, dirty, protected, sync, history>> /\ (Fetched \/ FetchFailed)
        /\ mode = "down" /\ repo.cloned /\ Healthy /\ poll' = [pc |-> "startup"]
    BY <1>4 DEF OpenReuse, Starts
  <2>2. SameStore
    BY <2>1, FetchTypes DEF IInv, SameStore
  <2>3. Clean' = Clean /\ ~Rebasing /\ ~Rebasing' /\ sync'.pc = "idle"
    BY <2>1 DEF Clean, IInv, TInv, Control, Rebasing
  <2>4. repo.index = Top(remote, HEAD)
    BY <2>1, UnstagedIsHead DEF Healthy, Unclean, IInv
  <2>. QED
    BY <2>2, <2>3, <2>4, SameStoreKeeps
<1>5. CASE StartupFetch
  <2>1. UNCHANGED <<remote, work, dirty, protected, sync, history>> /\ (Fetched \/ FetchFailed)
        /\ poll.pc = "startup"
    BY <1>5 DEF StartupFetch
  <2>2. SameStore
    BY <2>1, FetchTypes DEF IInv, SameStore
  <2>3. poll'.pc # "rebasing"
    BY <1>5, PollToType, PollEndsType DEF StartupFetch, IInv, TInv
  <2>4. Clean' = Clean /\ (Rebasing' <=> Rebasing) /\ mode # "down"
    BY <2>1, <2>3 DEF Clean, Rebasing, IInv, TInv, Control
  <2>5. sync'.pc \in {"commit", "push", "pull", "rebasing"} =>
          \A f \in sync'.batch \ dirty' : repo.index[f] = work[f]
    BY <2>1 DEF IInv, GInv, StagedIsWork
  <2>. QED
    BY <2>1, <2>2, <2>4, <2>5, SameStoreKeeps
<1>. QED
  BY <1>1, <1>2, <1>3, <1>4, <1>5

(***************************************************************************)
(* Users and others.                                                       *)
(***************************************************************************)
LEMMA CountEdit ==
  ASSUME RestType, Count("edits")
  PROVE  count'.edits = count.edits + 1 /\ count'.foreign = count.foreign /\ count.edits \in Nat
<1>1. count \in [edits : 0..MaxEdits, foreign : 0..MaxForeign, troubles : Nat]
  BY DEF RestType
<1>2. count' = [count EXCEPT !["edits"] = @ + 1]
  BY DEF Count
<1>. QED
  BY <1>1, <1>2, GitLifecycleAssumption

LEMMA UserKeeps ==
  ASSUME IInv, NEW f \in Files, Edit(f) \/ RemoveFile(f)
  PROVE  GInv'
<1>1. /\ UNCHANGED <<remote, repo, mode, sync, poll>>
      /\ dirty' = dirty \cup {f} /\ protected' = protected \cup {f}
  BY DEF Edit, RemoveFile, Touched
<1>2. work \in TreeOf(Made) /\ history \in [gone : SUBSET Changes, overrun : SUBSET Changes,
        carried : SUBSET Changes, raced : BOOLEAN, clashed : SUBSET (Tree \X Tree \X Tree)]
  BY DEF IInv, TInv, StoreType, RestType
<1>3. /\ history.gone \subseteq history'.gone /\ history'.overrun = history.overrun
      /\ history'.carried = history.carried /\ history'.raced = (history.raced \/ Rebasing)
      /\ \A h \in Files \ {f} : work'[h] = work[h]
      /\ Text(work[f]) \subseteq Text(work'[f]) \cup history'.gone
      /\ count'.foreign = count.foreign
      /\ 1..count'.edits \subseteq 1..count.edits \cup Text(work'[f])
  <2>1. CASE Edit(f)
    <3>1. work' = [work EXCEPT ![f] = Text(@) \cup {count'.edits}]
          /\ history' = [history EXCEPT !.raced = @ \/ Rebasing] /\ Count("edits")
      BY <2>1 DEF Edit
    <3>2. count'.edits = count.edits + 1 /\ count'.foreign = count.foreign /\ count.edits \in Nat
      BY <3>1, CountEdit DEF IInv, TInv
    <3>3. work'[f] = Text(work[f]) \cup {count'.edits} /\ \A h \in Files \ {f} : work'[h] = work[h]
      BY <1>2, <3>1 DEF TreeOf
    <3>4. Text(work'[f]) = Text(work[f]) \cup {count'.edits}
      BY <3>2, <3>3 DEF Text, NoFile
    <3>5. history'.gone = history.gone /\ history'.overrun = history.overrun
          /\ history'.carried = history.carried /\ history'.raced = (history.raced \/ Rebasing)
      BY <1>2, <3>1
    <3>6. 1..count'.edits \subseteq 1..count.edits \cup Text(work'[f])
      BY <3>2, <3>4
    <3>7. Text(work[f]) \subseteq Text(work'[f]) \cup history'.gone
      BY <3>4
    <3>. QED
      BY <3>2, <3>3, <3>5, <3>6, <3>7
  <2>2. CASE RemoveFile(f)
    <3>1. work' = [work EXCEPT ![f] = NoFile] /\ work[f] # NoFile /\ Count("troubles")
          /\ history' = [history EXCEPT !.gone = @ \cup work[f], !.raced = @ \/ Rebasing]
      BY <2>2 DEF RemoveFile
    <3>2. count'.edits = count.edits /\ count'.foreign = count.foreign
      BY <3>1, TroubleType DEF IInv, TInv
    <3>3. \A h \in Files \ {f} : work'[h] = work[h]
      BY <1>2, <3>1 DEF TreeOf
    <3>4. history'.gone = history.gone \cup work[f] /\ history'.overrun = history.overrun
          /\ history'.carried = history.carried /\ history'.raced = (history.raced \/ Rebasing)
      BY <1>2, <3>1
    <3>. QED
      BY <3>2, <3>3, <3>4 DEF Text
  <2>. QED
    BY <2>1, <2>2
<1>4. HEAD' = HEAD /\ RemoteTip' = RemoteTip /\ Tip(repo.branch)' = Tip(repo.branch)
      /\ Tip(HEAD)' = Tip(HEAD) /\ (Rebasing' <=> Rebasing)
  BY <1>1 DEF HEAD, RemoteTip, Tip, Last, Rebasing
<1>5. RemoteGrows' /\ BranchesGrow'
  BY <1>1, <1>3, GrowsMore, LineMoreGone DEF IInv, GInv, RemoteGrows, BranchesGrow
<1>6. FilesGrow'
  <2>1. SUFFICES ASSUME repo.cloned
                 PROVE  /\ Grows(Top(remote, HEAD), repo.index, history'.gone)
                        /\ Grows(repo.index, work', history'.gone)
    BY <1>1, <1>4 DEF FilesGrow
  <2>2. Grows(Top(remote, HEAD), repo.index, history.gone) /\ Grows(repo.index, work, history.gone)
    BY <2>1 DEF IInv, GInv, FilesGrow
  <2>3. Grows(work, work', history'.gone)
    BY <1>3 DEF Grows
  <2>. QED
    BY <1>3, <2>2, <2>3, GrowsMore, GrowsOn
<1>7. RebaseGrows'
  <2>1. ASSUME Rebasing
        PROVE  /\ Grows(At(remote, repo.branch, repo.done), Top(remote, repo.rebase), history'.gone)
               /\ \A h \in Files :
                    Text(Top(remote, repo.rebase)[h]) \subseteq
                      Text(Top(remote, repo.branch)[h]) \cup Text(RemoteTip[h]) \cup history'.gone
    BY <1>3, <2>1, GrowsMore DEF IInv, GInv, RebaseGrows
  <2>. QED
    BY <1>1, <1>4, <2>1 DEF RebaseGrows
<1>8. IndexIsHead'
  BY <1>1, <1>4 DEF IInv, GInv, IndexIsHead
<1>9. StagedIsWork'
  <2>1. sync.batch \subseteq Files
    BY DEF IInv, TInv, SyncType
  <2>. QED
    BY <1>1, <1>3, <2>1 DEF IInv, GInv, StagedIsWork
<1>10. CleanIsSettled'
  <2>1. Clean' \subseteq Clean /\ f \notin Clean'
    BY <1>1 DEF Clean
  <2>2. ASSUME NEW t, NEW u, Settled(t), \A h \in Files \ {f} : u[h] = t[h] PROVE Settled(u)'
    <3>1. SUFFICES ASSUME NEW h \in Clean'
                   PROVE  Text(u[h]) \cap Edits \subseteq In(RemoteTip)' \cup history'.gone \cup history'.carried
      BY <1>1 DEF Settled
    <3>2. In(RemoteTip)' = In(RemoteTip) /\ h \in Clean /\ h # f /\ h \in Files
      BY <1>4, <2>1 DEF In, Clean
    <3>. QED
      BY <1>3, <2>2, <3>2 DEF Settled
  <2>3. Settled(work)' /\ (repo.cloned => Settled(Top(remote, repo.branch))')
    BY <1>1, <1>3, <2>2 DEF IInv, GInv, CleanIsSettled
  <2>. QED
    BY <1>1, <2>3 DEF CleanIsSettled
<1>11. RebaseIsClean' /\ RebaseIsFinished'
  BY <1>1, <1>3, <1>4 DEF IInv, GInv, RebaseIsClean, RebaseIsFinished
<1>12. RemoteKept'
  BY <1>1, <1>3, <1>4 DEF IInv, GInv, RemoteKept
<1>13. EditsKept'
  <2>1. In(work) \subseteq In(work') \cup history'.gone
    <3>1. Grows(work, work', history'.gone)
      BY <1>3 DEF Grows
    <3>. QED
      BY <3>1, GrowsIn
  <2>2. Text(work'[f]) \subseteq In(work')
    BY InText
  <2>3. EditsKept
    BY DEF IInv, GInv
  <2>4. In(RemoteTip)' = In(RemoteTip) /\ In(work)' = In(work')
        /\ In(Tip(repo.branch))' = In(Tip(repo.branch)) /\ In(Tip(HEAD))' = In(Tip(HEAD))
    BY <1>4 DEF In
  <2>. QED
    BY <1>1, <1>3, <2>1, <2>2, <2>3, <2>4 DEF EditsKept
<1>. QED
  BY <1>5, <1>6, <1>7, <1>8, <1>9, <1>10, <1>11, <1>12, <1>13 DEF GInv

LEMMA ForeignKeeps ==
  ASSUME IInv, NEW f \in Files, ForeignPush(f) \/ ForeignRemove(f)
  PROVE  GInv'
<1>1. UNCHANGED <<repo, work, mode, dirty, protected, sync, poll>>
  BY DEF ForeignPush, ForeignRemove
<1>2. Len(remote') = Len(remote) + 1 /\ (\A i \in 1..Len(remote) : remote'[i] = remote[i]) /\ TInv'
  BY ForeignTypes DEF IInv
<1>3. Len(remote) \in Nat \ {0} /\ RemoteTip \in TreeOf(Made) /\ RemoteTip = remote[Len(remote)]
      /\ RemoteTip' = remote'[Len(remote) + 1]
  BY <1>2, BranchTypes DEF IInv, RemoteTip, Last
<1>4. /\ history.gone \subseteq history'.gone /\ history'.overrun = history.overrun
      /\ history'.carried = history.carried /\ history'.raced = history.raced
      /\ count'.edits = count.edits
      /\ Grows(RemoteTip, RemoteTip', history'.gone)
      /\ (MaxEdits + 1)..(MaxEdits + count'.foreign) \subseteq
           (MaxEdits + 1)..(MaxEdits + count.foreign) \cup In(RemoteTip')
  <2>0. history \in [gone : SUBSET Changes, overrun : SUBSET Changes, carried : SUBSET Changes,
                     raced : BOOLEAN, clashed : SUBSET (Tree \X Tree \X Tree)]
    BY DEF IInv, TInv, RestType
  <2>1. CASE ForeignPush(f)
    <3>1. remote' = Append(remote, [RemoteTip EXCEPT ![f] = Text(@) \cup {MaxEdits + count'.foreign}])
          /\ Count("foreign") /\ history' = history
      BY <2>1 DEF ForeignPush
    <3>2. count'.edits = count.edits /\ count'.foreign = count.foreign + 1 /\ count.foreign \in Nat
          /\ MaxEdits \in Nat
      BY <3>1, GitLifecycleAssumption DEF Count, IInv, TInv, RestType
    <3>3. RemoteTip' = [RemoteTip EXCEPT ![f] = Text(@) \cup {MaxEdits + count'.foreign}]
      BY <1>2, <1>3, <3>1
    <3>4. Text(RemoteTip'[f]) = Text(RemoteTip[f]) \cup {MaxEdits + count'.foreign}
          /\ \A h \in Files \ {f} : RemoteTip'[h] = RemoteTip[h]
      BY <1>3, <3>2, <3>3 DEF TreeOf, Text, NoFile
    <3>5. Grows(RemoteTip, RemoteTip', history'.gone)
      BY <3>4 DEF Grows
    <3>6. MaxEdits + count'.foreign \in In(RemoteTip')
      BY <3>4, InText
    <3>. QED
      BY <3>1, <3>2, <3>5, <3>6
  <2>2. CASE ForeignRemove(f)
    <3>1. remote' = Append(remote, [RemoteTip EXCEPT ![f] = NoFile])
          /\ Count("troubles") /\ history' = [history EXCEPT !.gone = @ \cup RemoteTip[f]]
      BY <2>2 DEF ForeignRemove
    <3>2. count'.edits = count.edits /\ count'.foreign = count.foreign
      BY <3>1, TroubleType DEF IInv, TInv
    <3>3. RemoteTip' = [RemoteTip EXCEPT ![f] = NoFile]
      BY <1>2, <1>3, <3>1
    <3>4. \A h \in Files \ {f} : RemoteTip'[h] = RemoteTip[h]
      BY <1>3, <3>3 DEF TreeOf
    <3>5. history'.gone = history.gone \cup RemoteTip[f] /\ history'.overrun = history.overrun
          /\ history'.carried = history.carried /\ history'.raced = history.raced
      BY <2>0, <3>1
    <3>6. Grows(RemoteTip, RemoteTip', history'.gone)
      BY <3>4, <3>5 DEF Grows, Text
    <3>. QED
      BY <3>2, <3>5, <3>6
  <2>. QED
    BY <2>1, <2>2
<1>5. RemoteGrows'
  <2>1. SUFFICES ASSUME NEW i \in 1..Len(remote'), NEW j \in 1..Len(remote'), i \leq j
                 PROVE  Grows(remote'[i], remote'[j], history'.gone)
    BY DEF RemoteGrows
  <2>2. \A k \in 1..Len(remote) : Grows(remote[k], RemoteTip, history'.gone)
    BY <1>3, <1>4, GrowsMore DEF IInv, GInv, RemoteGrows
  <2>3. CASE j \in 1..Len(remote)
    <3>1. i \in 1..Len(remote)
      BY <1>3, <2>1, <2>3
    <3>. QED
      BY <1>2, <1>4, <2>1, <2>3, <3>1, GrowsMore DEF IInv, GInv, RemoteGrows
  <2>4. CASE j = Len(remote) + 1 /\ i \in 1..Len(remote)
    BY <1>2, <1>3, <1>4, <2>2, <2>4, GrowsOn
  <2>5. CASE j = Len(remote) + 1 /\ i = j
    BY <2>5, GrowsSame
  <2>. QED
    BY <1>2, <1>3, <2>1, <2>3, <2>4, <2>5
<1>6. HEAD' = HEAD /\ (Rebasing' <=> Rebasing)
  BY <1>1 DEF HEAD, Rebasing
<1>7. \A b \in {repo.branch, repo.rebase, HEAD} : b.base # 0 =>
        /\ \A i : At(remote', b, i) = At(remote, b, i)
        /\ Top(remote', b) = Top(remote, b)
        /\ \A g : LineGrows(remote', b, g) <=> LineGrows(remote, b, g)
  <2>1. \A b \in {repo.branch, repo.rebase, HEAD} : b \in Line(remote, Made)
    BY DEF IInv, TInv, StoreType, HEAD
  <2>. QED
    BY <1>2, <1>3, <2>1, LineStays
<1>8. (repo.cloned => repo.branch.base # 0 /\ HEAD.base # 0)
      /\ (repo.rebase # None => repo.rebase.base # 0 /\ repo.cloned)
  BY DEF IInv, TInv, Control, HEAD
<1>9. BranchesGrow'
  BY <1>1, <1>4, <1>7, <1>8, LineMoreGone DEF IInv, GInv, BranchesGrow
<1>10. FilesGrow'
  BY <1>1, <1>4, <1>6, <1>7, <1>8, GrowsMore DEF IInv, GInv, FilesGrow
<1>11. RebaseGrows'
  <2>1. ASSUME Rebasing
        PROVE  /\ Grows(At(remote', repo.branch, repo.done), Top(remote', repo.rebase), history'.gone)
               /\ \A h \in Files :
                    Text(Top(remote', repo.rebase)[h]) \subseteq
                      Text(Top(remote', repo.branch)[h]) \cup Text(RemoteTip'[h]) \cup history'.gone
    <3>1. repo.rebase # None
      BY <2>1 DEF IInv, TInv, Control
    <3>2. /\ Grows(At(remote, repo.branch, repo.done), Top(remote, repo.rebase), history.gone)
          /\ \A h \in Files :
               Text(Top(remote, repo.rebase)[h]) \subseteq
                 Text(Top(remote, repo.branch)[h]) \cup Text(RemoteTip[h]) \cup history.gone
      BY <2>1 DEF IInv, GInv, RebaseGrows
    <3>3. \A h \in Files : Text(RemoteTip[h]) \subseteq Text(RemoteTip'[h]) \cup history'.gone
      BY <1>4 DEF Grows
    <3>. QED
      BY <1>4, <1>7, <1>8, <3>1, <3>2, <3>3, GrowsMore
  <2>. QED
    BY <1>1, <1>6, <2>1 DEF RebaseGrows
<1>12. IndexIsHead'
  BY <1>1, <1>6, <1>7, <1>8 DEF IInv, GInv, TInv, Control, IndexIsHead
<1>13. StagedIsWork' /\ RebaseIsClean' /\ RebaseIsFinished'
  BY <1>1, <1>4, <1>6 DEF IInv, GInv, StagedIsWork, RebaseIsClean, RebaseIsFinished
<1>14. In(RemoteTip) \subseteq In(RemoteTip') \cup history'.gone
  BY <1>4, GrowsIn
<1>15. CleanIsSettled'
  <2>1. ASSUME NEW t, Settled(t) PROVE Settled(t)'
    BY <1>1, <1>4, <1>14, <2>1 DEF Settled, Clean, In
  <2>. QED
    BY <1>1, <1>7, <1>8, <2>1 DEF IInv, GInv, CleanIsSettled, Settled, Clean
<1>16. RemoteKept'
  BY <1>4, <1>14 DEF IInv, GInv, RemoteKept
<1>17. EditsKept'
  <2>1. repo.cloned => In(Tip(repo.branch))' = In(Tip(repo.branch)) /\ In(Tip(HEAD))' = In(Tip(HEAD))
    <3>1. SUFFICES ASSUME repo.cloned
                   PROVE  Tip(repo.branch)' = Tip(repo.branch) /\ Tip(HEAD)' = Tip(HEAD)
      BY DEF In
    <3>2. Tip(repo.branch) = Top(remote, repo.branch) /\ Tip(HEAD) = Top(remote, HEAD)
      BY <3>1, BranchTypes DEF IInv
    <3>3. Tip(repo.branch)' = Top(remote', repo.branch) /\ Tip(HEAD)' = Top(remote', HEAD)
      <4>1. repo.branch.ahead \in Seq(TreeOf(Made)) /\ HEAD.ahead \in Seq(TreeOf(Made))
        BY DEF IInv, TInv, StoreType, HEAD, Line
      <4>. QED
        BY <1>1, <1>6, <4>1 DEF Tip, Top, At, Last
    <3>. QED
      BY <1>7, <1>8, <3>1, <3>2, <3>3
  <2>2. In(work)' = In(work)
    BY <1>1 DEF In
  <2>. QED
    BY <1>1, <1>4, <1>14, <2>1, <2>2 DEF IInv, GInv, EditsKept
<1>. QED
  BY <1>5, <1>9, <1>10, <1>11, <1>12, <1>13, <1>15, <1>16, <1>17 DEF GInv

(***************************************************************************)
(* The sync: git add, git commit, git push.                                *)
(***************************************************************************)
LEMMA SettledOn ==
  ASSUME NEW t, NEW u, Grows(t, u, history.gone), Settled(u)
  PROVE  Settled(t)
BY DEF Grows, Settled, Clean

LEMMA StageKeeps == ASSUME IInv, Stage PROVE GInv'
<1>1. sync.pc = "stage" /\ ~Rebasing /\ UNCHANGED <<remote, work, mode, poll, history>>
  BY DEF Stage, SyncError, SyncEnds
<1>2. mode # "down" /\ repo.cloned
  BY <1>1 DEF IInv, TInv, Control
<1>3. ASSUME UNCHANGED <<repo, count>>, SyncError PROVE GInv'
  <2>1. SameStore /\ Clean' \subseteq Clean /\ sync'.pc = "idle"
    BY <1>1, <1>3 DEF SameStore, SyncError, SyncEnds, Clean, NoSync
  <2>2. ~Rebasing'
    BY <1>1, <2>1 DEF Rebasing
  <2>. QED
    BY <1>1, <1>2, <2>1, <2>2, SameStoreKeeps
<1>. DEFINE index == [f \in Files |-> IF f \in sync.batch THEN work[f] ELSE repo.index[f]]
<1>4. ASSUME repo' = [repo EXCEPT !.index = index], sync' = [sync EXCEPT !.pc = "commit"],
             UNCHANGED <<remote, work, mode, dirty, protected, poll, count, history>>
      PROVE  GInv'
  <2>1. repo'.cloned = repo.cloned /\ repo'.branch = repo.branch /\ repo'.rebase = repo.rebase
        /\ repo'.done = repo.done /\ repo'.index = index
    BY <1>4 DEF IInv, TInv, StoreType
  <2>2. sync'.pc = "commit" /\ sync'.batch = sync.batch /\ sync.batch \subseteq Files
    BY <1>4 DEF IInv, TInv, SyncType
  <2>3. ~Rebasing' /\ Clean' = Clean
    BY <1>1, <1>4, <2>2 DEF Rebasing, Clean
  <2>4. HEAD' = HEAD /\ RemoteTip' = RemoteTip /\ Tip(repo.branch)' = Tip(repo.branch)
        /\ Tip(HEAD)' = Tip(HEAD)
    BY <1>4, <2>1 DEF HEAD, RemoteTip, Tip, Last
  <2>5. RemoteGrows' /\ BranchesGrow'
    BY <1>4, <2>1 DEF IInv, GInv, RemoteGrows, BranchesGrow
  <2>6. FilesGrow'
    <3>1. Grows(Top(remote, HEAD), repo.index, history.gone) /\ Grows(repo.index, work, history.gone)
      BY <1>2 DEF IInv, GInv, FilesGrow
    <3>2. Grows(repo.index, index, history.gone) /\ Grows(index, work, history.gone)
      BY <3>1 DEF Grows
    <3>. QED
      BY <1>4, <2>1, <2>4, <3>1, <3>2, GrowsOn DEF FilesGrow
  <2>7. RebaseGrows' /\ IndexIsHead' /\ RebaseIsClean'
    BY <2>2, <2>3 DEF RebaseGrows, IndexIsHead, RebaseIsClean
  <2>8. StagedIsWork'
    BY <1>4, <2>1, <2>2 DEF StagedIsWork
  <2>9. CleanIsSettled'
    BY <1>4, <2>1, <2>3, <2>4 DEF IInv, GInv, CleanIsSettled, Settled
  <2>10. RebaseIsFinished' /\ EditsKept' /\ RemoteKept'
    BY <1>1, <1>4, <2>1, <2>4 DEF IInv, GInv, RebaseIsFinished, EditsKept, RemoteKept
  <2>. QED
    BY <2>5, <2>6, <2>7, <2>8, <2>9, <2>10 DEF GInv
<1>. QED
  BY <1>3, <1>4 DEF Stage

LEMMA CommitKeeps == ASSUME IInv, Commit PROVE GInv'
<1>1. sync.pc = "commit" /\ ~Rebasing /\ UNCHANGED <<remote, work, mode, poll, history, count, protected>>
  BY DEF Commit, SyncError, SyncEnds
<1>2. mode # "down" /\ repo.cloned
  BY <1>1 DEF IInv, TInv, Control
<1>3. ASSUME sync' = [sync EXCEPT !.pc = "push"]
      PROVE  sync'.pc = "push" /\ sync'.batch = sync.batch
  BY <1>3 DEF IInv, TInv, SyncType
<1>4. CASE \A f \in Files : ~Staged(f)
  <2>1. /\ SameStore
        /\ \/ SyncError
           \/ sync' = [sync EXCEPT !.pc = "push"] /\ UNCHANGED dirty
    BY <1>1, <1>4 DEF Commit, SameStore
  <2>2. /\ Clean' \subseteq Clean
        /\ \/ sync'.pc = "idle"
           \/ sync'.pc = "push" /\ sync'.batch = sync.batch /\ dirty' = dirty
    <3>1. CASE SyncError
      BY <1>1, <3>1 DEF SyncError, SyncEnds, Clean, NoSync
    <3>2. CASE sync' = [sync EXCEPT !.pc = "push"] /\ UNCHANGED dirty
      BY <1>1, <1>3, <3>2 DEF Clean
    <3>. QED
      BY <2>1, <3>1, <3>2
  <2>3. ~Rebasing'
    BY <1>1, <2>2 DEF Rebasing
  <2>4. repo.index = Top(remote, HEAD)
    BY <1>2, <1>4, UnstagedIsHead DEF IInv
  <2>5. sync'.pc \in {"commit", "push", "pull", "rebasing"} =>
          \A f \in sync'.batch \ dirty' : repo.index[f] = work[f]
    BY <1>1, <2>2 DEF IInv, GInv, StagedIsWork
  <2>. QED
    BY <1>1, <2>1, <2>2, <2>3, <2>4, <2>5, SameStoreKeeps
<1>5. CASE \E f \in Files : Staged(f)
  <2>1. /\ sync' = [sync EXCEPT !.pc = "push"] /\ dirty' = dirty
        /\ IF repo.rebase # None
           THEN repo' = [repo EXCEPT !.rebase = [repo.rebase EXCEPT !.ahead = Append(@, repo.index)]]
           ELSE repo' = [repo EXCEPT !.branch = [repo.branch EXCEPT !.ahead = Append(@, repo.index)]]
    BY <1>5 DEF Commit
  <2>2. sync'.pc = "push" /\ sync'.batch = sync.batch /\ Clean' = Clean /\ ~Rebasing'
    BY <1>1, <1>3, <2>1 DEF Clean, Rebasing
  <2>. DEFINE n == [base |-> HEAD.base, ahead |-> Append(HEAD.ahead, repo.index)]
  <2>3. HEAD \in Line(remote, Made) /\ HEAD.base # 0 /\ n # None
    BY <1>2, BranchTypes DEF IInv, None
  <2>4. [HEAD EXCEPT !.ahead = Append(@, repo.index)] = n
    <3>1. \E S, T : HEAD \in [base : S, ahead : T]
      BY <2>3 DEF Line
    <3>. QED
      BY <3>1, AheadReplaced
  <2>5. LineGrows(remote, HEAD, history.gone)
    BY <1>2 DEF IInv, GInv, BranchesGrow, HEAD
  <2>6. Grows(Top(remote, HEAD), repo.index, history.gone) /\ Grows(repo.index, work, history.gone)
    BY <1>2 DEF IInv, GInv, FilesGrow
  <2>7. LineGrows(remote, n, history.gone) /\ Top(remote, n) = repo.index
    <3>1. n \in [base : {HEAD.base}, ahead : {Append(HEAD.ahead, repo.index)}]
      OBVIOUS
    <3>. HIDE DEF n
    <3>. QED
      BY <2>3, <2>5, <2>6, <3>1, LineAppend
  <2>. HIDE DEF n
  <2>8. /\ repo'.cloned = repo.cloned /\ repo'.done = repo.done /\ repo'.index = repo.index
        /\ \/ repo.rebase # None /\ repo'.rebase = n /\ repo'.branch = repo.branch
           \/ repo.rebase = None /\ repo'.rebase = None /\ repo'.branch = n
    BY <2>1, <2>4 DEF IInv, TInv, StoreType, HEAD
  <2>9. HEAD' = n /\ RemoteTip' = RemoteTip
    BY <1>1, <2>3, <2>8 DEF HEAD, RemoteTip, Last
  <2>10. RemoteGrows' /\ RebaseGrows' /\ RebaseIsClean'
    BY <1>1, <2>2 DEF IInv, GInv, RemoteGrows, RebaseGrows, RebaseIsClean
  <2>11. BranchesGrow'
    BY <1>1, <1>2, <2>7, <2>8 DEF IInv, GInv, BranchesGrow
  <2>12. FilesGrow'
    BY <1>1, <2>6, <2>7, <2>8, <2>9, GrowsSame DEF FilesGrow
  <2>13. IndexIsHead'
    BY <1>1, <2>7, <2>8, <2>9 DEF IndexIsHead
  <2>14. StagedIsWork'
    BY <1>1, <2>1, <2>2, <2>8 DEF IInv, GInv, StagedIsWork
  <2>15. CleanIsSettled'
    <3>1. Settled(work) /\ Settled(Top(remote, repo.branch))
      BY <1>2 DEF IInv, GInv, CleanIsSettled
    <3>2. Settled(repo.index)
      BY <2>6, <3>1, SettledOn
    <3>3. Settled(work)' /\ Settled(Top(remote, repo'.branch))
      BY <1>1, <2>2, <2>7, <2>8, <2>9, <3>1, <3>2 DEF Settled
    <3>. QED
      BY <1>1, <2>2, <2>9, <3>3 DEF CleanIsSettled, Settled
  <2>16. RebaseIsFinished'
    BY <1>1, <2>8 DEF IInv, GInv, RebaseIsFinished
  <2>17. RemoteKept'
    BY <1>1, <2>9 DEF IInv, GInv, RemoteKept
  <2>18. EditsKept'
    <3>1. Tip(repo.branch) = Top(remote, repo.branch) /\ Tip(HEAD) = Top(remote, HEAD)
      BY <1>2, BranchTypes DEF IInv
    <3>2. Tip(HEAD)' = repo.index
      <4>1. HEAD'.ahead = Append(HEAD.ahead, repo.index) /\ HEAD.ahead \in Seq(TreeOf(Made))
            /\ repo.index \in TreeOf(Made)
        BY <2>3, <2>9 DEF n, Line, IInv, TInv, StoreType
      <4>. QED
        BY <4>1 DEF Tip, Last
    <3>3. In(Tip(HEAD)) \subseteq In(repo.index) \cup history.gone
      BY <2>6, <3>1, GrowsIn
    <3>4. In(Tip(HEAD))' = In(repo.index)
      BY <3>2 DEF In
    <3>5. In(Tip(repo.branch)) \subseteq In(Tip(repo.branch))' \cup In(repo.index) \cup history.gone
      <4>1. CASE repo.rebase # None
        BY <1>1, <2>8, <4>1 DEF In, Tip, Last
      <4>2. CASE repo.rebase = None
        BY <3>3, <4>2 DEF HEAD
      <4>. QED
        BY <4>1, <4>2
    <3>6. In(work)' = In(work) /\ In(RemoteTip)' = In(RemoteTip)
      BY <1>1, <2>9 DEF In
    <3>. QED
      BY <1>1, <1>2, <2>8, <3>3, <3>4, <3>5, <3>6 DEF IInv, GInv, EditsKept
  <2>. QED
    BY <2>10, <2>11, <2>12, <2>13, <2>14, <2>15, <2>16, <2>17, <2>18 DEF GInv
<1>. QED
  BY <1>4, <1>5

LEMMA PushedKeeps ==
  ASSUME IInv, Pushed, ~Rebasing, sync.pc = "push", sync' = NoSync, UNCHANGED <<work, mode, poll, history>>,
         count'.edits = count.edits, count'.foreign = count.foreign,
         repo'.cloned = repo.cloned, repo'.rebase = repo.rebase, repo'.done = repo.done,
         repo'.index = repo.index,
         repo'.branch = [base |-> Len(remote'), ahead |-> <<>>],
         Clean' \subseteq Clean \cup (sync.batch \ dirty)
  PROVE  GInv'
<1>. DEFINE b == repo.branch
            len == Len(remote)
            g == history.gone
<1>1. mode # "down" /\ repo.cloned /\ repo.rebase = None /\ sync'.pc = "idle" /\ b.base = len
  <2>1. mode # "down" /\ repo.cloned
    BY DEF IInv, TInv, Control
  <2>2. sync'.pc = "idle"
    BY DEF NoSync
  <2>3. repo.branch.base = Len(remote)
    BY DEF Pushed
  <2>4. repo.rebase # None => repo.branch.base < Len(remote)
    BY DEF IInv, TInv, Control
  <2>5. Len(remote) \in Nat
    BY DEF IInv, TInv, StoreType
  <2>. QED
    BY <2>1, <2>2, <2>3, <2>4, <2>5
<1>2. HEAD = b /\ HEAD' = repo'.branch /\ ~Rebasing'
  BY <1>1 DEF HEAD, Rebasing
<1>3. Made' = Made
  BY MadeSame
<1>4. /\ len \in Nat \ {0} /\ Len(b.ahead) \in Nat
      /\ Len(remote') = len + Len(b.ahead)
      /\ \A i \in 1..len : remote'[i] = remote[i]
      /\ \A i \in 1..Len(b.ahead) : remote'[len + i] = b.ahead[i]
  BY <1>1, <1>3, PushedTypes DEF IInv
<1>5. \A i \in 0..Len(b.ahead) : remote'[len + i] = At(remote, b, i)
  BY <1>1, <1>4 DEF At
<1>6. /\ RemoteTip = At(remote, b, 0) /\ RemoteTip' = Top(remote, b)
      /\ Top(remote', repo'.branch) = Top(remote, b)
  <2>1. RemoteTip' = remote'[Len(remote')] /\ RemoteTip = remote[len]
    BY DEF RemoteTip, Last
  <2>2. Top(remote', repo'.branch) = remote'[Len(remote')]
    BY LineNew
  <2>3. Len(b.ahead) \in 0..Len(b.ahead) /\ At(remote, b, 0) = remote[len]
    BY <1>1, <1>4 DEF At
  <2>4. remote'[Len(remote')] = At(remote, b, Len(b.ahead))
    BY <1>4, <1>5, <2>3
  <2>. QED
    BY <2>1, <2>2, <2>3, <2>4 DEF Top
<1>7. LineGrows(remote, b, g) /\ RemoteGrows
  BY <1>1 DEF IInv, GInv, BranchesGrow
<1>8. RemoteGrows'
  <2>1. SUFFICES ASSUME NEW i \in 1..Len(remote'), NEW j \in 1..Len(remote'), i \leq j
                 PROVE  Grows(remote'[i], remote'[j], g)
    BY DEF RemoteGrows
  <2>2. \A k \in 1..len : Grows(remote[k], At(remote, b, 0), g)
    BY <1>4, <1>6, <1>7 DEF RemoteGrows, RemoteTip, Last
  <2>3. CASE j \leq len
    BY <1>4, <1>7, <2>1, <2>3 DEF RemoteGrows
  <2>4. CASE i \leq len /\ j > len
    <3>1. j - len \in 0..Len(b.ahead) /\ len + (j - len) = j
      BY <1>4, <2>1, <2>4
    <3>2. remote'[j] = At(remote, b, j - len)
      BY <1>5, <3>1
    <3>3. Grows(At(remote, b, 0), At(remote, b, j - len), g)
      BY <1>4, <1>7, <3>1 DEF LineGrows
    <3>4. i \in 1..len /\ remote'[i] = remote[i]
      BY <1>4, <2>1, <2>4
    <3>5. Grows(remote[i], At(remote, b, 0), g)
      BY <2>2, <3>4
    <3>. QED
      BY <3>2, <3>3, <3>4, <3>5, GrowsOn
  <2>5. CASE i > len
    <3>1. j - len \in 0..Len(b.ahead) /\ len + (j - len) = j
          /\ i - len \in 0..Len(b.ahead) /\ len + (i - len) = i /\ i - len \leq j - len
      <4>1. i \in Nat /\ j \in Nat /\ i \leq j /\ j \leq len + Len(b.ahead) /\ i > len
        BY <1>4, <2>1, <2>5
      <4>2. \A m, n, x, y \in Nat : x \leq y /\ y \leq n + m /\ x > n =>
              /\ y - n \in 0..m /\ n + (y - n) = y
              /\ x - n \in 0..m /\ n + (x - n) = x /\ x - n \leq y - n
        OBVIOUS
      <4>3. len \in Nat /\ Len(b.ahead) \in Nat
        BY <1>4
      <4>. HIDE DEF len, b
      <4>. QED
        BY <4>1, <4>2, <4>3
    <3>2. remote'[j] = At(remote, b, j - len) /\ remote'[i] = At(remote, b, i - len)
      BY <1>5, <3>1
    <3>. QED
      BY <1>7, <3>1, <3>2 DEF LineGrows
  <2>. QED
    BY <1>4, <2>1, <2>3, <2>4, <2>5
<1>9. BranchesGrow'
  BY <1>1, LineNew DEF BranchesGrow
<1>10. FilesGrow' /\ RebaseGrows' /\ IndexIsHead' /\ StagedIsWork' /\ RebaseIsClean'
  <2>1. repo.index = Top(remote, HEAD) /\ Grows(repo.index, work, g)
    BY <1>1 DEF IInv, GInv, FilesGrow, IndexIsHead
  <2>. QED
    BY <1>1, <1>2, <1>6, <2>1, GrowsSame
       DEF FilesGrow, RebaseGrows, IndexIsHead, StagedIsWork, RebaseIsClean
<1>11. RebaseIsFinished'
  BY <1>1 DEF RebaseIsFinished
<1>12. Grows(RemoteTip, RemoteTip', g)
  BY <1>4, <1>6, <1>7 DEF LineGrows, Top
<1>13. In(RemoteTip) \subseteq In(RemoteTip') \cup g
  BY <1>12, GrowsIn
<1>14. CleanIsSettled'
  <2>1. \A f \in Files : Text(RemoteTip'[f]) \subseteq In(RemoteTip')
    BY InText
  <2>2. \A f \in sync.batch \ dirty : work[f] = RemoteTip'[f]
    <3>1. repo.index = Top(remote, HEAD) /\ \A f \in sync.batch \ dirty : repo.index[f] = work[f]
      BY <1>1 DEF IInv, GInv, IndexIsHead, StagedIsWork
    <3>. QED
      BY <1>2, <1>6, <3>1
  <2>3. \A f \in Clean' : Text(work[f]) \cap Edits \subseteq In(RemoteTip') \cup g \cup history.carried
    <3>1. \A f \in Clean : Text(work[f]) \cap Edits \subseteq In(RemoteTip) \cup g \cup history.carried
      BY DEF IInv, GInv, CleanIsSettled, Settled
    <3>2. sync.batch \subseteq Files
      BY DEF IInv, TInv, SyncType
    <3>. QED
      BY <1>13, <2>1, <2>2, <3>1, <3>2
  <2>4. Clean' \subseteq Files
    BY DEF Clean
  <2>5. Settled(work)'
    BY <2>3 DEF Settled, In
  <2>6. Settled(Top(remote, repo.branch))'
    BY <1>6, <2>1, <2>4 DEF Settled, In
  <2>. QED
    BY <2>5, <2>6 DEF CleanIsSettled
<1>15. RemoteKept'
  BY <1>13 DEF IInv, GInv, RemoteKept
<1>16. EditsKept'
  <2>1. Tip(b) = Top(remote, b) /\ Tip(HEAD) = Top(remote, HEAD)
    BY <1>1, BranchTypes DEF IInv
  <2>2. In(Tip(b)) = In(RemoteTip') /\ In(Tip(HEAD)) = In(RemoteTip')
    BY <1>2, <1>6, <2>1 DEF In
  <2>3. In(work)' = In(work) /\ In(RemoteTip)' = In(RemoteTip')
    BY DEF In
  <2>. QED
    BY <1>13, <2>2, <2>3 DEF IInv, GInv, EditsKept
<1>. QED
  BY <1>8, <1>9, <1>10, <1>11, <1>14, <1>15, <1>16 DEF GInv

LEMMA PushKeeps == ASSUME IInv, Push \/ PushFails PROVE GInv'
<1>1. sync.pc = "push" /\ ~Rebasing /\ sync' = NoSync /\ UNCHANGED <<work, mode, poll, history>>
  BY DEF Push, PushFails, SyncSucceeds
<1>2. sync'.batch = {} /\ sync.batch \subseteq Files
  BY <1>1 DEF NoSync, IInv, TInv, SyncType
<1>3. CASE Push
  <2>1. protected' = protected \ sync.batch /\ dirty' = dirty /\ count' = count
        /\ Pushed /\ repo' = [repo EXCEPT !.branch = [base |-> Len(remote'), ahead |-> <<>>],
                                         !.origin = Len(remote')]
    BY <1>3 DEF Push, SyncSucceeds
  <2>2. Clean' \subseteq Clean \cup (sync.batch \ dirty)
    BY <1>2, <2>1 DEF Clean
  <2>3. repo'.cloned = repo.cloned /\ repo'.rebase = repo.rebase /\ repo'.done = repo.done
        /\ repo'.index = repo.index /\ repo'.branch = [base |-> Len(remote'), ahead |-> <<>>]
    BY <2>1 DEF IInv, TInv, StoreType
  <2>. QED
    BY <1>1, <2>1, <2>2, <2>3, PushedKeeps
<1>4. CASE PushFails
  <2>1. dirty' = dirty \cup sync.batch /\ protected' = protected /\ Count("troubles")
        /\ \/ UNCHANGED <<repo, remote>>
           \/ Pushed /\ repo' = [repo EXCEPT !.branch = [base |-> Len(remote'), ahead |-> <<>>]]
    BY <1>4 DEF PushFails
  <2>2. count'.edits = count.edits /\ count'.foreign = count.foreign
    BY <2>1, TroubleType DEF IInv, TInv
  <2>3. Clean' \subseteq Clean
    BY <1>2, <2>1 DEF Clean
  <2>4. CASE UNCHANGED <<repo, remote>>
    <3>1. SameStore /\ ~Rebasing' /\ sync'.pc = "idle"
      BY <1>1, <2>2, <2>4 DEF SameStore, Rebasing, NoSync
    <3>. QED
      BY <1>1, <2>3, <3>1, SameStoreKeeps
  <2>5. CASE Pushed /\ repo' = [repo EXCEPT !.branch = [base |-> Len(remote'), ahead |-> <<>>]]
    <3>1. repo'.cloned = repo.cloned /\ repo'.rebase = repo.rebase /\ repo'.done = repo.done
          /\ repo'.index = repo.index /\ repo'.branch = [base |-> Len(remote'), ahead |-> <<>>]
      BY <2>5 DEF IInv, TInv, StoreType
    <3>. QED
      BY <1>1, <2>2, <2>3, <2>5, <3>1, PushedKeeps
  <2>. QED
    BY <2>1, <2>4, <2>5
<1>. QED
  BY <1>3, <1>4

(***************************************************************************)
(* The pull.                                                               *)
(***************************************************************************)
LEMMA EndsKeep ==
  ASSUME IInv, NEW who \in {"sync", "poll"}, NEW result \in {"ok", "error", "conflict"},
         PullEnds(who, result), Pulls(who) \/ IsRebasing(who)
  PROVE  /\ Clean' \subseteq Clean /\ ~Rebasing' /\ mode # "down" /\ repo.cloned
         /\ sync'.pc # "commit" => sync.pc # "commit"
         /\ sync'.pc \in {"commit", "push", "pull", "rebasing"} =>
              /\ sync.pc \in {"commit", "push", "pull", "rebasing"}
              /\ sync'.batch \ dirty' \subseteq sync.batch \ dirty
<1>1. ~Rebasing' /\ mode # "down" /\ repo.cloned
  BY EndsType DEF IInv
<1>2. CASE who = "sync"
  <2>1. sync.pc \in {"pull", "rebasing"}
    BY <1>2 DEF Pulls, IsRebasing
  <2>2. CASE result = "ok"
    <3>1. sync' = [sync EXCEPT !.pc = "push"] /\ dirty' = dirty /\ protected' = protected
      BY <1>2, <2>2 DEF PullEnds
    <3>2. sync'.pc = "push" /\ sync'.batch = sync.batch
      BY <3>1 DEF IInv, TInv, SyncType
    <3>. QED
      BY <1>1, <2>1, <3>1, <3>2 DEF Clean
  <2>3. CASE result # "ok"
    <3>1. sync' = NoSync
          /\ dirty' = (IF result = "error" THEN dirty \cup sync.batch ELSE dirty)
          /\ protected' = (IF result = "conflict" THEN protected \cup sync.batch ELSE protected)
      BY <1>2, <2>3 DEF PullEnds
    <3>2. sync'.pc = "idle" /\ sync'.batch = {}
      BY <3>1 DEF NoSync
    <3>. QED
      BY <1>1, <2>1, <2>3, <3>1, <3>2 DEF Clean
  <2>. QED
    BY <2>2, <2>3
<1>3. CASE who = "poll"
  <2>1. UNCHANGED <<sync, dirty, protected>>
    BY <1>3 DEF PullEnds
  <2>. QED
    BY <1>1, <2>1 DEF Clean
<1>. QED
  BY <1>2, <1>3

LEMMA PullFailsKeeps == ASSUME IInv, NEW who \in {"sync", "poll"}, PullFails(who) PROVE GInv'
<1>1. PullEnds(who, "error") /\ Pulls(who) /\ UNCHANGED <<remote, work, history>>
      /\ (Count("troubles") \/ UNCHANGED count)
  BY DEF PullFails
<1>2. ~Rebasing
  BY <1>1 DEF Pulls
<1>3. repo' \in {repo, [repo EXCEPT !.origin = Len(remote)]}
  BY PullFailsTypes DEF IInv
<1>4. SameStore
  <2>1. count'.edits = count.edits /\ count'.foreign = count.foreign
    BY <1>1, TroubleType DEF IInv, TInv
  <2>2. repo'.cloned = repo.cloned /\ repo'.branch = repo.branch /\ repo'.rebase = repo.rebase
        /\ repo'.done = repo.done /\ repo'.index = repo.index
    BY <1>3 DEF IInv, TInv, StoreType
  <2>. QED
    BY <1>1, <2>1, <2>2 DEF SameStore
<1>5. /\ Clean' \subseteq Clean /\ ~Rebasing' /\ mode # "down"
      /\ sync'.pc # "commit" => sync.pc # "commit"
      /\ sync'.pc \in {"commit", "push", "pull", "rebasing"} =>
           /\ sync.pc \in {"commit", "push", "pull", "rebasing"}
           /\ sync'.batch \ dirty' \subseteq sync.batch \ dirty
  BY <1>1, EndsKeep
<1>6. sync'.pc \in {"commit", "push", "pull", "rebasing"} =>
        \A f \in sync'.batch \ dirty' : repo.index[f] = work[f]
  BY <1>5 DEF IInv, GInv, StagedIsWork
<1>. QED
  BY <1>2, <1>4, <1>5, <1>6, SameStoreKeeps

LEMMA PullStopsKeeps == ASSUME IInv, NEW who \in {"sync", "poll"}, PullStops(who) PROVE GInv'
<1>1. PullEnds(who, "error") /\ IsRebasing(who) /\ Blocked /\ SameStore
  BY DEF PullStops, Picking, SameStore
<1>2. history.raced
  <2>1. PICK f \in Files : Untracked(f) \/ Unstaged(f)
    BY <1>1 DEF Blocked, Differ
  <2>2. work[f] # repo.index[f]
    BY <2>1 DEF Untracked, Unstaged
  <2>3. Rebasing
    BY <1>1 DEF IsRebasing, Rebasing
  <2>. QED
    BY <2>2, <2>3 DEF IInv, GInv, RebaseIsClean
<1>3. /\ Clean' \subseteq Clean /\ ~Rebasing' /\ mode # "down"
      /\ sync'.pc # "commit" => sync.pc # "commit"
      /\ sync'.pc \in {"commit", "push", "pull", "rebasing"} =>
           /\ sync.pc \in {"commit", "push", "pull", "rebasing"}
           /\ sync'.batch \ dirty' \subseteq sync.batch \ dirty
  BY <1>1, EndsKeep
<1>4. sync'.pc \in {"commit", "push", "pull", "rebasing"} =>
        \A f \in sync'.batch \ dirty' : repo.index[f] = work[f]
  BY <1>3 DEF IInv, GInv, StagedIsWork
<1>. QED
  BY <1>1, <1>2, <1>3, <1>4, SameStoreKeeps

(* With a clean working tree, checking out the remote's tree keeps what is *)
(* not in HEAD.                                                            *)
LEMMA CheckoutKeeps ==
  ASSUME IInv, repo.cloned, ~Unclean, ~Obstructed(RemoteTip), work' = Checkout(RemoteTip)
  PROVE  /\ Grows(RemoteTip, work', history.gone)
         /\ In(work) \subseteq In(work') \cup In(Top(remote, HEAD))
         /\ \A f \in Files : repo.index[f] = work[f] => work'[f] = RemoteTip[f]
         /\ \A f \in Clean : Text(work'[f]) \cap Edits \subseteq
              In(RemoteTip) \cup history.gone \cup history.carried
         /\ (\A f \in Files : ~Untracked(f)) => work' = RemoteTip
<1>1. RemoteTip \in TreeOf(Made) /\ Tip(HEAD) = Top(remote, HEAD) /\ work \in TreeOf(Made)
  BY BranchTypes DEF IInv, TInv, StoreType
<1>2. \A f \in Files : IF Untracked(f) THEN work'[f] = work[f] /\ RemoteTip[f] = NoFile
                       ELSE work'[f] = RemoteTip[f]
  BY DEF Checkout, Obstructed
<1>3. \A f \in Files : ~Untracked(f) => work[f] = Top(remote, HEAD)[f]
  BY <1>1 DEF Unclean, Untracked, Unstaged, Staged
<1>4. Grows(RemoteTip, work', history.gone)
  BY <1>2 DEF Grows, Text
<1>5. In(work) \subseteq In(work') \cup In(Top(remote, HEAD))
  <2>1. \A f \in Files : Text(work[f]) \subseteq Text(work'[f]) \cup Text(Top(remote, HEAD)[f])
    BY <1>2, <1>3
  <2>. QED
    BY <2>1 DEF In
<1>6. \A f \in Files : repo.index[f] = work[f] => work'[f] = RemoteTip[f]
  BY <1>2 DEF Untracked
<1>7. \A f \in Clean : Text(work'[f]) \cap Edits \subseteq
        In(RemoteTip) \cup history.gone \cup history.carried
  <2>1. Settled(work) /\ Clean \subseteq Files
    BY DEF IInv, GInv, CleanIsSettled, Clean
  <2>. QED
    BY <1>2, <2>1, InText DEF Settled
<1>8. (\A f \in Files : ~Untracked(f)) => work' = RemoteTip
  BY <1>1, <1>2 DEF Checkout, TreeOf
<1>. QED
  BY <1>4, <1>5, <1>6, <1>7, <1>8

LEMMA PullForwardsKeeps == ASSUME IInv, NEW who \in {"sync", "poll"}, PullForwards(who) PROVE GInv'
<1>1. PullEnds(who, "ok") /\ Pulls(who) /\ ~Rebasing /\ ~Unclean /\ UNCHANGED <<remote, count, history>>
  BY DEF PullForwards, Pulls
<1>2. /\ Clean' \subseteq Clean /\ ~Rebasing' /\ mode # "down" /\ repo.cloned
      /\ sync'.pc # "commit" => sync.pc # "commit"
      /\ sync'.pc \in {"commit", "push", "pull", "rebasing"} =>
           /\ sync.pc \in {"commit", "push", "pull", "rebasing"}
           /\ sync'.batch \ dirty' \subseteq sync.batch \ dirty
  BY <1>1, EndsKeep
<1>3. CASE HEAD.ahead # <<>>
  <2>1. repo' = [repo EXCEPT !.origin = Len(remote)] /\ work' = work
    BY <1>3 DEF PullForwards
  <2>2. SameStore
    BY <1>1, <2>1 DEF SameStore, IInv, TInv, StoreType
  <2>3. sync'.pc \in {"commit", "push", "pull", "rebasing"} =>
          \A f \in sync'.batch \ dirty' : repo.index[f] = work[f]
    BY <1>2 DEF IInv, GInv, StagedIsWork
  <2>. QED
    BY <1>1, <1>2, <2>2, <2>3, SameStoreKeeps
<1>4. CASE HEAD.ahead = <<>>
  <2>. DEFINE forward == [base |-> Len(remote), ahead |-> <<>>]
              g == history.gone
  <2>1. /\ work' = Checkout(RemoteTip) /\ (HEAD.base < Len(remote) => ~Obstructed(RemoteTip))
        /\ repo' = IF repo.rebase # None
                   THEN [repo EXCEPT !.origin = Len(remote), !.index = RemoteTip, !.rebase = forward]
                   ELSE [repo EXCEPT !.origin = Len(remote), !.index = RemoteTip, !.branch = forward]
    BY <1>4 DEF PullForwards
  <2>2. /\ Len(remote) \in Nat \ {0} /\ RemoteTip = remote[Len(remote)] /\ Tip(HEAD) = Top(remote, HEAD)
        /\ HEAD \in Line(remote, Made) /\ HEAD.base # 0 /\ HEAD.base \in 1..Len(remote)
    <3>1. /\ Len(remote) \in Nat \ {0} /\ RemoteTip = remote[Len(remote)] /\ Tip(HEAD) = Top(remote, HEAD)
          /\ HEAD \in Line(remote, Made) /\ HEAD.base # 0
      BY <1>2, BranchTypes DEF IInv
    <3>. QED
      BY <3>1 DEF Line
  <2>3. Top(remote, HEAD) = remote[HEAD.base] /\ Grows(Top(remote, HEAD), RemoteTip, g)
    BY <1>4, <2>2 DEF Top, At, IInv, GInv, RemoteGrows
  <2>4. ~Obstructed(RemoteTip)
    <3>1. CASE HEAD.base = Len(remote)
      <4>1. \A f \in Files : repo.index[f] = RemoteTip[f]
        BY <1>1, <2>2, <2>3, <3>1 DEF Unclean, Staged
      <4>. QED
        BY <4>1 DEF Obstructed, Untracked
    <3>. QED
      BY <2>1, <2>2, <3>1
  <2>5. /\ Grows(RemoteTip, work', g)
        /\ In(work) \subseteq In(work') \cup In(Top(remote, HEAD))
        /\ \A f \in Files : repo.index[f] = work[f] => work'[f] = RemoteTip[f]
        /\ \A f \in Clean : Text(work'[f]) \cap Edits \subseteq
             In(RemoteTip) \cup g \cup history.carried
    BY <1>1, <1>2, <2>1, <2>4, CheckoutKeeps
  <2>6. (\A h : LineGrows(remote, forward, h)) /\ Top(remote, forward) = RemoteTip /\ forward # None
    BY <2>2, LineNew DEF None
  <2>. HIDE DEF forward
  <2>7. /\ repo'.cloned = repo.cloned /\ repo'.done = repo.done /\ repo'.index = RemoteTip
        /\ \/ repo.rebase # None /\ repo'.rebase = forward /\ repo'.branch = repo.branch
           \/ repo.rebase = None /\ repo'.rebase = None /\ repo'.branch = forward
    BY <2>1 DEF IInv, TInv, StoreType
  <2>8. HEAD' = forward /\ RemoteTip' = RemoteTip
    BY <1>1, <2>6, <2>7 DEF HEAD, RemoteTip, Last
  <2>9. RemoteGrows' /\ RebaseGrows' /\ RebaseIsClean'
    BY <1>1, <1>2 DEF IInv, GInv, RemoteGrows, RebaseGrows, RebaseIsClean
  <2>10. BranchesGrow'
    BY <1>1, <1>2, <2>6, <2>7 DEF IInv, GInv, BranchesGrow
  <2>11. FilesGrow' /\ IndexIsHead'
    BY <1>1, <2>5, <2>6, <2>7, <2>8, GrowsSame DEF FilesGrow, IndexIsHead
  <2>12. StagedIsWork'
    <3>1. sync.batch \subseteq Files
      BY DEF IInv, TInv, SyncType
    <3>. QED
      BY <1>2, <2>5, <2>7, <3>1 DEF IInv, GInv, StagedIsWork
  <2>13. CleanIsSettled'
    <3>1. Settled(work)'
      BY <1>1, <1>2, <2>5, <2>8 DEF Settled, In
    <3>2. Settled(Top(remote, repo.branch))'
      <4>1. Settled(Top(remote, repo.branch)) /\ Clean \subseteq Files
        BY <1>2 DEF IInv, GInv, CleanIsSettled, Clean
      <4>2. Settled(RemoteTip)
        BY <4>1, InText DEF Settled
      <4>3. Settled(Top(remote, repo'.branch))
        BY <2>6, <2>7, <4>1, <4>2
      <4>. QED
        BY <1>1, <1>2, <2>8, <4>3 DEF Settled, In
    <3>. QED
      BY <3>1, <3>2 DEF CleanIsSettled
  <2>14. RebaseIsFinished'
    BY <1>1, <2>7 DEF IInv, GInv, RebaseIsFinished
  <2>15. RemoteKept'
    BY <1>1, <2>8 DEF IInv, GInv, RemoteKept
  <2>16. EditsKept'
    <3>1. In(Top(remote, HEAD)) \subseteq In(RemoteTip) \cup g
      BY <2>3, GrowsIn
    <3>2. In(Tip(HEAD)) = In(Top(remote, HEAD))
      BY <2>2 DEF In
    <3>3. In(RemoteTip)' = In(RemoteTip) /\ In(work)' = In(work')
      BY <2>8 DEF In
    <3>4. In(Tip(repo.branch)) \subseteq In(Tip(repo.branch))' \cup In(RemoteTip) \cup g
      <4>1. CASE repo.rebase # None
        BY <1>1, <2>7, <4>1 DEF In, Tip, Last
      <4>2. CASE repo.rebase = None
        BY <3>1, <3>2, <4>2 DEF HEAD
      <4>. QED
        BY <4>1, <4>2
    <3>. QED
      BY <1>1, <1>2, <2>5, <2>7, <3>1, <3>2, <3>3, <3>4 DEF IInv, GInv, EditsKept
  <2>. QED
    BY <2>9, <2>10, <2>11, <2>12, <2>13, <2>14, <2>15, <2>16 DEF GInv
<1>. QED
  BY <1>3, <1>4

(* A rebase starts at the remote's tree.                                   *)
LEMMA BeginSync ==
  ASSUME IInv, NEW who \in {"sync", "poll"}, PullBegin(who)
  PROVE  /\ Rebasing' /\ Clean' = Clean /\ dirty' = dirty /\ sync'.batch = sync.batch
         /\ sync'.pc \in {"commit", "push", "pull", "rebasing"} =>
              sync.pc \in {"commit", "push", "pull", "rebasing"}
<1>1. UNCHANGED <<dirty, protected>>
  BY DEF PullBegin
<1>2. CASE who = "sync"
  <2>1. sync' = [sync EXCEPT !.pc = "rebasing"] /\ sync.pc = "pull"
    BY <1>2 DEF PullBegin, Pulls
  <2>2. sync'.pc = "rebasing" /\ sync'.batch = sync.batch
    BY <2>1 DEF IInv, TInv, SyncType
  <2>. QED
    BY <1>1, <2>1, <2>2 DEF Rebasing, Clean
<1>3. CASE who = "poll"
  <2>1. poll' = [poll EXCEPT !.pc = "rebasing"] /\ sync' = sync
    BY <1>3 DEF PullBegin
  <2>2. poll'.pc = "rebasing"
    BY <2>1 DEF IInv, TInv, PollType
  <2>. QED
    BY <1>1, <2>1, <2>2 DEF Rebasing, Clean
<1>. QED
  BY <1>2, <1>3

LEMMA PullBeginKeeps == ASSUME IInv, NEW who \in {"sync", "poll"}, PullBegin(who) PROVE GInv'
<1>. DEFINE start == [base |-> Len(remote), ahead |-> <<>>]
            g == history.gone
<1>1. /\ Pulls(who) /\ ~Unclean /\ ~Rebasing /\ UNCHANGED <<remote, mode, count>>
      /\ repo.rebase = None /\ HEAD.base < Len(remote) /\ ~Obstructed(RemoteTip)
      /\ repo' = [repo EXCEPT !.origin = Len(remote), !.index = RemoteTip, !.rebase = start]
      /\ work' = Checkout(RemoteTip)
      /\ history' = [history EXCEPT !.raced = @ \/ \E f \in Files : Untracked(f)]
  BY DEF PullBegin, Pulls
<1>2. repo.cloned /\ mode # "down"
  BY <1>1 DEF Pulls, IInv, TInv, Control
<1>3. /\ Rebasing' /\ Clean' = Clean /\ dirty' = dirty /\ sync'.batch = sync.batch
      /\ sync'.pc \in {"commit", "push", "pull", "rebasing"} =>
           sync.pc \in {"commit", "push", "pull", "rebasing"}
  BY BeginSync
<1>4. /\ history'.gone = g /\ history'.carried = history.carried /\ history'.overrun = history.overrun
      /\ (~history'.raced => \A f \in Files : ~Untracked(f))
  BY <1>1 DEF IInv, TInv, RestType
<1>5. (\A h : LineGrows(remote, start, h)) /\ Top(remote, start) = RemoteTip /\ start # None
  <2>1. Len(remote) # 0 /\ RemoteTip = remote[Len(remote)]
    BY BranchTypes DEF IInv
  <2>. QED
    BY <2>1, LineNew DEF None
<1>. HIDE DEF start
<1>6. /\ repo'.cloned = repo.cloned /\ repo'.branch = repo.branch /\ repo'.done = repo.done
      /\ repo'.index = RemoteTip /\ repo'.rebase = start
  BY <1>1 DEF IInv, TInv, StoreType
<1>7. HEAD = repo.branch /\ HEAD' = start /\ RemoteTip' = RemoteTip /\ repo.done = 0
  BY <1>1, <1>5, <1>6 DEF HEAD, RemoteTip, Last, IInv, TInv, Control
<1>8. /\ Grows(RemoteTip, work', g)
      /\ In(work) \subseteq In(work') \cup In(Top(remote, HEAD))
      /\ \A f \in Files : repo.index[f] = work[f] => work'[f] = RemoteTip[f]
      /\ \A f \in Clean : Text(work'[f]) \cap Edits \subseteq In(RemoteTip) \cup g \cup history.carried
      /\ (\A f \in Files : ~Untracked(f)) => work' = RemoteTip
  BY <1>1, <1>2, CheckoutKeeps
<1>9. RemoteGrows' /\ BranchesGrow'
  BY <1>1, <1>2, <1>4, <1>5, <1>6 DEF IInv, GInv, RemoteGrows, BranchesGrow
<1>10. FilesGrow' /\ IndexIsHead'
  BY <1>1, <1>4, <1>5, <1>6, <1>7, <1>8, GrowsSame DEF FilesGrow, IndexIsHead
<1>11. RebaseGrows'
  <2>1. Grows(At(remote, repo.branch, 0), RemoteTip, g)
    <3>1. repo.branch \in Line(remote, Made) /\ repo.branch.base # 0
          /\ Len(remote) \in Nat \ {0} /\ RemoteTip = remote[Len(remote)]
      BY <1>2, BranchTypes DEF IInv, TInv, StoreType, Control
    <3>2. repo.branch.base \in 1..Len(remote) /\ Len(remote) \in 1..Len(remote)
          /\ repo.branch.base \leq Len(remote)
      BY <3>1 DEF Line
    <3>. QED
      BY <3>1, <3>2 DEF At, IInv, GInv, RemoteGrows
  <2>. QED
    BY <1>1, <1>4, <1>5, <1>6, <1>7, <2>1 DEF RebaseGrows
<1>12. StagedIsWork'
  <2>1. sync.batch \subseteq Files
    BY DEF IInv, TInv, SyncType
  <2>. QED
    BY <1>3, <1>6, <1>8, <2>1 DEF IInv, GInv, StagedIsWork
<1>13. CleanIsSettled'
  <2>1. Settled(Top(remote, repo.branch))
    BY <1>2 DEF IInv, GInv, CleanIsSettled
  <2>2. Settled(work)'
    BY <1>3, <1>4, <1>7, <1>8 DEF Settled, In
  <2>3. Settled(Top(remote, repo.branch))'
    BY <1>1, <1>3, <1>4, <1>6, <1>7, <2>1 DEF Settled, In
  <2>. QED
    BY <2>2, <2>3 DEF CleanIsSettled
<1>14. RebaseIsClean'
  BY <1>4, <1>6, <1>8 DEF RebaseIsClean
<1>15. RebaseIsFinished'
  BY <1>3 DEF RebaseIsFinished
<1>16. RemoteKept'
  BY <1>1, <1>4, <1>7 DEF IInv, GInv, RemoteKept
<1>17. EditsKept'
  <2>1. Tip(repo.branch) = Top(remote, repo.branch) /\ Tip(HEAD) = Tip(repo.branch)
    BY <1>2, <1>7, BranchTypes DEF IInv
  <2>2. In(RemoteTip)' = In(RemoteTip) /\ In(work)' = In(work')
        /\ In(Tip(repo.branch))' = In(Tip(repo.branch))
    BY <1>1, <1>6, <1>7 DEF In, Tip, Last
  <2>3. In(Top(remote, HEAD)) = In(Tip(repo.branch))
    BY <1>7, <2>1
  <2>4. In(Tip(HEAD)) = In(Tip(repo.branch))
    BY <1>7
  <2>5. 1..count.edits \subseteq In(work) \cup In(RemoteTip) \cup g \cup history.overrun
          \cup In(Tip(repo.branch))
    BY <1>2, <2>4 DEF IInv, GInv, EditsKept
  <2>6. 1..count.edits \subseteq In(work') \cup In(RemoteTip) \cup g \cup history.overrun
          \cup In(Tip(repo.branch))
    BY <1>8, <2>3, <2>5
  <2>. QED
    BY <1>1, <1>2, <1>4, <1>6, <2>2, <2>6 DEF EditsKept
<1>. QED
  BY <1>9, <1>10, <1>11, <1>12, <1>13, <1>14, <1>15, <1>16, <1>17 DEF GInv

LEMMA PullPicksKeeps == ASSUME IInv, NEW who \in {"sync", "poll"}, PullPicks(who) PROVE GInv'
<1>. DEFINE g == history.gone
<1>1. /\ Picking(who) /\ ~Blocked /\ ~Clashes /\ work' = Edited(Picked)
      /\ UNCHANGED <<remote, mode, dirty, protected, sync, poll, count, history>>
  BY DEF PullPicks
<1>2. /\ Before \in TreeOf(Made) /\ After \in TreeOf(Made) /\ Onto \in TreeOf(Made)
      /\ Picked \in TreeOf(Made)
      /\ repo.cloned /\ repo.rebase # None /\ repo.branch \in Line(remote, Made)
      /\ repo.done + 1 \in 1..Len(repo.branch.ahead)
      /\ Before = At(remote, repo.branch, repo.done)
      /\ After = At(remote, repo.branch, repo.done + 1)
      /\ Onto = Top(remote, repo.rebase)
  BY <1>1, PickTypes DEF IInv
<1>3. /\ Rebasing' /\ Rebasing
      /\ repo' = [repo EXCEPT !.done = @ + 1, !.index = Picked, !.rebase = repo'.rebase]
      /\ repo'.rebase.base = repo.rebase.base /\ repo'.rebase # None
      /\ \/ Picked = Onto /\ repo'.rebase = repo.rebase
         \/ repo'.rebase.ahead = Append(repo.rebase.ahead, Picked)
  BY <1>1, PullPicksTypes DEF IInv, Picking, IsRebasing, Rebasing
<1>4. /\ repo'.cloned = repo.cloned /\ repo'.branch = repo.branch /\ repo'.done = repo.done + 1
      /\ repo'.index = Picked
  BY <1>3 DEF IInv, TInv, StoreType
<1>5. /\ LineGrows(remote, repo.branch, g) /\ LineGrows(remote, repo.rebase, g)
      /\ Grows(Before, Onto, g)
      /\ \A f \in Files : Text(Onto[f]) \subseteq
           Text(Top(remote, repo.branch)[f]) \cup Text(RemoteTip[f]) \cup g
  BY <1>2, <1>3 DEF IInv, GInv, BranchesGrow, RebaseGrows
<1>6. Grows(Before, After, g) /\ Grows(After, Top(remote, repo.branch), g)
  <2>1. Len(repo.branch.ahead) \in Nat /\ repo.done \in Nat
    BY <1>2 DEF Line, IInv, TInv, StoreType
  <2>2. repo.done \in 0..Len(repo.branch.ahead) /\ repo.done + 1 \in 0..Len(repo.branch.ahead)
        /\ Len(repo.branch.ahead) \in 0..Len(repo.branch.ahead)
        /\ repo.done \leq repo.done + 1 /\ repo.done + 1 \leq Len(repo.branch.ahead)
    BY <1>2, <2>1
  <2>. QED
    BY <1>2, <1>5, <2>2 DEF LineGrows, Top
<1>7. /\ Grows(Onto, Picked, g) /\ Grows(After, Picked, g)
      /\ \A f \in Files : Text(Picked[f]) \subseteq Text(After[f]) \cup Text(Onto[f])
  BY <1>5, <1>6, PickedKeeps
<1>8. LineGrows(remote, repo'.rebase, g) /\ Top(remote, repo'.rebase) = Picked
  <2>1. CASE Picked = Onto /\ repo'.rebase = repo.rebase
    BY <1>2, <1>5, <2>1
  <2>2. CASE repo'.rebase.ahead = Append(repo.rebase.ahead, Picked)
    <3>1. repo.rebase \in Line(remote, Made) /\ repo'.rebase \in Line(remote', Made')
      BY <1>1, PullPicksTypes DEF IInv, TInv, StoreType
    <3>2. repo'.rebase \in [base : {repo.rebase.base}, ahead : {Append(repo.rebase.ahead, Picked)}]
      BY <1>3, <2>2, <3>1 DEF Line
    <3>. QED
      BY <1>2, <1>5, <1>7, <3>1, <3>2, LineAppend
  <2>. QED
    BY <1>3, <2>1, <2>2
<1>9. repo.index = Onto
  BY <1>2, <1>3 DEF IInv, GInv, IndexIsHead, HEAD
<1>10. HEAD' = repo'.rebase /\ RemoteTip' = RemoteTip
  BY <1>1, <1>3 DEF HEAD, RemoteTip
<1>11. \A f \in Files : IF Untracked(f) \/ Unstaged(f)
                        THEN work'[f] = work[f] /\ Picked[f] = repo.index[f]
                        ELSE work'[f] = Picked[f] /\ work[f] = repo.index[f]
  <2>1. \A f \in Files : Untracked(f) \/ Unstaged(f) => Picked[f] = Onto[f]
    BY <1>1 DEF Blocked, Differ
  <2>2. \A f \in Files : ~Untracked(f) /\ ~Unstaged(f) => work[f] = repo.index[f]
    BY DEF Untracked, Unstaged
  <2>. QED
    BY <1>1, <1>9, <2>1, <2>2 DEF Edited
<1>12. Grows(repo.index, work, g)
  BY <1>2 DEF IInv, GInv, FilesGrow
<1>13. Grows(Picked, work', g)
  BY <1>11, <1>12 DEF Grows
<1>14. RemoteGrows' /\ BranchesGrow'
  BY <1>1, <1>4, <1>5, <1>8 DEF IInv, GInv, RemoteGrows, BranchesGrow
<1>15. FilesGrow' /\ IndexIsHead'
  BY <1>1, <1>4, <1>8, <1>10, <1>13, GrowsSame DEF FilesGrow, IndexIsHead
<1>16. RebaseGrows'
  <2>1. Grows(At(remote, repo.branch, repo.done + 1), Picked, g)
    BY <1>2, <1>7
  <2>2. \A f \in Files : Text(Picked[f]) \subseteq
          Text(Top(remote, repo.branch)[f]) \cup Text(RemoteTip[f]) \cup g
    BY <1>5, <1>6, <1>7 DEF Grows
  <2>. QED
    BY <1>1, <1>4, <1>8, <1>10, <2>1, <2>2 DEF RebaseGrows
<1>17. StagedIsWork'
  <2>1. sync.batch \subseteq Files
    BY DEF IInv, TInv, SyncType
  <2>. QED
    BY <1>1, <1>4, <1>11, <2>1 DEF IInv, GInv, StagedIsWork, Untracked, Unstaged
<1>18. CleanIsSettled'
  <2>1. Settled(Top(remote, repo.branch)) /\ Settled(work) /\ Clean' = Clean /\ Clean \subseteq Files
    BY <1>1, <1>2 DEF IInv, GInv, CleanIsSettled, Clean
  <2>2. \A f \in Clean : Text(work'[f]) \cap Edits \subseteq In(RemoteTip) \cup g \cup history.carried
    <3>1. SUFFICES ASSUME NEW f \in Clean
                   PROVE  Text(work'[f]) \cap Edits \subseteq In(RemoteTip) \cup g \cup history.carried
      OBVIOUS
    <3>2. f \in Files /\ Text(work[f]) \cap Edits \subseteq In(RemoteTip) \cup g \cup history.carried
          /\ Text(Top(remote, repo.branch)[f]) \cap Edits \subseteq In(RemoteTip) \cup g \cup history.carried
      BY <2>1, <3>1 DEF Settled
    <3>3. CASE Untracked(f) \/ Unstaged(f)
      BY <1>11, <3>2, <3>3
    <3>4. CASE ~(Untracked(f) \/ Unstaged(f))
      <4>1. work'[f] = Picked[f] /\ work[f] = Onto[f]
        BY <1>9, <1>11, <3>2, <3>4
      <4>2. Text(Picked[f]) \subseteq Text(After[f]) \cup Text(Onto[f])
            /\ Text(After[f]) \subseteq Text(Top(remote, repo.branch)[f]) \cup g
        BY <1>6, <1>7, <3>2 DEF Grows
      <4>. QED
        BY <3>2, <4>1, <4>2
    <3>. QED
      BY <3>3, <3>4
  <2>3. Settled(work)' /\ Settled(Top(remote, repo.branch))'
    BY <1>1, <1>4, <1>10, <2>1, <2>2 DEF Settled, In
  <2>. QED
    BY <2>3 DEF CleanIsSettled
<1>19. RebaseIsClean'
  <2>1. SUFFICES ASSUME ~history.raced PROVE work' = Picked
    BY <1>1, <1>4 DEF RebaseIsClean
  <2>2. work = repo.index
    BY <1>3, <2>1 DEF IInv, GInv, RebaseIsClean
  <2>3. \A f \in Files : ~(Untracked(f) \/ Unstaged(f))
    BY <2>2 DEF Untracked, Unstaged
  <2>. QED
    BY <1>1, <1>2, <2>3 DEF Edited, TreeOf
<1>20. RebaseIsFinished'
  BY <1>3 DEF RebaseIsFinished
<1>21. RemoteKept'
  BY <1>1, <1>10 DEF IInv, GInv, RemoteKept
<1>22. EditsKept'
  <2>1. Tip(repo.branch) = Top(remote, repo.branch) /\ Tip(HEAD) = Onto /\ HEAD = repo.rebase
    BY <1>2, BranchTypes DEF IInv, HEAD
  <2>2. \A f \in Files : Text(work[f]) \subseteq Text(work'[f]) \cup Text(Onto[f])
    BY <1>9, <1>11
  <2>3. In(work) \subseteq In(work') \cup In(Onto) /\ In(Onto) \subseteq In(Picked) \cup g
    BY <1>7, <2>2, GrowsIn DEF In
  <2>4. In(Picked) \subseteq In(work') \cup g
    BY <1>13, GrowsIn
  <2>5. In(RemoteTip)' = In(RemoteTip) /\ In(work)' = In(work')
        /\ In(Tip(repo.branch))' = In(Tip(repo.branch))
    BY <1>1, <1>4, <1>10 DEF In, Tip, Last
  <2>6. In(Tip(HEAD)) = In(Onto)
    BY <2>1
  <2>7. 1..count.edits \subseteq In(work) \cup In(RemoteTip) \cup g \cup history.overrun
          \cup In(Tip(repo.branch)) \cup In(Onto)
    BY <1>2, <2>6 DEF IInv, GInv, EditsKept
  <2>8. 1..count.edits \subseteq In(work') \cup In(RemoteTip) \cup g \cup history.overrun
          \cup In(Tip(repo.branch))
    BY <2>3, <2>4, <2>7
  <2>. QED
    BY <1>1, <1>2, <1>4, <2>5, <2>8 DEF EditsKept
<1>. QED
  BY <1>14, <1>15, <1>16, <1>17, <1>18, <1>19, <1>20, <1>21, <1>22 DEF GInv

LEMMA PullFinishesKeeps == ASSUME IInv, NEW who \in {"sync", "poll"}, PullFinishes(who) PROVE GInv'
<1>. DEFINE g == history.gone
<1>1. /\ IsRebasing(who) /\ repo.done = Len(repo.branch.ahead) /\ PullEnds(who, "ok")
      /\ repo' = [repo EXCEPT !.branch = repo.rebase, !.rebase = None, !.done = 0]
      /\ UNCHANGED <<remote, work, count, history>>
  BY DEF PullFinishes
<1>2. /\ Clean' \subseteq Clean /\ ~Rebasing' /\ mode # "down" /\ repo.cloned
      /\ sync'.pc # "commit" => sync.pc # "commit"
      /\ sync'.pc \in {"commit", "push", "pull", "rebasing"} =>
           /\ sync.pc \in {"commit", "push", "pull", "rebasing"}
           /\ sync'.batch \ dirty' \subseteq sync.batch \ dirty
  BY <1>1, EndsKeep
<1>3. Rebasing /\ repo.rebase # None
  BY <1>1 DEF IsRebasing, Rebasing, IInv, TInv, Control
<1>4. /\ repo'.cloned = repo.cloned /\ repo'.branch = repo.rebase /\ repo'.rebase = None
      /\ repo'.done = 0 /\ repo'.index = repo.index
  BY <1>1 DEF IInv, TInv, StoreType
<1>5. HEAD = repo.rebase /\ HEAD' = repo.rebase /\ RemoteTip' = RemoteTip
  BY <1>1, <1>3, <1>4 DEF HEAD, RemoteTip
<1>6. repo.index = Top(remote, repo.rebase) /\ Grows(repo.index, work, g)
  BY <1>2, <1>3, <1>5 DEF IInv, GInv, IndexIsHead, FilesGrow
<1>7. Grows(Top(remote, repo.branch), Top(remote, repo.rebase), g)
      /\ \A f \in Files : Text(Top(remote, repo.rebase)[f]) \subseteq
           Text(Top(remote, repo.branch)[f]) \cup Text(RemoteTip[f]) \cup g
  BY <1>1, <1>3 DEF IInv, GInv, RebaseGrows, Top
<1>8. RemoteGrows' /\ BranchesGrow' /\ RebaseGrows' /\ RebaseIsClean'
  BY <1>1, <1>2, <1>3, <1>4 DEF IInv, GInv, RemoteGrows, BranchesGrow, RebaseGrows, RebaseIsClean
<1>9. FilesGrow' /\ IndexIsHead'
  BY <1>1, <1>4, <1>5, <1>6, GrowsSame DEF FilesGrow, IndexIsHead
<1>10. StagedIsWork'
  BY <1>1, <1>2, <1>4 DEF IInv, GInv, StagedIsWork
<1>11. CleanIsSettled'
  <2>1. Settled(Top(remote, repo.branch)) /\ Settled(work) /\ Clean \subseteq Files
    BY <1>2 DEF IInv, GInv, CleanIsSettled, Clean
  <2>2. Settled(Top(remote, repo.rebase))
    <3>1. \A f \in Files : Text(RemoteTip[f]) \subseteq In(RemoteTip)
      BY InText
    <3>. QED
      BY <1>7, <2>1, <3>1 DEF Settled
  <2>3. Settled(work)' /\ Settled(Top(remote, repo.branch))'
    BY <1>1, <1>2, <1>4, <1>5, <2>1, <2>2 DEF Settled, In
  <2>. QED
    BY <2>3 DEF CleanIsSettled
<1>12. RebaseIsFinished'
  BY <1>4 DEF RebaseIsFinished
<1>13. RemoteKept'
  BY <1>1, <1>5 DEF IInv, GInv, RemoteKept
<1>14. EditsKept'
  <2>1. Tip(repo.branch) = Top(remote, repo.branch) /\ Tip(repo.rebase) = Top(remote, repo.rebase)
    BY <1>2, <1>3, BranchTypes DEF IInv
  <2>2. In(Tip(repo.branch)) \subseteq In(Tip(repo.rebase)) \cup g
    BY <1>7, <2>1, GrowsIn
  <2>3. In(Tip(repo.branch))' = In(Tip(repo.rebase)) /\ In(RemoteTip)' = In(RemoteTip)
        /\ In(work)' = In(work)
    BY <1>1, <1>4, <1>5 DEF In, Tip, Last
  <2>4. In(Tip(HEAD)) = In(Tip(repo.rebase))
    BY <1>5
  <2>. QED
    BY <1>1, <1>2, <1>4, <2>2, <2>3, <2>4 DEF IInv, GInv, EditsKept
<1>. QED
  BY <1>8, <1>9, <1>10, <1>11, <1>12, <1>13, <1>14 DEF GInv

LEMMA PullAbortsKeeps == ASSUME IInv, NEW who \in {"sync", "poll"}, PullAborts(who) PROVE GInv'
<1>. DEFINE g == history.gone
            top == Top(remote, repo.branch)
<1>1. /\ Picking(who) /\ IsRebasing(who) /\ PullEnds(who, "conflict")
      /\ repo' = [repo EXCEPT !.rebase = None, !.done = 0, !.index = Tip(repo.branch)]
      /\ work' = Checkout(Tip(repo.branch))
      /\ history' = [history EXCEPT !.overrun = @ \cup ((In(work) \cap Edits) \ In(work')),
                                   !.clashed = @ \cup {Pick}]
      /\ UNCHANGED <<remote, count>>
  BY DEF PullAborts, Picking
<1>2. /\ Clean' \subseteq Clean /\ ~Rebasing' /\ mode # "down" /\ repo.cloned
      /\ sync'.pc # "commit" => sync.pc # "commit"
      /\ sync'.pc \in {"commit", "push", "pull", "rebasing"} =>
           /\ sync.pc \in {"commit", "push", "pull", "rebasing"}
           /\ sync'.batch \ dirty' \subseteq sync.batch \ dirty
  BY <1>1, EndsKeep
<1>3. Rebasing /\ repo.rebase # None
  BY <1>1 DEF IsRebasing, Rebasing, IInv, TInv, Control
<1>4. Tip(repo.branch) = top /\ top \in TreeOf(Made)
  BY <1>2, BranchTypes DEF IInv
<1>5. /\ history'.gone = g /\ history'.carried = history.carried /\ history'.raced = history.raced
      /\ history'.overrun = history.overrun \cup ((In(work) \cap Edits) \ In(work'))
  BY <1>1 DEF IInv, TInv, RestType
<1>6. /\ repo'.cloned = repo.cloned /\ repo'.branch = repo.branch /\ repo'.rebase = None
      /\ repo'.done = 0 /\ repo'.index = top
  BY <1>1, <1>4 DEF IInv, TInv, StoreType
<1>7. HEAD = repo.rebase /\ HEAD' = repo.branch /\ RemoteTip' = RemoteTip
  BY <1>1, <1>3, <1>6 DEF HEAD, RemoteTip
<1>8. \A f \in Files : \/ work'[f] = top[f]
                       \/ Untracked(f) /\ top[f] = NoFile /\ work'[f] = work[f]
  BY <1>1, <1>4 DEF Checkout
<1>9. RemoteGrows' /\ BranchesGrow' /\ RebaseGrows' /\ RebaseIsClean'
  BY <1>1, <1>2, <1>5, <1>6 DEF IInv, GInv, RemoteGrows, BranchesGrow, RebaseGrows, RebaseIsClean
<1>10. FilesGrow' /\ IndexIsHead'
  <2>1. Grows(top, work', g)
    BY <1>8 DEF Grows, Text
  <2>. QED
    BY <1>1, <1>5, <1>6, <1>7, <2>1, GrowsSame DEF FilesGrow, IndexIsHead
<1>11. StagedIsWork'
  <2>1. \A f \in Files : repo.index[f] = work[f] => work'[f] = top[f]
    BY <1>8 DEF Untracked
  <2>2. sync.batch \subseteq Files
    BY DEF IInv, TInv, SyncType
  <2>. QED
    BY <1>2, <1>6, <2>1, <2>2 DEF IInv, GInv, StagedIsWork
<1>12. CleanIsSettled'
  <2>1. Settled(top) /\ Settled(work) /\ Clean \subseteq Files
    BY <1>2 DEF IInv, GInv, CleanIsSettled, Clean
  <2>2. \A f \in Clean : Text(work'[f]) \cap Edits \subseteq In(RemoteTip) \cup g \cup history.carried
    BY <1>8, <2>1 DEF Settled
  <2>3. Settled(work)' /\ Settled(Top(remote, repo.branch))'
    BY <1>1, <1>2, <1>5, <1>6, <1>7, <2>1, <2>2 DEF Settled, In
  <2>. QED
    BY <2>3 DEF CleanIsSettled
<1>13. RebaseIsFinished'
  BY <1>6 DEF RebaseIsFinished
<1>14. RemoteKept'
  BY <1>1, <1>5, <1>7 DEF IInv, GInv, RemoteKept
<1>15. EditsKept'
  <2>1. Tip(repo.rebase) = Top(remote, repo.rebase)
    BY <1>3, BranchTypes DEF IInv
  <2>2. In(Tip(HEAD)) \subseteq In(top) \cup In(RemoteTip) \cup g
    <3>1. \A f \in Files : Text(Top(remote, repo.rebase)[f]) \subseteq
            Text(top[f]) \cup Text(RemoteTip[f]) \cup g
      BY <1>3 DEF IInv, GInv, RebaseGrows
    <3>2. In(Tip(repo.rebase)) \subseteq In(top) \cup In(RemoteTip) \cup g
      BY <2>1, <3>1 DEF In
    <3>. QED
      BY <1>7, <3>2
  <2>3. In(Tip(repo.branch)) = In(top)
    BY <1>4 DEF In
  <2>4. In(Tip(repo.branch))' = In(top) /\ In(RemoteTip)' = In(RemoteTip) /\ In(work)' = In(work')
    <3>1. Tip(repo.branch)' = Tip(repo.branch)
      BY <1>1, <1>6 DEF Tip, Last
    <3>. QED
      BY <1>4, <1>7, <3>1 DEF In
  <2>5. 1..count.edits \subseteq Edits
    BY GitLifecycleAssumption DEF IInv, TInv, RestType, Edits
  <2>6. 1..count.edits \subseteq In(work) \cup In(RemoteTip) \cup g \cup history.overrun \cup In(top)
    BY <1>2, <2>2, <2>3 DEF IInv, GInv, EditsKept
  <2>7. 1..count.edits \subseteq In(work') \cup In(RemoteTip) \cup g \cup history'.overrun \cup In(top)
    BY <1>5, <2>5, <2>6
  <2>. QED
    BY <1>1, <1>2, <1>5, <1>6, <2>4, <2>7 DEF EditsKept
<1>. QED
  BY <1>9, <1>10, <1>11, <1>12, <1>13, <1>14, <1>15 DEF GInv

(***************************************************************************)
(* Startup and the end of the mount.                                       *)
(***************************************************************************)
LEMMA DownIsIdle ==
  ASSUME TInv, mode = "down"
  PROVE  sync.pc = "idle" /\ poll.pc = "idle" /\ ~Rebasing
BY DEF TInv, Control, Rebasing

LEMMA DiscardKeeps == ASSUME IInv, OpenDiscard PROVE GInv'
<1>. DEFINE g == history.gone
<1>1. /\ mode = "down" /\ work' = Empty
      /\ repo' = [repo EXCEPT !.cloned = FALSE, !.rebase = None, !.done = 0]
      /\ history' = [history EXCEPT !.gone = @ \cup Unsent]
      /\ UNCHANGED <<remote, mode, dirty, protected, sync, poll, count>>
  BY DEF OpenDiscard
<1>2. ~repo'.cloned /\ repo'.rebase = None
  BY <1>1 DEF IInv, TInv, StoreType
<1>3. /\ history'.gone = g \cup Unsent /\ history'.carried = history.carried
      /\ history'.overrun = history.overrun
  BY <1>1 DEF IInv, TInv, RestType
<1>4. sync'.pc = "idle" /\ ~Rebasing' /\ RemoteTip' = RemoteTip
  BY <1>1, DownIsIdle DEF IInv, Rebasing, RemoteTip
<1>5. RemoteGrows'
  BY <1>1, <1>3, GrowsMore DEF IInv, GInv, RemoteGrows
<1>6. /\ BranchesGrow' /\ FilesGrow' /\ RebaseGrows' /\ IndexIsHead' /\ StagedIsWork'
      /\ RebaseIsClean' /\ RebaseIsFinished'
  BY <1>1, <1>2, <1>4 DEF BranchesGrow, FilesGrow, RebaseGrows, IndexIsHead, StagedIsWork,
     RebaseIsClean, RebaseIsFinished
<1>7. CleanIsSettled'
  <2>1. \A f \in Files : Text(work'[f]) = {}
    BY <1>1 DEF Empty, Text
  <2>. QED
    BY <1>2, <2>1 DEF CleanIsSettled, Settled, Clean
<1>8. EditsKept' /\ RemoteKept'
  <2>1. In(RemoteTip)' = In(RemoteTip)
    BY <1>4 DEF In
  <2>2. 1..count.edits \subseteq In(RemoteTip) \cup Unsent
    BY DEF Unsent
  <2>. QED
    BY <1>1, <1>2, <1>3, <2>1, <2>2 DEF IInv, GInv, EditsKept, RemoteKept
<1>. QED
  BY <1>5, <1>6, <1>7, <1>8 DEF GInv

LEMMA CloneKeeps == ASSUME IInv, OpenClone PROVE GInv'
<1>. DEFINE fresh == [base |-> Len(remote), ahead |-> <<>>]
<1>1. /\ mode = "down" /\ ~repo.cloned /\ mode' = "starting" /\ poll' = [pc |-> "startup"]
      /\ repo' = [cloned |-> TRUE, origin |-> Len(remote), rebase |-> None, done |-> 0,
                  index |-> RemoteTip, branch |-> fresh]
      /\ work' = RemoteTip
      /\ UNCHANGED <<remote, dirty, protected, sync, count, history>>
  BY DEF OpenClone, Starts
<1>2. (\A h : LineGrows(remote, fresh, h)) /\ Top(remote, fresh) = RemoteTip
  <2>1. RemoteTip = remote[Len(remote)]
    BY BranchTypes DEF IInv
  <2>. QED
    BY <2>1, LineNew
<1>. HIDE DEF fresh
<1>3. repo'.cloned /\ repo'.rebase = None /\ repo'.branch = fresh /\ repo'.index = RemoteTip
  BY <1>1
<1>4. HEAD' = fresh /\ RemoteTip' = RemoteTip /\ sync.pc = "idle" /\ ~Rebasing'
  BY <1>1, <1>3, DownIsIdle DEF HEAD, RemoteTip, IInv, Rebasing
<1>5. RemoteGrows' /\ BranchesGrow' /\ RebaseGrows' /\ RebaseIsClean' /\ RebaseIsFinished'
  BY <1>1, <1>2, <1>3, <1>4
     DEF IInv, GInv, RemoteGrows, BranchesGrow, RebaseGrows, RebaseIsClean, RebaseIsFinished
<1>6. FilesGrow' /\ IndexIsHead' /\ StagedIsWork'
  BY <1>1, <1>2, <1>3, <1>4, GrowsSame DEF FilesGrow, IndexIsHead, StagedIsWork
<1>7. CleanIsSettled'
  <2>1. \A f \in Files : Text(RemoteTip[f]) \subseteq In(RemoteTip)
    BY InText
  <2>2. \A f \in Files : Text(RemoteTip[f]) \subseteq In(RemoteTip)'
    BY <1>4, <2>1 DEF In
  <2>3. Settled(work)' /\ Settled(Top(remote, repo.branch))'
    BY <1>1, <1>2, <1>3, <2>2 DEF Settled, Clean
  <2>. QED
    BY <2>3 DEF CleanIsSettled
<1>8. EditsKept' /\ RemoteKept'
  <2>1. In(RemoteTip)' = In(RemoteTip)
    BY <1>4 DEF In
  <2>2. In(work) = {}
    BY <1>1 DEF IInv, TInv, Control, Empty, In, Text
  <2>. QED
    BY <1>1, <1>3, <2>1, <2>2 DEF IInv, GInv, EditsKept, RemoteKept
<1>. QED
  BY <1>5, <1>6, <1>7, <1>8 DEF GInv

(* Whatever was not pushed when the mount ended is carried over.           *)
LEMMA CrashKeeps == ASSUME IInv, Crash PROVE GInv'
<1>. DEFINE g == history.gone
<1>1. /\ mode' = "down" /\ Count("troubles") /\ sync' = NoSync /\ poll' = NoPoll
      /\ UNCHANGED <<remote, repo, work>>
      /\ history' = [history EXCEPT !.carried = @ \cup Unsent, !.raced = @ \/ Rebasing]
  BY DEF Crash
<1>2. count'.edits = count.edits /\ count'.foreign = count.foreign
  BY <1>1, TroubleType DEF IInv, TInv
<1>3. /\ history'.gone = g /\ history'.carried = history.carried \cup Unsent
      /\ history'.overrun = history.overrun /\ history'.raced = (history.raced \/ Rebasing)
  BY <1>1 DEF IInv, TInv, RestType, Rebasing
<1>4. sync'.pc = "idle" /\ ~Rebasing' /\ RemoteTip' = RemoteTip /\ HEAD' = HEAD
      /\ Tip(repo.branch)' = Tip(repo.branch) /\ Tip(HEAD)' = Tip(HEAD)
  BY <1>1 DEF Rebasing, NoSync, NoPoll, RemoteTip, HEAD, Tip
<1>5. /\ RemoteGrows' /\ BranchesGrow' /\ FilesGrow' /\ RebaseGrows' /\ IndexIsHead'
      /\ StagedIsWork' /\ RebaseIsClean'
  BY <1>1, <1>3, <1>4 DEF IInv, GInv, RemoteGrows, BranchesGrow, FilesGrow, RebaseGrows,
     IndexIsHead, StagedIsWork, RebaseIsClean
<1>6. RebaseIsFinished'
  BY <1>1, <1>3 DEF IInv, GInv, RebaseIsFinished
<1>7. CleanIsSettled'
  <2>1. \A c \in Made : c \in Edits => c \in 1..count.edits
    BY GitLifecycleAssumption DEF IInv, TInv, RestType, Made, Edits
  <2>2. ASSUME NEW t \in TreeOf(Made), NEW f \in Files
        PROVE  Text(t[f]) \cap Edits \subseteq In(RemoteTip) \cup Unsent
    <3>1. Text(t[f]) \subseteq Made
      BY <2>2 DEF TreeOf, Text
    <3>. QED
      BY <2>1, <3>1 DEF Unsent
  <2>3. work \in TreeOf(Made) /\ (repo.cloned => Top(remote, repo.branch) \in TreeOf(Made))
    BY BranchTypes DEF IInv, TInv, StoreType
  <2>4. In(RemoteTip)' = In(RemoteTip)
    BY <1>4 DEF In
  <2>5. Settled(work)'
    BY <1>1, <1>3, <2>2, <2>3, <2>4 DEF Settled, Clean
  <2>6. repo.cloned => Settled(Top(remote, repo.branch))'
    BY <1>1, <1>3, <2>2, <2>3, <2>4 DEF Settled, Clean
  <2>. QED
    BY <1>1, <2>5, <2>6 DEF CleanIsSettled
<1>8. EditsKept' /\ RemoteKept'
  BY <1>1, <1>2, <1>3, <1>4 DEF IInv, GInv, EditsKept, RemoteKept, In
<1>. QED
  BY <1>5, <1>6, <1>7, <1>8 DEF GInv

(***************************************************************************)
(* The invariant, and what follows from it.                                *)
(***************************************************************************)
LEMMA KeptInit == Init => GInv
<1>. SUFFICES ASSUME Init PROVE GInv
  OBVIOUS
<1>1. /\ Len(remote) = 1 /\ ~repo.cloned /\ repo.rebase = None /\ sync.pc = "idle" /\ poll.pc = "idle"
      /\ mode = "down" /\ work = Empty /\ count.edits = 0 /\ count.foreign = 0
  BY DEF Init, NoSync, NoPoll
<1>2. RemoteGrows
  BY <1>1, GrowsSame DEF RemoteGrows
<1>3. ~Rebasing
  BY <1>1 DEF Rebasing
<1>4. /\ BranchesGrow /\ FilesGrow /\ RebaseGrows /\ IndexIsHead /\ StagedIsWork
      /\ RebaseIsClean /\ RebaseIsFinished
  BY <1>1, <1>3 DEF BranchesGrow, FilesGrow, RebaseGrows, IndexIsHead, StagedIsWork,
     RebaseIsClean, RebaseIsFinished
<1>5. CleanIsSettled
  BY <1>1 DEF CleanIsSettled, Settled, Clean, Empty, Text
<1>6. EditsKept
  BY <1>1 DEF EditsKept
<1>7. RemoteKept
  BY <1>1, GitLifecycleAssumption DEF RemoteKept
<1>. QED
  BY <1>2, <1>4, <1>5, <1>6, <1>7 DEF GInv

LEMMA StutterKeeps == ASSUME IInv, UNCHANGED vars PROVE GInv'
<1>1. SameStore /\ Clean' = Clean /\ (Rebasing' <=> Rebasing)
      /\ UNCHANGED <<mode, dirty, protected, sync>>
  BY DEF vars, SameStore, Clean, Rebasing
<1>2. sync'.pc \in {"commit", "push", "pull", "rebasing"} =>
        \A f \in sync'.batch \ dirty' : repo.index[f] = work[f]
  BY <1>1 DEF IInv, GInv, StagedIsWork
<1>. QED
  BY <1>1, <1>2, SameStoreKeeps

LEMMA PullKeeps == ASSUME IInv, NEW who \in {"sync", "poll"}, Pull(who) PROVE GInv'
BY PullFailsKeeps, PullForwardsKeeps, PullBeginKeeps, PullPicksKeeps, PullFinishesKeeps,
   PullAbortsKeeps, PullStopsKeeps DEF Pull

LEMMA KeptStep == IInv /\ [Next]_vars => IInv'
<1>. SUFFICES ASSUME IInv, [Next]_vars PROVE IInv'
  OBVIOUS
<1>1. TInv'
  BY TypeStep DEF IInv
<1>2. CASE \E f \in Files : Edit(f) \/ RemoveFile(f) \/ ForeignPush(f) \/ ForeignRemove(f)
  BY <1>1, <1>2, UserKeeps, ForeignKeeps DEF IInv
<1>3. CASE SyncBegin \/ Sync
  BY <1>1, <1>3, QuietKeeps, StageKeeps, CommitKeeps, PushKeeps, PullKeeps DEF Sync, IInv
<1>4. CASE PollBegin \/ Poll
  BY <1>1, <1>4, QuietKeeps, PullKeeps DEF Poll, IInv
<1>5. CASE OpenDiscard \/ OpenClone \/ OpenReuse \/ StartupFetch \/ Crash
  BY <1>1, <1>5, DiscardKeeps, CloneKeeps, QuietKeeps, CrashKeeps DEF IInv
<1>6. CASE UNCHANGED vars
  BY <1>1, <1>6, StutterKeeps DEF IInv
<1>. QED
  BY <1>2, <1>3, <1>4, <1>5, <1>6 DEF Next

LEMMA Kept == Spec => []IInv
<1>1. Init => IInv
  BY TypeInit, KeptInit DEF IInv
<1>. QED
  BY <1>1, KeptStep, PTL DEF Spec

(* No change made in the mount is lost, but for the losses that EditsKept  *)
(* names: a commit, a pull that merges, a push that fails halfway and a    *)
(* restart keep it in the working tree, on a branch or at the remote       *)
(* (engine.rs, pull; sync_lifecycle.rs, push_with_retry).                  *)
THEOREM GitEditsKept == Spec => []EditsKept
<1>1. IInv => EditsKept
  BY DEF IInv, GInv
<1>. QED
  BY <1>1, Kept, PTL

(* No push of the mount takes back what others pushed (push_with_retry).   *)
THEOREM GitRemoteKept == Spec => []RemoteKept
<1>1. IInv => RemoteKept
  BY DEF IInv, GInv
<1>. QED
  BY <1>1, Kept, PTL

(* What the engine counts as synchronized has been pushed (sync_local).    *)
THEOREM GitCleanIsPushed == Spec => []CleanIsPushed
<1>1. IInv => CleanIsPushed
  BY DEF IInv, GInv, CleanIsSettled, Settled, Clean, CleanIsPushed
<1>. QED
  BY <1>1, Kept, PTL

(* A rebase is left behind only where somebody edited under it, the mount  *)
(* died or a file was untracked (engine.rs, pull).                         *)
THEOREM GitRebaseIsFinished == Spec => []RebaseIsFinished
<1>1. IInv => RebaseIsFinished
  BY DEF IInv, GInv
<1>. QED
  BY <1>1, Kept, PTL

(***************************************************************************)
(* What a refresh spares.  A file that was not among the changes at the    *)
(* check was at HEAD what it was at the remote, so that some commit of the *)
(* branch has it as the check has seen it, and goes on having it whatever  *)
(* is committed, pulled and pushed until the refresh pulls.  While nobody  *)
(* pushes a change of it, replaying the branch gives back the file of the  *)
(* branch: up to that commit it is between the two, after it is the same.  *)
(***************************************************************************)
Checked == mode = "up" /\ poll.pc \in {"head", "fetch again", "compare", "pull", "rebasing"}

PollFields ==
  /\ mode = "up" => poll.pc # "startup"
  /\ mode = "up" /\ poll.pc # "idle" => {"spared", "seen"} \subseteq DOMAIN poll
  /\ Checked => poll.seen \in 1..Len(remote) /\ poll.spared \subseteq Files

Stuck == repo.rebase # None /\ ~Rebasing
Seen(f) == remote[poll.seen][f]
Quiet(f) == \A i \in poll.seen..Len(remote) : remote[i][f] = Seen(f)
Between(o, c, v) == o \subseteq c \cup v /\ c \cap v \subseteq o

OnBranch(f) ==
  \E j \in 0..Len(repo.branch.ahead) :
    /\ At(remote, repo.branch, j)[f] = Seen(f)
    /\ Rebasing /\ j \leq repo.done =>
         Top(remote, repo.rebase)[f] = At(remote, repo.branch, repo.done)[f]

OnRebase(f) ==
  Rebasing =>
    /\ repo.rebase.base \geq poll.seen
    /\ Between(Top(remote, repo.rebase)[f], At(remote, repo.branch, repo.done)[f], Seen(f))

SparedStays ==
  Checked => \A f \in poll.spared : Quiet(f) => Stuck \/ (OnBranch(f) /\ OnRebase(f))

SInv == TInv /\ PollFields /\ SparedStays

(* A pick of a commit that lies between what it is applied to and v.       *)
LEMMA MergeBetween ==
  ASSUME NEW c, NEW d, NEW o, NEW v, Between(o, c, v)
  PROVE  /\ Between(Merge(c, d, o), d, v)
         /\ d = v => Merge(c, d, o) = v
         /\ o = c => Merge(c, d, o) = d
<1>1. CASE c = d
  BY <1>1 DEF Merge, Between
<1>2. CASE c # d /\ (c = o \/ d = o)
  BY <1>2 DEF Merge, Between
<1>3. CASE c # d /\ ~(c = o \/ d = o)
  <2>1. Merge(c, d, o) = (d \cap o) \cup (d \ c) \cup (o \ c)
    BY <1>3 DEF Merge
  <2>. QED
    BY <1>3, <2>1 DEF Between
<1>. QED
  BY <1>1, <1>2, <1>3

LEMMA FieldsInit == Init => PollFields /\ SparedStays
BY DEF Init, PollFields, SparedStays, Checked, NoPoll

(* How a step of the refresh's own changes the call.                       *)
LEMMA PollToFields ==
  ASSUME NEW pc, PollTo(pc), PollType
  PROVE  /\ poll'.pc = pc /\ DOMAIN poll' = DOMAIN poll
         /\ {"spared", "seen"} \subseteq DOMAIN poll =>
              poll'.spared = poll.spared /\ poll'.seen = poll.seen
BY DEF PollTo, PollType

(* The end of the refresh, and of the startup.                             *)
LEMMA IdleFields ==
  ASSUME poll' = NoPoll
  PROVE  PollFields' /\ ~Checked' /\ SparedStays'
BY DEF NoPoll, PollFields, Checked, SparedStays

LEMMA DownFields ==
  ASSUME mode' # "up"
  PROVE  PollFields' /\ ~Checked' /\ SparedStays'
BY DEF PollFields, Checked, SparedStays

(* Steps that leave the refresh alone.                                     *)
LEMMA OtherFields ==
  ASSUME TInv, PollFields, UNCHANGED <<poll, mode>>, Len(remote') \in Nat, Len(remote') \geq Len(remote)
  PROVE  PollFields' /\ (Checked' <=> Checked)
<1>1. 1..Len(remote) \subseteq 1..Len(remote')
  BY DEF TInv, StoreType
<1>2. Checked' <=> Checked
  BY DEF Checked
<1>. QED
  BY <1>1, <1>2 DEF PollFields

(* Steps that keep the remote, the branches and the refresh's question.    *)
LEMMA StoreSpares ==
  ASSUME SInv, UNCHANGED remote, repo'.branch = repo.branch, repo'.rebase = repo.rebase,
         repo'.done = repo.done, Rebasing' <=> Rebasing,
         Checked' => Checked /\ poll'.spared = poll.spared /\ poll'.seen = poll.seen
  PROVE  SparedStays'
<1>. SUFFICES ASSUME Checked', NEW f \in poll'.spared, Quiet(f)' PROVE Stuck' \/ (OnBranch(f)' /\ OnRebase(f)')
  BY DEF SparedStays
<1>1. Checked /\ f \in poll.spared /\ Quiet(f) /\ Seen(f)' = Seen(f)
  BY DEF Quiet, Seen
<1>2. Stuck \/ (OnBranch(f) /\ OnRebase(f))
  BY <1>1 DEF SInv, SparedStays
<1>. QED
  BY <1>1, <1>2 DEF Stuck, OnBranch, OnRebase, Top, At

(* Steps of the refresh before it pulls.                                   *)
LEMMA PollSpares ==
  ASSUME PathsAgree, SInv, PollBegin \/ PollFetch \/ PollCheck \/ PollHead \/ PollCompare
  PROVE  PollFields' /\ SparedStays'
<1>. USE DEF SInv
<1>1. mode = "up" => mode' = "up"
  BY DEF PollBegin, PollFetch, PollCheck, PollHead, PollCompare
<1>2. CASE mode # "up"
  <2>1. mode' # "up"
    BY <1>2 DEF PollBegin, PollFetch, PollCheck, PollHead, PollCompare
  <2>. QED
    BY <2>1, DownFields
<1>3. CASE PollEnds
  BY <1>3, IdleFields DEF PollEnds
<1>4. CASE mode = "up" /\ PollBegin
  <2>1. poll'.pc = "fetch" /\ DOMAIN poll' = {"pc", "head", "spared", "seen"} /\ mode' = "up"
    BY <1>4 DEF PollBegin
  <2>. QED
    BY <2>1 DEF PollFields, Checked, SparedStays
<1>5. CASE mode = "up" /\ (PollFetch \/ PollCompare) /\ ~PollEnds
  <2>1. PICK pc \in {"check", "compare", "pull"} :
          PollTo(pc) /\ (pc # "check" => poll.pc \in {"fetch again", "compare"})
                     /\ poll.pc # "idle" /\ poll.pc # "rebasing"
    BY <1>5 DEF PollFetch, PollCompare
  <2>2. /\ poll'.pc = pc /\ DOMAIN poll' = DOMAIN poll
        /\ poll'.spared = poll.spared /\ poll'.seen = poll.seen
    BY <1>5, <2>1, PollToFields DEF PollFields, TInv
  <2>3. Checked' => Checked
    BY <1>5, <2>1, <2>2 DEF Checked
  <2>4. /\ UNCHANGED <<remote, mode, sync>> /\ repo'.branch = repo.branch /\ repo'.rebase = repo.rebase
        /\ repo'.done = repo.done
    <3>1. CASE PollFetch
      <4>1. UNCHANGED <<remote, work, history, mode, sync>> /\ (Fetched \/ FetchFailed)
        BY <3>1 DEF PollFetch
      <4>. QED
        BY <4>1, FetchTypes
    <3>. QED
      BY <1>5, <3>1 DEF PollCompare
  <2>5. Rebasing' <=> Rebasing
    BY <2>1, <2>2, <2>4 DEF Rebasing
  <2>6. PollFields'
    BY <1>5, <2>1, <2>2, <2>3, <2>4 DEF PollFields, Checked
  <2>. QED
    BY <2>2, <2>3, <2>4, <2>5, <2>6, StoreSpares
<1>6. CASE mode = "up" /\ PollHead
  <2>1. UNCHANGED <<remote, repo, mode, sync>> /\ poll.pc = "head"
        /\ poll' = [poll EXCEPT !.pc = "fetch again", !.head = Tip(HEAD)]
    BY <1>6 DEF PollHead
  <2>2. /\ poll'.pc = "fetch again" /\ DOMAIN poll' = DOMAIN poll
        /\ poll'.spared = poll.spared /\ poll'.seen = poll.seen
    BY <1>6, <2>1 DEF PollFields, TInv, PollType
  <2>3. Checked /\ (Rebasing' <=> Rebasing)
    BY <1>6, <2>1, <2>2 DEF Checked, Rebasing
  <2>4. PollFields'
    BY <2>1, <2>2, <2>3 DEF PollFields, Checked
  <2>. QED
    BY <2>1, <2>2, <2>3, <2>4, StoreSpares
<1>7. CASE mode = "up" /\ PollCheck /\ ~PollEnds
  <2>1. /\ UNCHANGED <<remote, repo, mode, sync, protected>> /\ poll.pc = "check"
        /\ poll' = [poll EXCEPT !.pc = "head", !.spared = Spared, !.seen = repo.origin]
        /\ \A f \in Differ(Tip(HEAD), Origin) : ~IsProtected(f)
    BY <1>7 DEF PollCheck
  <2>2. /\ poll'.pc = "head" /\ DOMAIN poll' = DOMAIN poll
        /\ poll'.spared = Spared /\ poll'.seen = repo.origin
    BY <1>7, <2>1 DEF PollFields, TInv, PollType
  <2>3. /\ mode' = "up" /\ Spared \subseteq Files /\ repo.origin \in 1..Len(remote)
        /\ (Rebasing' <=> Rebasing) /\ repo.cloned
    BY <1>7, <2>1, <2>2 DEF Spared, TInv, RestType, StoreType, Rebasing, Control
  <2>4. PollFields'
    BY <1>7, <2>1, <2>2, <2>3 DEF PollFields, Checked
  <2>5. ASSUME NEW f \in Spared, ~Stuck PROVE OnBranch(f)' /\ OnRebase(f)'
    <3>1. ~Rebasing /\ f \in protected /\ f \in Files
      BY <2>3, <2>5 DEF Spared
    <3>2. repo.rebase = None /\ HEAD = repo.branch
      BY <2>5, <3>1 DEF Stuck, HEAD
    <3>3. Tip(HEAD)[f] = Origin[f]
      BY <2>1, <3>1 DEF Differ, IsProtected
    <3>4. Top(remote, repo.branch)[f] = remote[repo.origin][f]
      BY <2>3, <3>2, <3>3, BranchTypes DEF Origin
    <3>5. Len(repo.branch.ahead) \in 0..Len(repo.branch.ahead)
      BY DEF TInv, StoreType, Line
    <3>6. ~Rebasing' /\ Seen(f)' = remote[repo.origin][f]
      BY <2>1, <2>2, <2>3, <3>1 DEF Seen
    <3>. QED
      BY <2>1, <3>4, <3>5, <3>6 DEF OnBranch, OnRebase, Top, At
  <2>6. Stuck' <=> Stuck
    BY <2>1, <2>3 DEF Stuck
  <2>. QED
    BY <2>2, <2>4, <2>5, <2>6 DEF SparedStays
<1>. QED
  BY <1>2, <1>3, <1>4, <1>5, <1>6, <1>7

(***************************************************************************)
(* Steps while the refresh waits.                                          *)
(***************************************************************************)
Extends == /\ Len(remote') \in Nat /\ Len(remote') \geq Len(remote)
           /\ \A i \in 1..Len(remote) : remote'[i] = remote[i]

LEMMA QuietBefore ==
  ASSUME TInv, PollFields, Checked, UNCHANGED poll, Extends, NEW f, Quiet(f)'
  PROVE  /\ Quiet(f) /\ Seen(f)' = Seen(f)
         /\ \A i \in poll.seen..Len(remote') : remote'[i][f] = Seen(f)
<1>1. Len(remote) \in Nat /\ poll.seen \in 1..Len(remote)
  BY DEF TInv, StoreType, PollFields
<1>2. Seen(f)' = Seen(f)
  BY <1>1 DEF Seen, Extends
<1>3. \A i \in poll.seen..Len(remote') : remote'[i][f] = Seen(f)
  BY <1>2 DEF Quiet
<1>4. \A i \in poll.seen..Len(remote) : i \in poll.seen..Len(remote') /\ remote'[i] = remote[i]
  BY <1>1 DEF Extends
<1>. QED
  BY <1>2, <1>3, <1>4 DEF Quiet

(* A branch without commits of its own, based on what came after the check. *)
LEMMA NewBranchSpares ==
  ASSUME TInv, PollFields, Checked, UNCHANGED poll, Extends, NEW f, Quiet(f)', ~Rebasing',
         repo'.branch.base \in poll.seen..Len(remote'), repo'.branch.ahead \in Seq(TreeOf(Made'))
  PROVE  OnBranch(f)' /\ OnRebase(f)'
<1>1. remote'[repo'.branch.base][f] = Seen(f)'
  BY QuietBefore
<1>2. At(remote, repo.branch, 0)'[f] = Seen(f)'
  BY <1>1 DEF At
<1>3. 0 \in 0..Len(repo'.branch.ahead)
  OBVIOUS
<1>. QED
  BY <1>2, <1>3 DEF OnBranch, OnRebase

(* Others push.                                                            *)
LEMMA GrownSpares ==
  ASSUME SInv, UNCHANGED <<repo, poll, mode, sync>>, Extends
  PROVE  PollFields' /\ SparedStays'
<1>. USE DEF SInv
<1>1. PollFields' /\ (Checked' <=> Checked)
  BY OtherFields DEF Extends
<1>2. ASSUME Checked, NEW f \in poll.spared, Quiet(f)'
      PROVE  Stuck' \/ (OnBranch(f)' /\ OnRebase(f)')
  <2>1. Quiet(f) /\ Seen(f)' = Seen(f)
    BY <1>2, QuietBefore
  <2>2. Stuck \/ (OnBranch(f) /\ OnRebase(f))
    BY <1>2, <2>1 DEF SparedStays
  <2>3. (Stuck' <=> Stuck) /\ (Rebasing' <=> Rebasing)
    BY DEF Stuck, Rebasing
  <2>4. repo.branch.base # 0
    BY <1>2 DEF Checked, TInv, Control
  <2>5. \A i : At(remote', repo.branch, i) = At(remote, repo.branch, i)
    <3>1. repo.branch.base \in 1..Len(remote)
      BY <2>4 DEF TInv, StoreType, Line
    <3>. QED
      BY <3>1 DEF At, Extends
  <2>6. Rebasing => Top(remote', repo.rebase) = Top(remote, repo.rebase)
    BY <2>4, LineStays DEF Extends, TInv, StoreType, Control
  <2>. QED
    BY <2>1, <2>2, <2>3, <2>5, <2>6 DEF OnBranch, OnRebase
<1>. QED
  BY <1>1, <1>2 DEF SparedStays

LEMMA UserSpares ==
  ASSUME SInv, NEW f \in Files, Edit(f) \/ RemoveFile(f) \/ ForeignPush(f) \/ ForeignRemove(f)
  PROVE  PollFields' /\ SparedStays'
<1>1. UNCHANGED <<repo, poll, mode, sync>>
  BY DEF Edit, RemoveFile, ForeignPush, ForeignRemove, Touched
<1>2. Extends
  <2>1. remote' = remote \/ \E t : remote' = Append(remote, t)
    BY DEF Edit, RemoveFile, ForeignPush, ForeignRemove, Touched
  <2>. QED
    BY <2>1 DEF Extends, SInv, TInv, StoreType
<1>. QED
  BY <1>1, <1>2, GrownSpares

(* The sync commits.                                                       *)
LEMMA CommitSpares == ASSUME SInv, Commit PROVE PollFields' /\ SparedStays'
<1>. USE DEF SInv
<1>1. /\ UNCHANGED <<remote, poll, mode>> /\ ~Rebasing /\ sync.pc = "commit"
      /\ sync' = NoSync \/ sync' = [sync EXCEPT !.pc = "push"]
      /\ \/ repo' = repo
         \/ repo.rebase # None /\ repo' = [repo EXCEPT !.rebase.ahead = Append(@, repo.index)]
         \/ repo.rebase = None /\ repo' = [repo EXCEPT !.branch.ahead = Append(@, repo.index)]
  BY DEF Commit, SyncError, SyncEnds
<1>2. sync'.pc # "rebasing"
  BY <1>1 DEF NoSync, TInv, SyncType
<1>3. ~Rebasing'
  BY <1>1, <1>2 DEF Rebasing
<1>4. PollFields' /\ (Checked' <=> Checked)
  <2>1. Len(remote) \in Nat
    BY DEF TInv, StoreType
  <2>. QED
    BY <1>1, <2>1, OtherFields
<1>5. CASE repo' = repo
  BY <1>1, <1>3, <1>4, <1>5, StoreSpares
<1>6. CASE repo.rebase # None /\ repo' = [repo EXCEPT !.rebase.ahead = Append(@, repo.index)]
  <2>1. repo'.rebase.base = repo.rebase.base /\ repo.rebase.base # 0
    BY <1>6 DEF TInv, StoreType, Line, Control
  <2>2. Stuck'
    BY <1>3, <2>1 DEF Stuck, None
  <2>. QED
    BY <1>4, <2>2 DEF SparedStays
<1>7. CASE repo.rebase = None /\ repo' = [repo EXCEPT !.branch.ahead = Append(@, repo.index)]
  <2>1. /\ repo'.branch.base = repo.branch.base
        /\ repo'.branch.ahead = Append(repo.branch.ahead, repo.index)
    BY <1>7 DEF TInv, StoreType, Line
  <2>2. \A j \in 0..Len(repo.branch.ahead) :
          At(remote, repo.branch, j)' = At(remote, repo.branch, j) /\ j \in 0..Len(repo'.branch.ahead)
    BY <1>1, <2>1 DEF TInv, StoreType, Line, At
  <2>3. ASSUME Checked, NEW f \in poll.spared, Quiet(f)'
        PROVE  OnBranch(f)' /\ OnRebase(f)'
    <3>1. Quiet(f) /\ Seen(f)' = Seen(f) /\ ~Stuck
      BY <1>1, <1>7, <2>3 DEF Quiet, Seen, Stuck
    <3>2. PICK j \in 0..Len(repo.branch.ahead) : At(remote, repo.branch, j)[f] = Seen(f)
      BY <2>3, <3>1 DEF SparedStays, OnBranch
    <3>. QED
      BY <1>3, <2>2, <3>1, <3>2 DEF OnBranch, OnRebase
  <2>. QED
    BY <1>1, <1>4, <2>3 DEF SparedStays
<1>. QED
  BY <1>1, <1>5, <1>6, <1>7

(* The sync pushes: the branch is what the server has.                     *)
LEMMA PushSpares == ASSUME SInv, Push \/ PushFails PROVE PollFields' /\ SparedStays'
<1>. USE DEF SInv
<1>1. /\ UNCHANGED <<poll, mode>> /\ ~Rebasing /\ sync' = NoSync /\ mode # "down" /\ repo.cloned
      /\ \/ UNCHANGED <<repo, remote>>
         \/ /\ Pushed
            /\ repo'.branch = [base |-> Len(remote'), ahead |-> <<>>]
            /\ repo'.rebase = repo.rebase
  BY DEF Push, PushFails, SyncSucceeds, TInv, Control, StoreType
<1>2. ~Rebasing'
  BY <1>1 DEF Rebasing, NoSync
<1>3. CASE UNCHANGED <<repo, remote>>
  <2>1. Len(remote) \in Nat
    BY DEF TInv, StoreType
  <2>. QED
    BY <1>1, <1>2, <1>3, <2>1, OtherFields, StoreSpares
<1>4. CASE /\ Pushed
           /\ repo'.branch = [base |-> Len(remote'), ahead |-> <<>>]
           /\ repo'.rebase = repo.rebase
  <2>1. Extends
    BY <1>4 DEF Pushed, Extends, TInv, StoreType, Line
  <2>2. PollFields' /\ (Checked' <=> Checked)
    BY <1>1, <2>1, OtherFields DEF Extends
  <2>3. ASSUME Checked, NEW f \in poll.spared, Quiet(f)'
        PROVE  OnBranch(f)' /\ OnRebase(f)'
    <3>1. repo'.branch.base \in poll.seen..Len(remote')
      BY <1>4, <2>1, <2>3 DEF Extends, PollFields, TInv, StoreType
    <3>2. repo'.branch.ahead \in Seq(TreeOf(Made'))
      BY <1>4
    <3>. QED
      BY <1>1, <1>2, <2>1, <2>3, <3>1, <3>2, NewBranchSpares
  <2>. QED
    BY <1>1, <2>2, <2>3 DEF SparedStays
<1>. QED
  BY <1>1, <1>3, <1>4

LEMMA QuietSyncSpares ==
  ASSUME SInv, SyncBegin \/ Stage \/ PushRejected
  PROVE  PollFields' /\ SparedStays'
<1>. USE DEF SInv
<1>1. /\ UNCHANGED <<remote, poll, mode>> /\ sync.pc # "rebasing"
      /\ repo'.branch = repo.branch /\ repo'.rebase = repo.rebase /\ repo'.done = repo.done
      /\ \/ sync' = NoSync
         \/ \E pc \in {"commit", "pull"} : sync'.pc = pc
         \/ sync'.pc = "stage"
  <2>1. CASE SyncBegin
    BY <2>1 DEF SyncBegin
  <2>2. CASE Stage
    <3>1. /\ UNCHANGED <<remote, poll, mode>> /\ sync.pc = "stage"
          /\ repo' = repo \/ \E x : repo' = [repo EXCEPT !.index = x]
          /\ sync' = NoSync \/ sync' = [sync EXCEPT !.pc = "commit"]
      BY <2>2 DEF Stage, SyncError, SyncEnds
    <3>2. repo'.branch = repo.branch /\ repo'.rebase = repo.rebase /\ repo'.done = repo.done
      BY <3>1 DEF TInv, StoreType
    <3>. QED
      BY <3>1, <3>2 DEF TInv, SyncType
  <2>3. CASE PushRejected
    BY <2>3 DEF PushRejected, SyncConflict, SyncEnds, TInv, SyncType
  <2>. QED
    BY <2>1, <2>2, <2>3
<1>2. Rebasing' <=> Rebasing
  BY <1>1 DEF Rebasing, NoSync
<1>3. Len(remote) \in Nat
  BY DEF TInv, StoreType
<1>. QED
  BY <1>1, <1>2, <1>3, OtherFields, StoreSpares

(***************************************************************************)
(* Pulls.                                                                  *)
(***************************************************************************)
(* The pull of a sync leaves the refresh alone; that of a refresh ends it. *)
LEMMA EndsFields ==
  ASSUME TInv, PollFields, NEW who \in {"sync", "poll"}, NEW result \in {"ok", "error", "conflict"},
         PullEnds(who, result), Pulls(who) \/ IsRebasing(who), UNCHANGED remote
  PROVE  /\ ~Rebasing' /\ PollFields' /\ (Checked' => Checked /\ who = "sync" /\ UNCHANGED poll)
<1>1. ~Rebasing'
  BY EndsType
<1>2. CASE who = "sync"
  <2>1. UNCHANGED <<poll, mode>>
    BY <1>2 DEF PullEnds
  <2>2. Len(remote) \in Nat
    BY DEF TInv, StoreType
  <2>. QED
    BY <1>1, <1>2, <2>1, <2>2, OtherFields
<1>3. CASE who = "poll"
  <2>1. poll' = NoPoll
    BY <1>3 DEF PullEnds
  <2>. QED
    BY <1>1, <2>1, IdleFields
<1>. QED
  BY <1>2, <1>3

(* The end of a pull that keeps the branch.                                *)
LEMMA EndsSpares ==
  ASSUME SInv, NEW who \in {"sync", "poll"}, NEW result \in {"ok", "error", "conflict"},
         PullEnds(who, result), Pulls(who) \/ IsRebasing(who), UNCHANGED remote,
         repo'.branch = repo.branch,
         repo'.rebase # None \/ repo.rebase = None \/ Rebasing
  PROVE  PollFields' /\ SparedStays'
<1>1. ~Rebasing' /\ PollFields' /\ (Checked' => Checked /\ who = "sync" /\ UNCHANGED poll)
  BY EndsFields DEF SInv
<1>2. ASSUME Checked', NEW f \in poll'.spared, Quiet(f)'
      PROVE  Stuck' \/ (OnBranch(f)' /\ OnRebase(f)')
  <2>1. CASE repo'.rebase # None
    BY <1>1, <2>1 DEF Stuck
  <2>2. CASE repo.rebase = None \/ Rebasing
    <3>1. Checked /\ f \in poll.spared /\ Quiet(f) /\ Seen(f)' = Seen(f)
      BY <1>1, <1>2 DEF Quiet, Seen
    <3>2. PICK j \in 0..Len(repo.branch.ahead) : At(remote, repo.branch, j)[f] = Seen(f)
      BY <2>2, <3>1 DEF SInv, SparedStays, Stuck, OnBranch
    <3>. QED
      BY <1>1, <3>1, <3>2 DEF OnBranch, OnRebase, At
  <2>. QED
    BY <2>1, <2>2
<1>. QED
  BY <1>1, <1>2 DEF SparedStays

(* A pull that replays nothing: the branch is the server's, or as it was.  *)
LEMMA ForwardsStore ==
  ASSUME TInv, NEW who \in {"sync", "poll"}, PullForwards(who)
  PROVE  /\ UNCHANGED remote /\ ~Rebasing /\ PullEnds(who, "ok") /\ Pulls(who)
         /\ \/ /\ repo'.branch = repo.branch
               /\ repo'.rebase # None \/ repo.rebase = None
            \/ /\ repo.rebase = None /\ repo.branch.ahead = <<>>
               /\ repo'.branch = [base |-> Len(remote), ahead |-> <<>>]
<1>. USE DEF TInv
<1>1. UNCHANGED remote /\ ~Rebasing /\ PullEnds(who, "ok") /\ Pulls(who)
  BY DEF PullForwards, Pulls
<1>2. CASE repo.rebase # None /\ HEAD.ahead = <<>>
  <2>1. repo'.branch = repo.branch /\ repo'.rebase = [base |-> Len(remote), ahead |-> <<>>]
    BY <1>2 DEF PullForwards, StoreType
  <2>2. Len(remote) # 0
    BY DEF StoreType
  <2>. QED
    BY <1>1, <2>1, <2>2 DEF None
<1>3. CASE repo.rebase = None /\ HEAD.ahead = <<>>
  <2>1. repo'.branch = [base |-> Len(remote), ahead |-> <<>>] /\ HEAD = repo.branch
    BY <1>3 DEF PullForwards, StoreType, HEAD
  <2>. QED
    BY <1>1, <1>3, <2>1
<1>4. CASE HEAD.ahead # <<>>
  <2>1. repo'.branch = repo.branch /\ repo.rebase = None
    BY <1>4 DEF PullForwards, StoreType
  <2>. QED
    BY <1>1, <2>1
<1>. QED
  BY <1>2, <1>3, <1>4

LEMMA PullForwardsSpares ==
  ASSUME SInv, NEW who \in {"sync", "poll"}, PullForwards(who)
  PROVE  PollFields' /\ SparedStays'
<1>. USE DEF SInv
<1>1. /\ UNCHANGED remote /\ ~Rebasing /\ PullEnds(who, "ok") /\ Pulls(who)
      /\ \/ /\ repo'.branch = repo.branch
            /\ repo'.rebase # None \/ repo.rebase = None
         \/ /\ repo.rebase = None /\ repo.branch.ahead = <<>>
            /\ repo'.branch = [base |-> Len(remote), ahead |-> <<>>]
  BY ForwardsStore
<1>2. CASE repo'.branch = repo.branch /\ (repo'.rebase # None \/ repo.rebase = None)
  BY <1>1, <1>2, EndsSpares
<1>3. CASE repo'.branch = [base |-> Len(remote), ahead |-> <<>>]
  <2>1. ~Rebasing' /\ PollFields' /\ (Checked' => Checked /\ who = "sync" /\ UNCHANGED poll)
    BY <1>1, EndsFields
  <2>2. Extends
    BY <1>1 DEF Extends, TInv, StoreType
  <2>3. ASSUME Checked', NEW f \in poll'.spared, Quiet(f)'
        PROVE  OnBranch(f)' /\ OnRebase(f)'
    <3>1. repo'.branch.base \in poll.seen..Len(remote')
      BY <1>1, <1>3, <2>1, <2>3 DEF PollFields, TInv, StoreType
    <3>2. repo'.branch.ahead \in Seq(TreeOf(Made'))
      BY <1>3
    <3>. QED
      BY <2>1, <2>2, <2>3, <3>1, <3>2, NewBranchSpares
  <2>. QED
    BY <2>1, <2>3 DEF SparedStays
<1>. QED
  BY <1>1, <1>2, <1>3

(* The commits are replayed: the branch's own come after the server's.     *)
LEMMA PullFinishesSpares ==
  ASSUME SInv, NEW who \in {"sync", "poll"}, PullFinishes(who)
  PROVE  PollFields' /\ SparedStays'
<1>. USE DEF SInv
<1>1. /\ UNCHANGED remote /\ Rebasing /\ PullEnds(who, "ok") /\ IsRebasing(who)
      /\ repo'.branch = repo.rebase
  BY DEF PullFinishes, IsRebasing, Rebasing, TInv, StoreType
<1>2. ~Rebasing' /\ PollFields' /\ (Checked' => Checked /\ who = "sync" /\ UNCHANGED poll)
  BY <1>1, EndsFields
<1>3. Extends
  BY <1>1 DEF Extends, TInv, StoreType
<1>4. ASSUME Checked', NEW f \in poll'.spared, Quiet(f)'
      PROVE  OnBranch(f)' /\ OnRebase(f)'
  <2>1. Checked /\ f \in poll.spared /\ Quiet(f)
    BY <1>1, <1>2, <1>4 DEF Quiet, Seen
  <2>2. repo.rebase.base \geq poll.seen
    BY <1>1, <2>1 DEF SparedStays, Stuck, OnRebase
  <2>3. repo.rebase \in Line(remote, Made) /\ poll.seen \in Nat /\ Len(remote) \in Nat
    BY <2>1 DEF TInv, StoreType, PollFields
  <2>4. repo'.branch.base \in poll.seen..Len(remote')
    BY <1>1, <2>2, <2>3 DEF Line
  <2>5. repo'.branch.ahead \in Seq(TreeOf(Made'))
    <3>1. Made' = Made
      BY MadeSame DEF PullFinishes
    <3>. QED
      BY <1>1, <2>3, <3>1 DEF Line
  <2>. QED
    BY <1>2, <1>3, <1>4, <2>1, <2>4, <2>5, NewBranchSpares
<1>. QED
  BY <1>2, <1>4 DEF SparedStays

LEMMA PullKeepsBranchSpares ==
  ASSUME SInv, NEW who \in {"sync", "poll"}, PullFails(who) \/ PullAborts(who) \/ PullStops(who)
  PROVE  PollFields' /\ SparedStays' /\ Tip(repo.branch)' = Tip(repo.branch)
<1>. USE DEF SInv
<1>1. CASE PullFails(who)
  <2>1. UNCHANGED remote /\ PullEnds(who, "error") /\ Pulls(who) /\ ~Rebasing
    BY <1>1 DEF PullFails, Pulls
  <2>2. repo'.branch = repo.branch /\ repo'.rebase = repo.rebase
    BY <1>1, PullFailsTypes DEF TInv, StoreType
  <2>. QED
    BY <2>1, <2>2, EndsSpares DEF Tip, Last
<1>2. CASE PullAborts(who) \/ PullStops(who)
  <2>1. /\ UNCHANGED remote /\ IsRebasing(who) /\ Rebasing /\ repo'.branch = repo.branch
        /\ \E result \in {"ok", "error", "conflict"} : PullEnds(who, result)
    BY <1>2 DEF PullAborts, PullStops, Picking, IsRebasing, Rebasing, TInv, StoreType
  <2>. QED
    BY <2>1, EndsSpares DEF Tip, Last
<1>. QED
  BY <1>1, <1>2

(* A rebase begins at the server's branch, where the file is as it was seen. *)
LEMMA PullBeginSpares ==
  ASSUME SInv, NEW who \in {"sync", "poll"}, PullBegin(who)
  PROVE  PollFields' /\ SparedStays'
<1>. USE DEF SInv
<1>1. /\ UNCHANGED <<remote, mode>> /\ ~Rebasing /\ Pulls(who) /\ repo.rebase = None
      /\ repo'.branch = repo.branch /\ repo'.done = repo.done
      /\ repo'.rebase = [base |-> Len(remote), ahead |-> <<>>]
  BY DEF PullBegin, Pulls, TInv, StoreType
<1>2. repo.done = 0 /\ Len(remote) \in Nat
  BY <1>1 DEF TInv, Control, StoreType
<1>3. PollFields' /\ (Checked' => Checked /\ poll'.spared = poll.spared /\ poll'.seen = poll.seen)
  <2>1. CASE who = "sync"
    <3>1. UNCHANGED poll
      BY <2>1 DEF PullBegin
    <3>. QED
      BY <1>1, <1>2, <3>1, OtherFields
  <2>2. CASE who = "poll" /\ mode = "up"
    <3>1. PollTo("rebasing") /\ poll.pc = "pull"
      BY <2>2 DEF PullBegin, PollTo, Pulls
    <3>2. /\ poll'.pc = "rebasing" /\ DOMAIN poll' = DOMAIN poll
          /\ poll'.spared = poll.spared /\ poll'.seen = poll.seen
      BY <2>2, <3>1, PollToFields DEF PollFields, TInv
    <3>. QED
      BY <1>1, <2>2, <3>1, <3>2 DEF PollFields, Checked
  <2>3. CASE mode # "up"
    BY <1>1, <2>3, DownFields
  <2>. QED
    BY <2>1, <2>2, <2>3
<1>4. ASSUME Checked', NEW f \in poll'.spared, Quiet(f)'
      PROVE  OnBranch(f)' /\ OnRebase(f)'
  <2>1. Checked /\ f \in poll.spared /\ Quiet(f) /\ Seen(f)' = Seen(f) /\ ~Stuck
    BY <1>1, <1>3, <1>4 DEF Quiet, Seen, Stuck
  <2>2. PICK j \in 0..Len(repo.branch.ahead) : At(remote, repo.branch, j)[f] = Seen(f)
    BY <2>1 DEF SparedStays, OnBranch
  <2>3. Top(remote, repo.rebase)' = remote[Len(remote)]
    BY <1>1 DEF Top, At
  <2>4. remote[Len(remote)][f] = Seen(f) /\ Len(remote) \geq poll.seen
    BY <1>2, <2>1 DEF Quiet, PollFields
  <2>5. OnBranch(f)'
    <3>1. At(remote, repo.branch, j)'[f] = Seen(f)' /\ j \in 0..Len(repo'.branch.ahead)
      BY <1>1, <2>1, <2>2 DEF At
    <3>2. j \leq repo'.done => Top(remote, repo.rebase)'[f] = At(remote, repo.branch, repo.done)'[f]
      BY <1>1, <1>2, <2>1, <2>3, <2>4, <3>1
    <3>. QED
      BY <3>1, <3>2 DEF OnBranch
  <2>6. OnRebase(f)'
    BY <1>1, <1>3, <1>4, <2>1, <2>3, <2>4 DEF OnRebase, Between
  <2>. QED
    BY <2>5, <2>6
<1>. QED
  BY <1>3, <1>4 DEF SparedStays

(* A commit is replayed: once the file was as it was seen, the rebase has  *)
(* what the branch has.                                                    *)
LEMMA PicksTop ==
  ASSUME TInv, NEW who \in {"sync", "poll"}, PullPicks(who)
  PROVE  Top(remote, repo.rebase)' = Picked
<1>. USE DEF TInv
<1>1. Picking(who) /\ UNCHANGED remote
  BY DEF PullPicks
<1>2. /\ TInv' /\ repo'.rebase.base = repo.rebase.base
      /\ \/ Picked = Onto /\ repo'.rebase = repo.rebase
         \/ repo'.rebase.ahead = Append(repo.rebase.ahead, Picked)
  BY PullPicksTypes
<1>3. Onto = Top(remote, repo.rebase)
  BY <1>1, PickTypes
<1>4. repo.rebase.ahead \in Seq(TreeOf(Made))
  BY DEF StoreType, Line
<1>. QED
  BY <1>1, <1>2, <1>3, <1>4 DEF Top, At

LEMMA PullPicksSpares ==
  ASSUME SInv, NEW who \in {"sync", "poll"}, PullPicks(who)
  PROVE  PollFields' /\ SparedStays'
<1>. USE DEF SInv
<1>1. /\ Picking(who) /\ ~Clashes /\ UNCHANGED <<remote, mode, sync, poll>> /\ Rebasing /\ Rebasing'
  BY PullPicksTypes DEF PullPicks, Picking, IsRebasing, Rebasing
<1>2. /\ repo.done + 1 \in 1..Len(repo.branch.ahead) /\ repo.done \in Nat
      /\ Before = At(remote, repo.branch, repo.done)
      /\ After = At(remote, repo.branch, repo.done + 1)
      /\ Onto = Top(remote, repo.rebase)
  BY <1>1, PickTypes DEF TInv, StoreType
<1>3. /\ repo'.branch = repo.branch /\ repo'.done = repo.done + 1
      /\ repo'.rebase.base = repo.rebase.base
  <2>1. repo' = [repo EXCEPT !.done = @ + 1, !.index = Picked, !.rebase = repo'.rebase]
    BY PullPicksTypes
  <2>2. repo'.branch = repo.branch /\ repo'.done = repo.done + 1
    BY <2>1 DEF TInv, StoreType
  <2>. QED
    BY <2>2, PullPicksTypes
<1>4. Len(remote) \in Nat
  BY DEF TInv, StoreType
<1>5. PollFields' /\ (Checked' <=> Checked)
  BY <1>1, <1>4, OtherFields
<1>6. ASSUME Checked, NEW f \in poll.spared, Quiet(f)'
      PROVE  OnBranch(f)' /\ OnRebase(f)'
  <2>1. Quiet(f) /\ Seen(f)' = Seen(f) /\ f \in Files
    BY <1>1, <1>6 DEF Quiet, Seen, PollFields
  <2>2. OnBranch(f) /\ OnRebase(f)
    BY <1>1, <1>6, <2>1 DEF SparedStays, Stuck
  <2>3. PICK j \in 0..Len(repo.branch.ahead) :
          /\ At(remote, repo.branch, j)[f] = Seen(f)
          /\ j \leq repo.done => Onto[f] = Before[f]
    BY <1>1, <1>2, <2>2 DEF OnBranch
  <2>4. Between(Onto[f], Before[f], Seen(f)) /\ repo.rebase.base \geq poll.seen
    BY <1>1, <1>2, <2>2 DEF OnRebase
  <2>5. /\ Between(Picked[f], After[f], Seen(f))
        /\ After[f] = Seen(f) => Picked[f] = Seen(f)
        /\ Onto[f] = Before[f] => Picked[f] = After[f]
    <3>1. Picked[f] = Merge(Before[f], After[f], Onto[f])
      BY <2>1 DEF Picked
    <3>. QED
      BY <2>4, <3>1, MergeBetween
  <2>6. At(remote, repo.branch, repo.done)' = After /\ Top(remote, repo.rebase)' = Picked
    <3>1. At(remote, repo.branch, repo.done)' = After
      BY <1>1, <1>2, <1>3 DEF At
    <3>. QED
      BY <3>1, PicksTop
  <2>7. j \leq repo.done + 1 => Picked[f] = After[f]
    <3>1. CASE j \leq repo.done
      BY <2>3, <2>5, <3>1
    <3>2. CASE j = repo.done + 1
      BY <1>2, <2>3, <2>5, <3>2
    <3>. QED
      BY <1>2, <3>1, <3>2
  <2>8. OnBranch(f)'
    <3>1. At(remote, repo.branch, j)'[f] = Seen(f)' /\ j \in 0..Len(repo'.branch.ahead)
      BY <1>1, <1>3, <2>1, <2>3 DEF At
    <3>. QED
      BY <1>3, <2>6, <2>7, <3>1 DEF OnBranch
  <2>9. OnRebase(f)'
    BY <1>1, <1>3, <2>1, <2>4, <2>5, <2>6 DEF OnRebase
  <2>. QED
    BY <2>8, <2>9
<1>. QED
  BY <1>1, <1>5, <1>6 DEF SparedStays

(* The mount starts and ends.                                              *)
LEMMA OpenSpares ==
  ASSUME SInv, OpenDiscard \/ OpenClone \/ OpenReuse \/ StartupFetch \/ Crash
  PROVE  PollFields' /\ SparedStays'
<1>1. CASE OpenDiscard \/ OpenClone \/ OpenReuse \/ Crash
  <2>1. mode' # "up"
    BY <1>1 DEF OpenDiscard, OpenClone, OpenReuse, Starts, Crash
  <2>. QED
    BY <2>1, DownFields
<1>2. CASE StartupFetch
  <2>1. mode # "up"
    BY <1>2 DEF StartupFetch, SInv, PollFields
  <2>2. mode' = mode \/ poll' = NoPoll
    BY <1>2 DEF StartupFetch, PollEnds
  <2>. QED
    BY <2>1, <2>2, DownFields, IdleFields
<1>. QED
  BY <1>1, <1>2

LEMMA PullSpares == ASSUME SInv, NEW who \in {"sync", "poll"}, Pull(who) PROVE PollFields' /\ SparedStays'
BY PullForwardsSpares, PullFinishesSpares, PullKeepsBranchSpares, PullBeginSpares, PullPicksSpares DEF Pull

LEMMA SparesStep == PathsAgree /\ SInv /\ [Next]_vars => SInv'
<1>. SUFFICES ASSUME PathsAgree, SInv, [Next]_vars PROVE SInv'
  OBVIOUS
<1>1. TInv'
  BY TypeStep DEF SInv
<1>2. CASE \E f \in Files : Edit(f) \/ RemoveFile(f) \/ ForeignPush(f) \/ ForeignRemove(f)
  BY <1>1, <1>2, UserSpares DEF SInv
<1>3. CASE SyncBegin \/ Sync
  BY <1>1, <1>3, QuietSyncSpares, CommitSpares, PushSpares, PullSpares DEF Sync, SInv
<1>4. CASE PollBegin \/ Poll
  BY <1>1, <1>4, PollSpares, PullSpares DEF Poll, SInv
<1>5. CASE OpenDiscard \/ OpenClone \/ OpenReuse \/ StartupFetch \/ Crash
  BY <1>1, <1>5, OpenSpares DEF SInv
<1>6. CASE UNCHANGED vars
  <2>1. UNCHANGED <<remote, repo, sync, poll, mode>> /\ Len(remote) \in Nat
    BY <1>6 DEF vars, SInv, TInv, StoreType
  <2>2. PollFields' /\ (Checked' <=> Checked)
    BY <2>1, OtherFields DEF SInv
  <2>3. SparedStays'
    BY <2>1, <2>2, StoreSpares DEF Rebasing
  <2>. QED
    BY <1>1, <2>2, <2>3 DEF SInv
<1>. QED
  BY <1>2, <1>3, <1>4, <1>5, <1>6 DEF Next

(* A refresh that ends has left a spared file of the branch as it was.     *)
LEMMA RefreshSpares ==
  ASSUME SInv, Pull("poll"), Checked, NEW f \in poll.spared, Quiet(f), poll'.pc = "idle"
  PROVE  Tip(repo.branch)'[f] = Tip(repo.branch)[f]
<1>. USE DEF SInv
<1>1. /\ Tip(repo.branch) = Top(remote, repo.branch) /\ repo.cloned
      /\ repo.rebase # None => Tip(repo.rebase) = Top(remote, repo.rebase)
  BY BranchTypes DEF Checked, TInv, Control
<1>2. CASE PullFails("poll") \/ PullAborts("poll") \/ PullStops("poll")
  BY <1>2, PullKeepsBranchSpares
<1>3. CASE PullForwards("poll")
  <2>1. CASE repo'.branch = repo.branch
    BY <1>3, <2>1, ForwardsStore DEF Tip, Last
  <2>2. CASE /\ repo.rebase = None /\ repo.branch.ahead = <<>>
             /\ repo'.branch = [base |-> Len(remote), ahead |-> <<>>]
    <3>1. OnBranch(f) /\ UNCHANGED remote
      BY <1>3, <2>2, ForwardsStore DEF SparedStays, Stuck
    <3>2. Tip(repo.branch)[f] = Seen(f)
      BY <1>1, <2>2, <3>1 DEF OnBranch, Top
    <3>3. remote[Len(remote)][f] = Seen(f)
      BY DEF Quiet, PollFields, TInv, StoreType
    <3>4. Tip(repo.branch)' = remote[Len(remote)]
      BY <2>2, <3>1 DEF Tip
    <3>. QED
      BY <3>2, <3>3, <3>4
  <2>. QED
    BY <1>3, <2>1, <2>2, ForwardsStore
<1>4. CASE PullFinishes("poll")
  <2>1. /\ UNCHANGED remote /\ Rebasing /\ repo'.branch = repo.rebase /\ repo.rebase # None
        /\ repo.done = Len(repo.branch.ahead)
    BY <1>4 DEF PullFinishes, IsRebasing, Rebasing, TInv, StoreType, Control
  <2>2. OnBranch(f)
    BY <2>1 DEF SparedStays, Stuck
  <2>3. Top(remote, repo.rebase)[f] = Top(remote, repo.branch)[f]
    BY <2>1, <2>2 DEF OnBranch, Top
  <2>4. Tip(repo.branch)' = Tip(repo.rebase)
    BY <2>1 DEF Tip, Last
  <2>. QED
    BY <1>1, <2>1, <2>3, <2>4
<1>5. CASE PullBegin("poll") \/ PullPicks("poll")
  <2>1. poll'.pc = "rebasing"
    BY <1>5 DEF PullBegin, PullPicks, Picking, IsRebasing, TInv, PollType
  <2>. QED
    BY <2>1
<1>. QED
  BY <1>2, <1>3, <1>4, <1>5 DEF Pull

LEMMA RefreshStep ==
  ASSUME SInv, [Next]_vars
  PROVE  [\A f \in Files :
            /\ mode = "up" /\ poll.pc \in {"pull", "rebasing"} /\ poll'.pc = "idle"
            /\ f \in poll.spared
            /\ Tip(repo.branch)[f] # Tip(repo.branch)'[f]
            => \E i \in poll.seen..Len(remote) : remote[i][f] # remote[poll.seen][f]]_vars
<1>. SUFFICES ASSUME Next, NEW f \in Files, mode = "up", poll.pc \in {"pull", "rebasing"},
                     poll'.pc = "idle", f \in poll.spared,
                     \A i \in poll.seen..Len(remote) : remote[i][f] = remote[poll.seen][f]
              PROVE  Tip(repo.branch)'[f] = Tip(repo.branch)[f]
  BY Zenon
<1>1. Checked /\ Quiet(f)
  BY DEF Checked, Quiet, Seen
<1>2. CASE Pull("poll")
  BY <1>1, <1>2, RefreshSpares
<1>3. CASE OpenDiscard \/ OpenClone \/ OpenReuse \/ StartupFetch
  BY <1>3 DEF OpenDiscard, OpenClone, OpenReuse, StartupFetch
<1>4. CASE Crash
  BY <1>4 DEF Crash, Tip, Last
<1>5. CASE PollBegin \/ PollFetch \/ PollCheck \/ PollHead \/ PollCompare
  BY <1>5 DEF PollBegin, PollFetch, PollCheck, PollHead, PollCompare
<1>6. CASE \E g \in Files : Edit(g) \/ RemoveFile(g) \/ ForeignPush(g) \/ ForeignRemove(g)
  BY <1>6 DEF Edit, RemoveFile, ForeignPush, ForeignRemove, Touched
<1>7. CASE SyncBegin \/ Stage \/ Commit \/ Push \/ PushFails \/ PushRejected
  BY <1>7 DEF SyncBegin, Stage, Commit, Push, PushFails, PushRejected, SyncError, SyncConflict,
              SyncSucceeds, SyncEnds
<1>8. CASE Pull("sync")
  <2>1. CASE PullFails("sync") \/ PullForwards("sync") \/ PullFinishes("sync") \/ PullAborts("sync") \/ PullStops("sync")
    <3>1. UNCHANGED poll
      BY <2>1 DEF PullFails, PullForwards, PullFinishes, PullAborts, PullStops, PullEnds
    <3>. QED
      BY <3>1
  <2>2. CASE PullBegin("sync") \/ PullPicks("sync")
    BY <2>2 DEF PullBegin, PullPicks
  <2>. QED
    BY <1>8, <2>1, <2>2 DEF Pull
<1>. QED
  BY <1>2, <1>3, <1>4, <1>5, <1>6, <1>7, <1>8 DEF Next, Sync, Poll

(* A refresh changes no file it was to spare, whatever the clone went      *)
(* through since the check (refresh_remote_protected), where Git and the   *)
(* engine name the files alike.                                            *)
THEOREM GitRefreshSparesProtected == PathsAgree /\ Spec => RefreshSparesProtected
<1>1. Init => SInv
  BY TypeInit, FieldsInit DEF SInv
<1>2. ASSUME PathsAgree PROVE Spec => RefreshSparesProtected
  <2>1. SInv /\ [Next]_vars => SInv'
    BY <1>2, SparesStep
  <2>2. Spec => []SInv
    BY <1>1, <2>1, PTL DEF Spec
  <2>. QED
    BY <2>2, RefreshStep, PTL DEF Spec, RefreshSparesProtected
<1>. QED
  BY <1>2
===============================================================================
