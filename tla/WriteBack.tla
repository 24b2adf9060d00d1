------------------------------- MODULE WriteBack -------------------------------
(***************************************************************************)
(* What omniFUSE promises about local edits, without channels, workers or  *)
(* timers: a mount is a write-back cache of the remote.  A file that may   *)
(* differ from the remote is owed to it; a debt is settled only when the   *)
(* two agree, and can otherwise only be given up in the open, as lost.     *)
(***************************************************************************)
EXTENDS Naturals

CONSTANTS
  Files,        \* the files the backend tracks
  MaxVersion    \* bound on the versions of one file

VARIABLES
  local,        \* content of the local file
  remote,       \* content the remote received, or sent, last
  owed,         \* files somebody still has to write back
  lost          \* files an edit of which was given up with a warning

vars == <<local, remote, owed, lost>>

Version == 0 .. MaxVersion

Init ==
  /\ local = [f \in Files |-> 0]
  /\ remote = [f \in Files |-> 0]
  /\ owed = {}
  /\ lost = {}

\* The application opens, changes or closes a file.
Edit(f) ==
  /\ \E v \in Version : local' = [local EXCEPT ![f] = v]
  /\ owed' = owed \cup {f}
  /\ UNCHANGED <<remote, lost>>

\* One file of a sync reaches the remote.
Deliver(f) ==
  /\ f \in owed
  /\ remote' = [remote EXCEPT ![f] = local[f]]
  /\ UNCHANGED <<local, owed, lost>>

\* A sync is over: the debts it settles are those of files that agree, or an
\* edit of which was given up already.
Settle(S) ==
  /\ \A f \in S : local[f] = remote[f] \/ f \in lost
  /\ owed' = owed \ S
  /\ UNCHANGED <<local, remote, lost>>

\* The announcement of an edit is dropped, with a warning.
Lose(f) ==
  /\ lost' = lost \cup {f}
  /\ \/ owed' = owed
     \/ owed' = owed \ {f}
  /\ UNCHANGED <<local, remote>>

\* A remote change replaces the local file.
Adopt(f) ==
  /\ local' = [local EXCEPT ![f] = remote[f]]
  /\ UNCHANGED <<remote, owed, lost>>

Next ==
  \/ \E f \in Files : Edit(f) \/ Deliver(f) \/ Lose(f) \/ Adopt(f)
  \/ \E S \in SUBSET owed : Settle(S)

Spec == Init /\ [][Next]_vars

(***************************************************************************)
(* A file that differs from the remote is owed to it or reported lost.     *)
(***************************************************************************)
NothingForgotten ==
  \A f \in Files : local[f] # remote[f] => f \in owed \cup lost

TypeOK ==
  /\ local \in [Files -> Version]
  /\ remote \in [Files -> Version]
================================================================================
