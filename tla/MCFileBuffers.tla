----------------------------- MODULE MCFileBuffers -----------------------------
(* TLC instances of FileBuffers.                                           *)
EXTENDS FileBuffers

CONSTANTS file1, file2, c1, c2

\* One application opens every file, the other one of them.
OneShared == [c \in Clients |-> IF c = c1 THEN Paths ELSE {file1}]

\* Each application has a file of its own.
OwnFile == CHOOSE f \in [Clients -> {{p} : p \in Paths}] :
             \A c, d \in Clients : c # d => f[c] # f[d]

\* The application that opens every file also renames, the other one truncates.
RenamesAndTruncates ==
  [c \in Clients |-> {"flush"} \cup IF c = c1 THEN {"rename"} ELSE {"truncate"}]

CreatesAndUnlinks == [c \in Clients |-> {"flush", "create", "unlink"}]
================================================================================
