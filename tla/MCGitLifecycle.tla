---------------------------- MODULE MCGitLifecycle ----------------------------
(* Two files, one of them in the first commit, for the Git backend.        *)
EXTENDS GitLifecycle

CONSTANTS file1, file2
===============================================================================
