--------------------------- MODULE MCPersistentCache ---------------------------
(* Two processes and two keys for the persistent cache.                    *)
EXTENDS PersistentCache, TLC

CONSTANTS process1, process2, key1, key2, bytes1

MCProcesses == {process1, process2}
===============================================================================
