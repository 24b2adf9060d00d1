----------------------------- MODULE MCWikiSession -----------------------------
(* One page that exists for the wiki backend.                              *)
EXTENDS WikiSession

CONSTANTS page1
===============================================================================
