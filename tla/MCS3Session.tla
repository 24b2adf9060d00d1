------------------------------ MODULE MCS3Session ------------------------------
(***************************************************************************)
(* Small instances of S3Session.                                           *)
(***************************************************************************)
EXTENDS S3Session

CONSTANTS o1, o2

OneObject  == {o1}
TwoObjects == {o1, o2}
NoObject   == {}
================================================================================
