---------------------------- MODULE MCFileHistory ----------------------------
(***************************************************************************)
(* Instances of FileHistory: two contents and one that is over the limit.  *)
(***************************************************************************)
EXTENDS FileHistory

CONSTANTS a, b, big
=============================================================================
