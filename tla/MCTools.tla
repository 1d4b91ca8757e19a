------------------------------- MODULE MCTools -------------------------------
(***************************************************************************)
(* Instances of Tools for TLC.  All its constants have values that a       *)
(* configuration can give.                                                 *)
(***************************************************************************)
EXTENDS Tools

=============================================================================
