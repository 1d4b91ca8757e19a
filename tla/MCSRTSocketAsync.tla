-------------------------- MODULE MCSRTSocketAsync --------------------------
(***************************************************************************)
(* Instances of SRTSocketAsync for TLC: two create() and two descriptors.  *)
(***************************************************************************)
EXTENDS SRTSocketAsync

CONSTANTS f1, f2, create1, create2

=============================================================================
