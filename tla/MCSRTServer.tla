----------------------------- MODULE MCSRTServer -----------------------------
(***************************************************************************)
(* Instances of SRTServer for TLC: two peers, and one or two open().       *)
(***************************************************************************)
EXTENDS SRTServer

CONSTANTS c1, c2, open1, open2

=============================================================================
