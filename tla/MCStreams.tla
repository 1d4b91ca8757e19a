------------------------------ MODULE MCStreams ------------------------------
(***************************************************************************)
(* Instances of Streams for TLC.                                           *)
(***************************************************************************)
EXTENDS Streams

CONSTANTS c1, c2

=============================================================================
