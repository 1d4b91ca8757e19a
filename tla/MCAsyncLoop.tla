---------------------------- MODULE MCAsyncLoop ----------------------------
(***************************************************************************)
(* An instance of AsyncLoop for TLC, with each kind of call.               *)
(***************************************************************************)
EXTENDS AsyncLoop

CONSTANTS acc, wr1, wr2, plain

=============================================================================
