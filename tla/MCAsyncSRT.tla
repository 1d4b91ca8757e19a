----------------------------- MODULE MCAsyncSRT -----------------------------
(***************************************************************************)
(* Instances of AsyncSRT for TLC.  The kinds of calls are what matters: an *)
(* accept() with a timeout, writes, and a plain call.                      *)
(***************************************************************************)
EXTENDS AsyncSRT

CONSTANTS acc, wr1, wr2, plain

=============================================================================
