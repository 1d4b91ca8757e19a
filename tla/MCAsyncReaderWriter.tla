------------------------- MODULE MCAsyncReaderWriter -------------------------
(***************************************************************************)
(* Instances of AsyncReaderWriter for TLC.  All its constants have values  *)
(* that a configuration can give.                                          *)
(***************************************************************************)
EXTENDS AsyncReaderWriter

=============================================================================
