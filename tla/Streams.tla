------------------------------- MODULE Streams -------------------------------
(***************************************************************************)
(* A process with a read stream and a write stream, each with a connection *)
(* of its own: they share the main thread, on which all their native calls *)
(* are made.                                                               *)
(***************************************************************************)
EXTENDS SRTReadStream

CONSTANT MaxChunks  \* bound: calls of write()

ASSUME StreamsAssumption == MaxChunks \in Nat

VARIABLES sinkStatus, sinkFd, offered, writing, sent, sinkDestroyed, sinkClosed

Sink == INSTANCE SRTWriteStream

sinkVars == <<sinkStatus, sinkFd, offered, writing, sent, sinkDestroyed, sinkClosed>>
allVars == <<vars, sinkVars>>

StreamsInit == Init /\ Sink!SinkInit

ReaderSteps == Next /\ UNCHANGED sinkVars
WriterSteps == Sink!SinkNext /\ UNCHANGED <<nativeVars, streamVars>>

StreamsNext == ReaderSteps \/ WriterSteps

StreamsSpec == StreamsInit /\ [][StreamsNext]_allVars

(* As for the read stream alone; the write stream need not do anything.     *)
StreamsFairSpec == StreamsSpec /\ Fairness

-----------------------------------------------------------------------------
(* Properties.                                                              *)

StreamsTypeOK == TypeOK /\ Sink!SinkTypeOK

(* Neither stream keeps its socket open once it was destroyed, the reader   *)
(* if it was connected as a caller.                                         *)
DestroyFrees == ReaderFreed /\ Sink!WriterFreed

(* The peer receives a beginning of what was written, without a gap.        *)
NothingLeftOut == Sink!NothingLeftOut

=============================================================================
