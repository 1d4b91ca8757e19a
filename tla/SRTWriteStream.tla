--------------------------- MODULE SRTWriteStream ---------------------------
(***************************************************************************)
(* SRTWriteStream (src/srt-stream-writable.ts): a Writable that connects   *)
(* and sends each chunk with one native call on the main thread, so that   *)
(* every operation runs to its end without interruption, once the thread   *)
(* is free.                                                                *)
(*                                                                         *)
(* The Writable itself is Node's.  It calls _write() for one chunk at a    *)
(* time and keeps the others until that one has called back; it is         *)
(* destroyed when a chunk calls back with an error.  Chunks are numbered   *)
(* in the order of write().                                                *)
(***************************************************************************)
EXTENDS Integers, Sequences

CONSTANT MaxChunks  \* bound: calls of write()

VARIABLES
    pc,             \* the main thread, "idle" when it is free
    sinkStatus,     \* srt_getsockstate() of _socket
    sinkFd,         \* whether _fd is set, to _socket then
    offered,        \* chunks that write() has taken
    writing,        \* whether a _write() has not called back
    sent,           \* chunks that the native socket has accepted
    sinkDestroyed,  \* whether destroy() was called
    sinkClosed      \* whether 'close' is emitted

sinkVars == <<sinkStatus, sinkFd, offered, writing, sent, sinkDestroyed, sinkClosed>>

SinkInit ==
    /\ sinkStatus = "INIT"
    /\ sinkFd = FALSE
    /\ offered = 0
    /\ writing = FALSE
    /\ sent = <<>>
    /\ sinkDestroyed = FALSE
    /\ sinkClosed = FALSE

-----------------------------------------------------------------------------

\* Neither _fd nor destroyed is looked at.  The native connect() closes the
\* socket when it fails, which it does on one that is connected already.
SinkConnects ==
    /\ pc = "idle"
    /\ \/ /\ sinkStatus = "INIT"
          /\ sinkStatus' = "CONNECTED"
          /\ sinkFd' = TRUE
       \/ /\ sinkStatus' = "CLOSED"
          /\ UNCHANGED sinkFd
    /\ UNCHANGED <<pc, offered, writing, sent, sinkDestroyed, sinkClosed>>

\* close(), which throws when the socket is closed already.
SinkClose ==
    /\ sinkStatus' = "CLOSED"
    /\ sinkFd' = IF sinkStatus = "CLOSED" THEN sinkFd ELSE FALSE

SinkCloseCalled ==
    /\ pc = "idle"
    /\ SinkClose
    /\ UNCHANGED <<pc, offered, writing, sent, sinkDestroyed, sinkClosed>>

\* Mutant of SinkDestroys: nothing is done without a connection.
SinkDestroysConnected ==
    /\ sinkDestroyed' = TRUE
    /\ IF sinkFd
         THEN SinkClose /\ sinkClosed' = (sinkClosed \/ sinkStatus = "CLOSED")
         ELSE UNCHANGED <<sinkStatus, sinkFd, sinkClosed>>

\* _destroy() never calls back: 'close' is emitted only if it throws.
SinkDestroys ==
    /\ sinkDestroyed' = TRUE
    /\ SinkClose
    /\ sinkClosed' = (sinkStatus = "CLOSED")

\* By the user, or by the Writable when it has finished.
SinkDestroyCalled ==
    /\ pc = "idle"
    /\ ~sinkDestroyed
    /\ SinkDestroys
    /\ UNCHANGED <<pc, offered, writing, sent>>

\* Mutant of NativeWrite: the exception is caught, and the chunk calls back.
NativeWriteCatching(chunk) ==
    \/ sinkStatus = "CONNECTED" /\ sent' = Append(sent, chunk) /\ UNCHANGED writing
    \/ UNCHANGED <<sent, writing>>

\* write() may fail on a connected socket too, for lack of room.  The
\* exception goes to the caller of write(), and the chunk never calls back.
NativeWrite(chunk) ==
    \/ sinkStatus = "CONNECTED" /\ sent' = Append(sent, chunk) /\ UNCHANGED writing
    \/ writing' = TRUE /\ UNCHANGED sent

\* A destroyed Writable takes no chunk; one that is writing keeps it.
WriteCalled ==
    /\ pc = "idle"
    /\ ~sinkDestroyed
    /\ offered < MaxChunks
    /\ offered' = offered + 1
    /\ \/ /\ writing
          /\ UNCHANGED <<sinkStatus, sinkFd, writing, sent, sinkDestroyed, sinkClosed>>
       \/ /\ ~writing
          /\ sinkFd
          /\ NativeWrite(offered')
          /\ UNCHANGED <<sinkStatus, sinkFd, sinkDestroyed, sinkClosed>>
       \/ /\ ~writing
          /\ ~sinkFd
          /\ SinkDestroys
          /\ UNCHANGED <<writing, sent>>
    /\ UNCHANGED pc

SinkBreaks ==
    /\ sinkStatus = "CONNECTED"
    /\ sinkStatus' = "BROKEN"
    /\ UNCHANGED <<pc, sinkFd, offered, writing, sent, sinkDestroyed, sinkClosed>>

\* The library closes a broken socket by itself.
SinkReaped ==
    /\ sinkStatus = "BROKEN"
    /\ sinkStatus' = "CLOSED"
    /\ UNCHANGED <<pc, sinkFd, offered, writing, sent, sinkDestroyed, sinkClosed>>

SinkNext ==
    \/ SinkConnects \/ SinkCloseCalled \/ SinkDestroyCalled \/ WriteCalled
    \/ SinkBreaks \/ SinkReaped

-----------------------------------------------------------------------------
(* Properties.                                                              *)

SinkTypeOK ==
    /\ sinkStatus \in {"INIT", "CONNECTED", "BROKEN", "CLOSED"}
    /\ sinkFd \in BOOLEAN
    /\ offered \in 0..MaxChunks
    /\ writing \in BOOLEAN
    /\ sent \in Seq(1..MaxChunks)
    /\ sinkDestroyed \in BOOLEAN
    /\ sinkClosed \in BOOLEAN

(* What reaches the socket is always a beginning of what was written: once  *)
(* a native write has thrown, or the socket was closed or destroyed, no     *)
(* later chunk is sent, whatever is called.                                 *)
NothingLeftOut == sent = [i \in 1..Len(sent) |-> i]

(* A destroyed stream has closed its socket, connected or not, and connect()*)
(* does not bring it back.                                                  *)
WriterFreed == sinkDestroyed => sinkStatus = "CLOSED"

=============================================================================
