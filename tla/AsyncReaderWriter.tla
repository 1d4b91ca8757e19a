-------------------------- MODULE AsyncReaderWriter --------------------------
(***************************************************************************)
(* AsyncReaderWriter (src/async-reader-writer.ts) and the loops it runs:   *)
(* readChunks (src/async-read-modes.ts), writeChunksWithYieldingLoop, and  *)
(* the alternative writeChunksWithExplicitScheduling                       *)
(* (src/async-write-modes.ts).  One reader and one writer of a connection  *)
(* share an AsyncSRT, hence one worker, and its user may dispose of it     *)
(* under them.                                                             *)
(*                                                                         *)
(* A chunk is its number; a message received is its size.                  *)
(***************************************************************************)
EXTENDS CallLoop, FiniteSets

CONSTANTS
    Success, Failed,  \* the results of write(): accepted, or SRT_ERROR
    NumChunks,        \* chunks to write
    WritesPerTick,    \* writesPerTick
    Schedulings,      \* the write modes: "yielding", "explicit"
    MinBytes,         \* minBytesRead
    Mtu,              \* the size of the largest message
    MaxMessages,      \* bound: messages the peer sends
    ReadModes         \* whether a native read waits for data (SRTO_RCVSYN)

ASSUME TransferAssumption ==
    /\ {NumChunks, WritesPerTick, MinBytes, Mtu, MaxMessages} \subseteq Nat \ {0}
    /\ Schedulings \subseteq {"yielding", "explicit"}
    /\ ReadModes \subseteq BOOLEAN
    /\ {Success, Failed, Undefined, Rejected} \intersect Nat = {}

Chunks == 1..NumChunks

\* The continuation of the read loop; that of a write is the chunk.
ReadLoop == 0

VARIABLES
    scheduling,  \* the write mode of this AsyncReaderWriter
    readsBlock,  \* the read mode of its socket
    link,        \* the connection: "up" or "down"
    inbound,     \* sizes of the messages received and not read
    arrived,     \* how many messages the peer has sent
    sent,        \* chunks that the native socket has accepted
    chunkIndex,  \* chunks handed to write()
    awaited,     \* chunks of the current tick whose write() is pending
    writer,      \* "idle", "writing", "resolved", "rejected"; with the explicit
                 \* scheduling, "resolved" once the interval has been cleared
    writeTimer,  \* whether the interval of the explicit scheduling is armed
    written,     \* chunks onWrite was called for; its chunkIdx is the position, from 0
    lost,        \* chunks whose write() was rejected
    reader,      \* "idle", "reading", "returned", "threw"
    bytesRead

netVars == <<link, inbound, arrived, sent>>
writeVars == <<chunkIndex, awaited, writer, writeTimer, written, lost>>
readVars == <<reader, bytesRead>>
modeVars == <<scheduling, readsBlock>>
vars == <<modeVars, loopVars, netVars, writeVars, readVars>>

Init ==
    /\ scheduling \in Schedulings
    /\ readsBlock \in ReadModes
    /\ LoopInit
    /\ link = "up"
    /\ inbound = <<>>
    /\ arrived = 0
    /\ sent = <<>>
    /\ chunkIndex = 0
    /\ awaited = {}
    /\ writer = "idle"
    /\ writeTimer = FALSE
    /\ written = <<>>
    /\ lost = {}
    /\ reader = "idle"
    /\ bytesRead = 0

-----------------------------------------------------------------------------
(* The worker and the network.                                              *)

Read(result) ==
    \/ /\ inbound # <<>>
       /\ result = Head(inbound)
       /\ inbound' = Tail(inbound)
       /\ UNCHANGED <<link, arrived, sent>>
    \/ /\ inbound = <<>>
       /\ link = "down" \/ ~readsBlock
       /\ result = Failed
       /\ UNCHANGED netVars

Write(chunk, result) ==
    \/ /\ link = "up"
       /\ result = Success
       /\ sent' = Append(sent, chunk)
       /\ UNCHANGED <<link, inbound, arrived>>
    \/ /\ result = Failed
       /\ UNCHANGED netVars

WorkerPerforms ==
    /\ calls # <<>>
    /\ \E result \in (1..Mtu) \union {Success, Failed} :
         /\ IF Head(calls).op = "read" THEN Read(result) ELSE Write(Head(calls).k, result)
         /\ Performed(result)
    /\ UNCHANGED <<modeVars, writeVars, readVars>>

MainThreadAnswered ==
    /\ AnswerArrives
    /\ UNCHANGED <<modeVars, netVars, writeVars, readVars>>

MessageArrives ==
    /\ link = "up"
    /\ arrived < MaxMessages
    /\ arrived' = arrived + 1
    /\ \E size \in 1..Mtu : inbound' = Append(inbound, size)
    /\ UNCHANGED <<link, sent, modeVars, loopVars, writeVars, readVars>>

LinkBreaks ==
    /\ link = "up"
    /\ link' = "down"
    /\ UNCHANGED <<inbound, arrived, sent, modeVars, loopVars, writeVars, readVars>>

-----------------------------------------------------------------------------
(* Writing.                                                                 *)

\* The chunks of the next tick.
NextChunks ==
    {c \in Chunks : chunkIndex < c /\ c <= chunkIndex + WritesPerTick}

\* Mutants of TickSize: the length of the array is not looked at; one chunk too
\* many.
TickSizeUnbounded == WritesPerTick
TickSizeOffByOne ==
    IF chunkIndex + WritesPerTick < NumChunks THEN WritesPerTick + 1 ELSE NumChunks - chunkIndex

TickSize == Cardinality(NextChunks)

\* Mutant of TickIsFull: the interval is never cleared.
TickIsFullAlways == TRUE

\* tick() finds a chunk in every iteration: the interval is left armed.
TickIsFull == chunkIndex + WritesPerTick <= NumChunks

\* Mutant of Tick: the last chunk first.
TickReversed(rest) ==
    /\ Posts([i \in 1..TickSize |-> Call("write", Success, chunkIndex + TickSize + 1 - i)], rest)
    /\ chunkIndex' = chunkIndex + TickSize

\* tick(), for both functions.
Tick(rest) ==
    /\ Posts([i \in 1..TickSize |-> Call("write", Success, chunkIndex + i)], rest)
    /\ chunkIndex' = chunkIndex + TickSize

Explicit == scheduling = "explicit"

StartWriting ==
    /\ Idle
    /\ writer = "idle"
    /\ writer' = IF Explicit /\ ~TickIsFull THEN "resolved" ELSE "writing"
    /\ Tick(resumed)
    /\ awaited' = NextChunks
    /\ writeTimer' = (Explicit /\ TickIsFull)
    /\ UNCHANGED <<modeVars, asyncSrt, answers, netVars, written, lost, readVars>>

\* Mutant of WriteFulfilled: SRT_ERROR is taken for a success.
WriteFulfilledUnchecked == Result # Rejected

\* write() gives the size of the chunk unless it was refused or has failed.
WriteFulfilled == Result \notin {Failed, Rejected}

\* The promise of write() settles: onWrite is called, or the exception is
\* nobody's.
Settle(chunk) ==
    IF WriteFulfilled
      THEN written' = Append(written, chunk) /\ UNCHANGED lost
      ELSE lost' = lost \union {chunk} /\ UNCHANGED written

\* The promise of a write() settles for the yielding loop: Promise.all()
\* rejects on the first failure, and resolves when no chunk of the tick is left.
AfterTick(chunk) ==
    \/ /\ writer # "writing"
       /\ PostsNothing(Rest)
       /\ UNCHANGED <<writer, awaited, chunkIndex>>
    \/ /\ writer = "writing"
       /\ ~WriteFulfilled
       /\ writer' = "rejected"
       /\ PostsNothing(Rest)
       /\ UNCHANGED <<awaited, chunkIndex>>
    \/ /\ writer = "writing"
       /\ WriteFulfilled
       /\ awaited' = awaited \ {chunk}
       /\ awaited' # {}
       /\ PostsNothing(Rest)
       /\ UNCHANGED <<writer, chunkIndex>>
    \/ /\ writer = "writing"
       /\ WriteFulfilled
       /\ awaited = {chunk}
       /\ IF chunkIndex < NumChunks
            THEN /\ Tick(Rest)
                 /\ awaited' = NextChunks
                 /\ UNCHANGED writer
            ELSE /\ writer' = "resolved"
                 /\ awaited' = {}
                 /\ PostsNothing(Rest)
                 /\ UNCHANGED chunkIndex

WriteAnswered(chunk) ==
    /\ Resumes(chunk)
    /\ Settle(chunk)
    /\ IF Explicit
         THEN PostsNothing(Rest) /\ UNCHANGED <<awaited, writer, chunkIndex>>
         ELSE AfterTick(chunk)
    /\ UNCHANGED <<modeVars, asyncSrt, answers, netVars, writeTimer, readVars>>

\* The interval of the explicit scheduling fires: whatever became of the
\* writes before, the next ones are made; it is cleared when none is left.
WriteTimer ==
    /\ Idle
    /\ writeTimer
    /\ Tick(resumed)
    /\ writeTimer' = TickIsFull
    /\ writer' = IF TickIsFull THEN writer ELSE "resolved"
    /\ UNCHANGED <<modeVars, asyncSrt, answers, netVars, awaited, written, lost, readVars>>

-----------------------------------------------------------------------------
(* Reading.                                                                 *)

NextRead == Call("read", Success, ReadLoop)

StartReading ==
    /\ Idle
    /\ reader = "idle"
    /\ reader' = "reading"
    /\ Posts(<<NextRead>>, resumed)
    /\ UNCHANGED <<modeVars, asyncSrt, answers, netVars, writeVars, bytesRead>>

EnoughAfter(bytes) == MinBytes <= bytes

ReadData ==
    /\ Resumes(ReadLoop)
    /\ Result \in Nat
    /\ bytesRead' = bytesRead + Result
    /\ IF EnoughAfter(bytesRead + Result)
         THEN reader' = "returned" /\ PostsNothing(Rest)
         ELSE Posts(<<NextRead>>, Rest) /\ UNCHANGED reader
    /\ UNCHANGED <<modeVars, asyncSrt, answers, netVars, writeVars>>

\* anyFailures is never set: the loop goes on after any number of errors.
ReadError ==
    /\ Resumes(ReadLoop)
    /\ Result = Failed
    /\ Posts(<<NextRead>>, Rest)
    /\ UNCHANGED <<modeVars, asyncSrt, answers, netVars, writeVars, readVars>>

\* Mutant of ReadRefused: undefined is taken for an error of the socket.
ReadRefusedRetrying ==
    /\ Resumes(ReadLoop)
    /\ Result \in {Undefined, Rejected}
    /\ IF Result = Rejected
         THEN reader' = "threw" /\ PostsNothing(Rest)
         ELSE Posts(<<NextRead>>, Rest) /\ UNCHANGED reader
    /\ UNCHANGED <<modeVars, asyncSrt, answers, netVars, writeVars, bytesRead>>

ReadRefused ==
    /\ Resumes(ReadLoop)
    /\ Result \in {Undefined, Rejected}
    /\ reader' = "threw"
    /\ PostsNothing(Rest)
    /\ UNCHANGED <<modeVars, asyncSrt, answers, netVars, writeVars, bytesRead>>

-----------------------------------------------------------------------------
(* The disposal of the AsyncSRT.                                            *)

Dispose ==
    /\ Idle
    /\ asyncSrt = "live"
    /\ asyncSrt' = IF InFlight = <<>> THEN "disposed" ELSE "disposing"
    /\ UNCHANGED <<modeVars, calls, answers, resumed, netVars, writeVars, readVars>>

DisposeProceed ==
    /\ Idle
    /\ asyncSrt = "disposing"
    /\ InFlight = <<>>
    /\ asyncSrt' = "disposed"
    /\ UNCHANGED <<modeVars, calls, answers, resumed, netVars, writeVars, readVars>>

Continuations ==
    \/ \E chunk \in Chunks : WriteAnswered(chunk)
    \/ ReadData \/ ReadError \/ ReadRefused

Next ==
    \/ WorkerPerforms \/ MainThreadAnswered
    \/ MessageArrives \/ LinkBreaks
    \/ StartWriting \/ WriteTimer
    \/ StartReading
    \/ Continuations
    \/ Dispose \/ DisposeProceed

Spec == Init /\ [][Next]_vars

(* The worker performs what it can, and the event loop runs; the peer need  *)
(* not send anything.  Every turn of the event loop has a phase for timers, *)
(* between the answers that keep the main thread from being idle: timers    *)
(* are strongly fair.                                                       *)
Fairness ==
    /\ WF_vars(WorkerPerforms)
    /\ WF_vars(MainThreadAnswered)
    /\ WF_vars(Continuations)
    /\ SF_vars(WriteTimer)
    /\ SF_vars(DisposeProceed)

FairSpec == Spec /\ Fairness

-----------------------------------------------------------------------------
(* Properties.                                                              *)

Ordered(s) == \A i, j \in 1..Len(s) : i < j => s[i] < s[j]

TypeOK ==
    /\ scheduling \in Schedulings
    /\ readsBlock \in ReadModes
    /\ link \in {"up", "down"}
    /\ inbound \in Seq(1..Mtu)
    /\ arrived \in 0..MaxMessages
    /\ sent \in Seq(Chunks)
    /\ chunkIndex \in 0..NumChunks
    /\ awaited \subseteq Chunks
    /\ writer \in {"idle", "writing", "resolved", "rejected"}
    /\ writeTimer \in BOOLEAN
    /\ written \in Seq(Chunks)
    /\ lost \subseteq Chunks
    /\ reader \in {"idle", "reading", "returned", "threw"}
    /\ bytesRead \in Nat

WritesInFlight == {i \in 1..Len(InFlight \o resumed) : (InFlight \o resumed)[i].k \in Chunks}

(* The yielding loop never has more than writesPerTick writes in flight,    *)
(* failures and disposals included.                                         *)
TicksAreBounded == ~Explicit => Cardinality(WritesInFlight) <= WritesPerTick

(* When the yielding loop resolves, and the AsyncSRT was not being disposed *)
(* of, every chunk was accepted by the socket, once and in the order of the *)
(* buffer.  (The explicit scheduling resolves when the last chunk is given  *)
(* to write().)                                                             *)
ResolvedMeansSent ==
    ~Explicit /\ writer = "resolved" /\ asyncSrt = "live" => sent = [i \in Chunks |-> i]

(* The chunks reach the socket in the order of the buffer, and onWrite is   *)
(* called in that order; the index it is given is that of the chunk unless  *)
(* a chunk before it was lost.  (But the explicit scheduling reports chunks *)
(* that it did not send, ahead of those in flight, during a disposal.)      *)
WritesInOrder ==
    /\ Ordered(sent)
    /\ ~Explicit \/ asyncSrt = "live" =>
         /\ Ordered(written)
         /\ \A i \in 1..Len(written) : written[i] # i => \E c \in lost : c < written[i]

\* The worker waits in a read of a connection that gives no data.
ReadStuck ==
    /\ readsBlock
    /\ calls # <<>>
    /\ Head(calls).op = "read"
    /\ inbound = <<>>
    /\ link = "up"

(* writeChunks() settles, even while the reader fails again and again on    *)
(* the same worker, and even if the AsyncSRT is disposed of, unless the     *)
(* worker is stuck in a read.                                               *)
WriterSettles == writer = "writing" ~> writer \in {"resolved", "rejected"} \/ ReadStuck

(* The disposal of the AsyncSRT ends the loop of the reader, which nothing  *)
(* else ends on a dead connection, unless the worker is stuck in a read.    *)
DisposeEndsReader == asyncSrt = "disposing" ~> reader # "reading" \/ ReadStuck

-----------------------------------------------------------------------------
(* What documents say and the code does not do.                             *)

(* Documented: after failures the read loop returns what it has, to "evade  *)
(* an infinite loop" (src/async-read-modes.ts).                             *)
ReaderGivesUp == link = "down" /\ reader = "reading" ~> reader # "reading"

=============================================================================
