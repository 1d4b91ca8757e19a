-------------------------------- MODULE Tools --------------------------------
(***************************************************************************)
(* src/tools.ts: cutting a buffer into chunks, merging chunks into a       *)
(* buffer, and waiting for a condition.  One behaviour is one use: a       *)
(* buffer is sliced and its chunks are merged again, an iteration of a     *)
(* loop at a time, or waitForCondition() is called once.                   *)
(*                                                                         *)
(* A byte of the source is its position, and a chunk the positions from    *)
(* "start" on; clones of chunks are equal to them.  Times are in           *)
(* milliseconds.                                                           *)
(***************************************************************************)
EXTENDS Integers, Sequences

CONSTANTS
    Sizes,        \* bound: sizes and offsets that callers give
    Limits,       \* bound: maxAttempts and timeoutIn, where they are given
    MaxClock,     \* bound: how far the clocks are followed
    Epoch,        \* Date.now() when the clocks start
    MaxDelay,     \* the longest delay that setTimeout() takes, 2^31 - 1
    SleepFor,     \* ifFalseThenSleepForMs
    Infinity      \* stands for no limit

ASSUME ToolsAssumption ==
    /\ Sizes \subseteq Nat
    /\ Limits \subseteq Nat \ {0}
    /\ {MaxClock, Epoch, MaxDelay, SleepFor, Infinity} \subseteq Nat
    /\ MaxDelay < Epoch
    /\ \A limit \in Limits \union {0} :
         Epoch + 2 * MaxClock + limit * (SleepFor + 6) < Infinity

\* What a byte of the target is before it is written; no timer; not resolved.
Unset == -1
NoTimer == -1
Unresolved == Infinity

VARIABLES
    pc,              \* which function runs, and where it is
    srcSize, chunkMaxSize, byteLength, initialOffset,  \* arguments of sliceBufferToChunks()
    offset, relativeOffset, chunks,
    total,           \* what getChunksTotalByteLength() has summed up
    i,               \* index of the next chunk to sum up or to copy
    at,              \* "offset" in copyChunksIntoBuffer()
    targetSize, target,
    maxAttempts, timeoutIn, timeoutOn,                 \* options of waitForCondition()
    attempt,         \* "i" in waitForCondition()
    attempts,        \* how often condition() was called
    said,            \* what it said last
    date, perf,      \* Date.now(), and performance.now() since the call
    due,             \* when the timeout fires, by "perf"
    wakeUp,          \* when wait() resolves, by "perf"
    timedOut,        \* "resolved"
    result           \* what the promise has resolved to

sliceArgs == <<srcSize, chunkMaxSize, byteLength, initialOffset>>
sliceVars == <<sliceArgs, offset, relativeOffset, chunks>>
mergeVars == <<total, i, at, targetSize, target>>
options == <<maxAttempts, timeoutIn, timeoutOn>>
waitVars == <<options, attempt, attempts, said, date, perf, due, wakeUp, timedOut, result>>
vars == <<pc, sliceVars, mergeVars, waitVars>>

\* Buffer.alloc(), or a buffer of the caller.
FreshBuffer(size) == [j \in 0..(size - 1) |-> Unset]

SliceArguments ==
    /\ pc = "slicing"
    /\ srcSize \in Sizes
    /\ chunkMaxSize \in Sizes
    /\ byteLength \in Sizes
    /\ initialOffset \in Sizes
    /\ maxAttempts = Infinity
    /\ timeoutIn = Infinity
    /\ timeoutOn = Infinity

\* timeoutOn may be in the past.
WaitArguments ==
    /\ pc = "called"
    /\ srcSize = 0
    /\ chunkMaxSize = 0
    /\ byteLength = 0
    /\ initialOffset = 0
    /\ maxAttempts \in Limits \union {Infinity}
    /\ timeoutIn \in Limits \union {Infinity}
    /\ timeoutOn \in {Epoch + limit : limit \in Limits} \union {Epoch - 1, Infinity}

Init ==
    /\ SliceArguments \/ WaitArguments
    /\ offset = initialOffset
    /\ relativeOffset = 0
    /\ chunks = <<>>
    /\ total = 0
    /\ i = 1
    /\ at = 0
    /\ targetSize = 0
    /\ target = FreshBuffer(0)
    /\ attempt = 1
    /\ attempts = 0
    /\ said = "nothing"
    /\ date = Epoch
    /\ perf = 0
    /\ due = NoTimer
    /\ wakeUp = 0
    /\ timedOut = FALSE
    /\ result = Unresolved

-----------------------------------------------------------------------------
(* sliceBufferToChunks()                                                    *)

Least(m, n) == IF m < n THEN m ELSE n

\* Mutant of Sliced: an end in front of the start is not taken for an empty slice.
SlicedUnclamped(from, to) == [start |-> from, size |-> to - from]

\* Uint8Array.prototype.slice(), which leaves out what is not in the array.
Sliced(from, to) ==
    LET end == Least(to, srcSize)
        start == Least(from, end)
    IN  [start |-> start, size |-> end - start]

\* Mutant of ChunkSize: the last chunk is as long as the others.
ChunkSizeFull == chunkMaxSize

\* The size of the next chunk: negative behind a last chunk that was not full.
ChunkSize == Least(chunkMaxSize, byteLength - (offset - initialOffset))

\* relativeOffset is that of the iteration before when the loop tests it.
SliceMore ==
    /\ pc = "slicing"
    /\ relativeOffset < byteLength
    /\ ChunkSize # 0
    /\ chunks' = Append(chunks, Sliced(offset, offset + ChunkSize))
    /\ relativeOffset' = offset - initialOffset
    /\ offset' = offset + chunkMaxSize
    /\ UNCHANGED <<pc, sliceArgs, mergeVars, waitVars>>

SliceEnds ==
    /\ pc = "slicing"
    /\ relativeOffset < byteLength => ChunkSize = 0
    /\ pc' = "sliced"
    /\ UNCHANGED <<sliceVars, mergeVars, waitVars>>

-----------------------------------------------------------------------------
(* copyChunksIntoBuffer()                                                   *)

\* With a buffer of the caller.
MergeInto ==
    /\ pc = "sliced"
    /\ pc' = "copying"
    /\ targetSize' \in Sizes
    /\ target' = FreshBuffer(targetSize')
    /\ UNCHANGED <<sliceVars, total, i, at, waitVars>>

MergeIntoNew ==
    /\ pc = "sliced"
    /\ pc' = "summing"
    /\ UNCHANGED <<sliceVars, mergeVars, waitVars>>

SumChunk ==
    /\ pc = "summing"
    /\ i <= Len(chunks)
    /\ total' = total + chunks[i].size
    /\ i' = i + 1
    /\ UNCHANGED <<pc, sliceVars, at, targetSize, target, waitVars>>

Summed ==
    /\ pc = "summing"
    /\ i > Len(chunks)
    /\ pc' = "copying"
    /\ i' = 1
    /\ targetSize' = total
    /\ target' = FreshBuffer(total)
    /\ UNCHANGED <<sliceVars, total, at, waitVars>>

\* Mutant of Copied: each chunk is copied to the start of the target.
CopiedToStart(chunk) ==
    [j \in DOMAIN target |-> IF j < chunk.size THEN chunk.start + j ELSE target[j]]

\* Buffer.copy(), which copies no more than the target can take.
Copied(chunk) ==
    [j \in DOMAIN target |->
        IF at <= j /\ j < at + chunk.size THEN chunk.start + (j - at) ELSE target[j]]

CopyChunk ==
    /\ pc = "copying"
    /\ i <= Len(chunks)
    /\ at < targetSize
    /\ target' = Copied(chunks[i])
    /\ at' = at + chunks[i].size
    /\ i' = i + 1
    /\ UNCHANGED <<pc, sliceVars, total, targetSize, waitVars>>

\* "Target buffer to merge chunks in is too small"
CopyThrows ==
    /\ pc = "copying"
    /\ i <= Len(chunks)
    /\ at >= targetSize
    /\ pc' = "threw"
    /\ UNCHANGED <<sliceVars, mergeVars, waitVars>>

CopyEnds ==
    /\ pc = "copying"
    /\ i > Len(chunks)
    /\ pc' = "copied"
    /\ UNCHANGED <<sliceVars, mergeVars, waitVars>>

-----------------------------------------------------------------------------
(* waitForCondition()                                                       *)

\* setTimeout() takes a delay that it cannot represent for 1.
TimerDelay(delay) == IF delay > MaxDelay \/ delay < 1 THEN 1 ELSE delay

IsOver == date > timeoutOn \/ perf > timeoutIn

\* resolve(), which only counts the first time.
Resolve(value) == result' = IF result = Unresolved THEN value ELSE result

Return(value) ==
    /\ pc' = "returned"
    /\ due' = NoTimer
    /\ Resolve(value)

Attempt ==
    /\ pc' = "testing"
    /\ attempts' = attempts + 1

WaitCalled ==
    /\ pc = "called"
    /\ IF date > timeoutOn
         THEN Return(0) /\ UNCHANGED attempts
         ELSE /\ Attempt
              /\ due' = IF timeoutIn = Infinity /\ timeoutOn = Infinity
                          THEN NoTimer
                          ELSE perf + TimerDelay(Least(date + timeoutIn, timeoutOn))
              /\ UNCHANGED result
    /\ UNCHANGED <<sliceVars, mergeVars, options, attempt, said, date, perf, wakeUp, timedOut>>

\* Mutant of TimeoutFires: resolving is left to the loop.
TimeoutFiresUnresolved ==
    /\ due # NoTimer
    /\ perf >= due
    /\ due' = NoTimer
    /\ timedOut' = TRUE
    /\ UNCHANGED <<pc, sliceVars, mergeVars, options, attempt, attempts, said, date, perf, wakeUp,
                   result>>

\* The promise is resolved whatever the loop is awaiting, which stays there.
TimeoutFires ==
    /\ due # NoTimer
    /\ perf >= due
    /\ due' = NoTimer
    /\ timedOut' = TRUE
    /\ Resolve(-attempt)
    /\ UNCHANGED <<pc, sliceVars, mergeVars, options, attempt, attempts, said, date, perf, wakeUp>>

Sleep ==
    /\ pc' = "sleeping"
    /\ wakeUp' = perf + TimerDelay(IF SleepFor = 0 THEN 5 ELSE SleepFor)

\* condition() may also never answer.
ConditionSays(answer) ==
    /\ pc = "testing"
    /\ said' = answer
    /\ \/ /\ timedOut
          /\ pc' = "returned"
          /\ UNCHANGED <<due, result, wakeUp>>
       \/ /\ ~timedOut
          /\ answer = "true"
          /\ Return(attempt)
          /\ UNCHANGED wakeUp
       \/ /\ ~timedOut
          /\ answer # "true"
          /\ answer = "CMDFLOW_DIE" \/ attempt = maxAttempts \/ IsOver
          /\ Return(-attempt)
          /\ UNCHANGED wakeUp
       \/ /\ ~timedOut
          /\ answer = "false"
          /\ attempt # maxAttempts
          /\ ~IsOver
          /\ Sleep
          /\ UNCHANGED <<due, result>>
    /\ UNCHANGED <<sliceVars, mergeVars, options, attempt, attempts, date, perf, timedOut>>

\* Mutant of WakesUp: the loop does not look whether the timeout has fired.
WakesUpRegardless ==
    /\ pc = "sleeping"
    /\ perf >= wakeUp
    /\ IF IsOver
         THEN Return(-attempt) /\ UNCHANGED <<attempt, attempts>>
         ELSE attempt' = attempt + 1 /\ Attempt /\ UNCHANGED <<due, result>>
    /\ UNCHANGED <<sliceVars, mergeVars, options, said, date, perf, wakeUp, timedOut>>

WakesUp ==
    /\ pc = "sleeping"
    /\ perf >= wakeUp
    /\ \/ /\ IsOver
          /\ Return(-attempt)
          /\ UNCHANGED <<attempt, attempts>>
       \/ /\ ~IsOver
          /\ attempt' = attempt + 1
          /\ IF timedOut THEN pc' = "returned" /\ UNCHANGED attempts ELSE Attempt
          /\ UNCHANGED <<due, result>>
    /\ UNCHANGED <<sliceVars, mergeVars, options, said, date, perf, wakeUp, timedOut>>

Waiting == pc \in {"testing", "sleeping"}

\* A sleep that comes before the last attempt is followed to its end.
ClocksFollowed ==
    \/ perf < MaxClock
    \/ pc = "sleeping" /\ perf < wakeUp /\ maxAttempts # Infinity

ClocksAdvance ==
    /\ Waiting
    /\ ClocksFollowed
    /\ perf' = perf + 1
    /\ date' = date + 1
    /\ UNCHANGED <<pc, sliceVars, mergeVars, options, attempt, attempts, said, due, wakeUp,
                   timedOut, result>>

\* The computer was suspended, or its clock was set: "PCs can suspend".
DateJumps ==
    /\ Waiting
    /\ date < Epoch + MaxClock
    /\ date' = date + 1
    /\ UNCHANGED <<pc, sliceVars, mergeVars, options, attempt, attempts, said, perf, due, wakeUp,
                   timedOut, result>>

-----------------------------------------------------------------------------

Slicing == SliceMore \/ SliceEnds
Merging == MergeInto \/ MergeIntoNew \/ SumChunk \/ Summed \/ CopyChunk \/ CopyThrows \/ CopyEnds

Answers == {"true", "false", "CMDFLOW_DIE"}

Next ==
    \/ Slicing
    \/ Merging
    \/ WaitCalled
    \/ \E answer \in Answers : ConditionSays(answer)
    \/ WakesUp
    \/ TimeoutFires
    \/ ClocksAdvance
    \/ DateJumps

Spec == Init /\ [][Next]_vars

(* Time passes, the event loop fires timers, and the condition answers every*)
(* time: one that hangs holds the loop up for ever.                         *)
Fairness ==
    /\ WF_vars(WaitCalled)
    /\ WF_vars(\E answer \in Answers : ConditionSays(answer))
    /\ WF_vars(WakesUp)
    /\ WF_vars(ClocksAdvance)
    /\ WF_vars(TimeoutFires)

FairSpec == Spec /\ Fairness

-----------------------------------------------------------------------------
(* Properties.                                                              *)

TypeOK ==
    /\ pc \in {"slicing", "sliced", "summing", "copying", "copied", "threw",
               "called", "testing", "sleeping", "returned"}
    /\ srcSize \in Nat /\ chunkMaxSize \in Nat /\ byteLength \in Nat /\ initialOffset \in Nat
    /\ offset \in Nat /\ initialOffset <= offset /\ relativeOffset \in Nat
    /\ chunks \in Seq([start : Nat, size : Nat])
    /\ total \in Nat /\ i \in Nat \ {0} /\ at \in Nat /\ targetSize \in Nat
    /\ target \in [0..(targetSize - 1) -> Nat \union {Unset}]
    /\ maxAttempts \in Nat \ {0} /\ timeoutIn \in Nat /\ timeoutOn \in Nat
    /\ attempt \in Nat \ {0} /\ attempts \in Nat
    /\ said \in Answers \union {"nothing"}
    /\ date \in Nat /\ perf \in Nat
    /\ due \in Nat \union {NoTimer} /\ wakeUp \in Nat
    /\ timedOut \in BOOLEAN
    /\ result \in Int

\* The arguments name a part of the source, and chunks can be made of it.
Fits ==
    /\ initialOffset + byteLength <= srcSize
    /\ chunkMaxSize > 0

\* Where the bytes end that are in chunks.
ChunksEnd ==
    IF chunks = <<>> THEN initialOffset
    ELSE chunks[Len(chunks)].start + chunks[Len(chunks)].size

(* The chunks are, one after the other and without a gap, the part of the   *)
(* buffer that was asked for, and none exceeds the maximum.                 *)
SlicesCover ==
    Fits /\ pc \in {"sliced", "summing", "copying", "copied", "threw"} =>
        /\ chunks # <<>> => chunks[1].start = initialOffset
        /\ \A k \in 1..(Len(chunks) - 1) : chunks[k + 1].start = chunks[k].start + chunks[k].size
        /\ \A k \in 1..Len(chunks) : chunks[k].size <= chunkMaxSize
        /\ ChunksEnd = initialOffset + byteLength

(* What copyChunksIntoBuffer() returns holds the part of the source that    *)
(* was sliced, as much of it as the target can take, and nothing else.      *)
MergedIsSlice ==
    Fits /\ pc = "copied" =>
        \A j \in DOMAIN target : target[j] = IF j < byteLength THEN initialOffset + j ELSE Unset

(* Slicing and merging are inverse to each other, if merging does not throw.*)
SliceAndMerge == SlicesCover /\ MergedIsSlice

(* The promise of waitForCondition() gives the number of attempts made,     *)
(* none of them after it was resolved by the timeout, and a positive one    *)
(* only if the last of them was successful.                                 *)
AttemptsReported ==
    result # Unresolved =>
        /\ attempts = IF result < 0 THEN -result ELSE result
        /\ attempts <= maxAttempts
        /\ result > 0 => said = "true"

Limited == maxAttempts # Infinity \/ timeoutIn # Infinity \/ timeoutOn # Infinity

(* If any limit is given and the condition answers, the loop ends and the   *)
(* promise is resolved, whichever of the attempts, the timeout, a late      *)
(* answer and a clock that jumps comes first: no exit of the loop relies on *)
(* another that has not resolved it.                                        *)
WaitEnds == pc = "called" /\ Limited ~> pc = "returned" /\ result # Unresolved

-----------------------------------------------------------------------------
(* What documents say and the code does not do.                             *)

(* Documented: copyChunksIntoBuffer() throws because the target buffer is   *)
(* too small (src/tools.ts); so it was smaller than what was sliced.        *)
ThrowsOnSmallTarget == Fits /\ pc = "threw" => targetSize < byteLength

=============================================================================
