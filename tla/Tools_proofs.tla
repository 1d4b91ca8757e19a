----------------------------- MODULE Tools_proofs -----------------------------
(***************************************************************************)
(* What the functions of src/tools.ts guarantee for every size, offset,    *)
(* limit and clock.                                                        *)
(***************************************************************************)
EXTENDS Tools, SequenceTheorems, TLAPS

\* The constants are numbers, Infinity and Epoch positive ones.
LEMMA ConstantsType ==
  /\ Infinity \in Nat \ {0} /\ Epoch \in Nat \ {0}
  /\ MaxDelay \in Nat /\ MaxClock \in Nat /\ SleepFor \in Nat
<1>1. 0 \in Limits \union {0}
  OBVIOUS
<1>2. Epoch + 2 * MaxClock + 0 < Infinity
  BY <1>1, ToolsAssumption
<1> QED  BY <1>2, ToolsAssumption

\* Adding a chunk to the chunks there are.
LEMMA AppendChunk ==
  ASSUME NEW S, NEW s \in Seq(S), NEW x \in S
  PROVE  /\ Append(s, x) \in Seq(S)
         /\ Len(Append(s, x)) = Len(s) + 1
         /\ Len(s) \in Nat
         /\ \A k \in 1..Len(s) : Append(s, x)[k] = s[k]
         /\ Append(s, x)[Len(s) + 1] = x
         /\ Append(s, x) # <<>>
BY AppendProperties, LenProperties

\* The k-th chunk is a chunk.
LEMMA ChunkAt ==
  ASSUME NEW S, NEW s \in Seq(S), NEW k \in 1..Len(s)
  PROVE  s[k] \in S
BY ElementOfSeq

\* What Uint8Array.slice() gives between two positions, the second of which may
\* come first: positions of the source.
LEMMA SlicedType ==
  ASSUME srcSize \in Nat, NEW from \in Nat, NEW to \in Nat
  PROVE  Sliced(from, to) \in [start : Nat, size : Nat]
BY DEF Sliced, Least

\* Where the next chunk ends is never in front of the buffer.
LEMMA ChunkEndType ==
  ASSUME TypeOK
  PROVE  offset + ChunkSize \in Nat
BY DEF TypeOK, ChunkSize, Least

-----------------------------------------------------------------------------
(* Every variable keeps its type.                                           *)
THEOREM TypeCorrect == Spec => []TypeOK
<1>1. Init => TypeOK
  <2> SUFFICES ASSUME Init  PROVE TypeOK
    OBVIOUS
  <2>1. <<>> \in Seq([start : Nat, size : Nat])
    BY EmptySeq
  <2>2. target \in [0..(targetSize - 1) -> Nat \union {Unset}]
    BY DEF Init, FreshBuffer
  <2>3. /\ srcSize \in Nat /\ chunkMaxSize \in Nat /\ byteLength \in Nat /\ initialOffset \in Nat
        /\ maxAttempts \in Nat \ {0} /\ timeoutIn \in Nat /\ timeoutOn \in Nat
        /\ pc \in {"slicing", "called"}
    <3>1. CASE SliceArguments
      BY <3>1, ConstantsType, ToolsAssumption DEF SliceArguments
    <3>2. CASE WaitArguments
      BY <3>2, ConstantsType, ToolsAssumption DEF WaitArguments
    <3> QED  BY <3>1, <3>2 DEF Init
  <2>4. /\ date \in Nat
        /\ due \in Nat \union {NoTimer}
        /\ result \in Int
    BY ConstantsType DEF Init, Unresolved, NoTimer
  <2>5. /\ initialOffset <= offset /\ offset \in Nat /\ relativeOffset \in Nat
        /\ said \in Answers \union {"nothing"}
    BY <2>3 DEF Init
  <2>6. timedOut \in BOOLEAN
    BY DEF Init
  <2>7. /\ attempt \in Nat \ {0} /\ attempts \in Nat
        /\ total \in Nat /\ i \in Nat \ {0} /\ at \in Nat /\ targetSize \in Nat
        /\ perf \in Nat /\ wakeUp \in Nat
        /\ chunks \in Seq([start : Nat, size : Nat])
    BY <2>1 DEF Init
  <2> QED  BY <2>2, <2>3, <2>4, <2>5, <2>6, <2>7 DEF TypeOK
<1>2. TypeOK /\ [Next]_vars => TypeOK'
  <2> SUFFICES ASSUME TypeOK, [Next]_vars  PROVE  TypeOK'
    OBVIOUS
  <2> USE DEF TypeOK
  <2>1. CASE UNCHANGED vars
    BY <2>1 DEF vars, sliceVars, sliceArgs, mergeVars, waitVars, options
  <2>2. CASE Slicing
    <3>1. CASE SliceMore
      <4>1. Sliced(offset, offset + ChunkSize) \in [start : Nat, size : Nat]
        BY ChunkEndType, SlicedType
      <4>2. chunks' \in Seq([start : Nat, size : Nat])
        BY <3>1, <4>1, AppendChunk DEF SliceMore
      <4>3. offset' \in Nat /\ relativeOffset' \in Nat
        BY <3>1 DEF SliceMore
      <4> QED  BY <3>1, <4>2, <4>3 DEF SliceMore, sliceArgs, mergeVars, waitVars, options
    <3>2. CASE SliceEnds
      BY <3>2 DEF SliceEnds, sliceVars, sliceArgs, mergeVars, waitVars, options
    <3> QED  BY <2>2, <3>1, <3>2 DEF Slicing
  <2>3. CASE Merging
    <3> USE DEF sliceVars, sliceArgs, mergeVars, waitVars, options
    <3>1. CASE MergeInto
      BY <3>1, ToolsAssumption DEF MergeInto, FreshBuffer
    <3>2. CASE MergeIntoNew
      BY <3>2 DEF MergeIntoNew
    <3>3. CASE SumChunk
      <4>0. i \in 1..Len(chunks)
        BY <3>3, LenProperties DEF SumChunk
      <4>1. chunks[i] \in [start : Nat, size : Nat]
        BY <4>0, ChunkAt
      <4> QED  BY <3>3, <4>1 DEF SumChunk
    <3>4. CASE Summed
      BY <3>4 DEF Summed, FreshBuffer
    <3>5. CASE CopyChunk
      <4>0. i \in 1..Len(chunks)
        BY <3>5, LenProperties DEF CopyChunk
      <4>1. chunks[i] \in [start : Nat, size : Nat]
        BY <4>0, ChunkAt
      <4>2. target' \in [0..(targetSize - 1) -> Nat \union {Unset}]
        <5>1. target' = Copied(chunks[i]) /\ targetSize' = targetSize
          BY <3>5 DEF CopyChunk
        <5>2. \A j \in 0..(targetSize - 1) : at <= j => chunks[i].start + (j - at) \in Nat
          BY <4>1
        <5> QED  BY <5>1, <5>2 DEF Copied
      <4> QED  BY <3>5, <4>1, <4>2 DEF CopyChunk
    <3>6. CASE CopyThrows
      BY <3>6 DEF CopyThrows
    <3>7. CASE CopyEnds
      BY <3>7 DEF CopyEnds
    <3> QED  BY <2>3, <3>1, <3>2, <3>3, <3>4, <3>5, <3>6, <3>7 DEF Merging
  <2>4. CASE WaitCalled
    <3>1. TimerDelay(Least(date + timeoutIn, timeoutOn)) \in Nat
      BY ConstantsType DEF TimerDelay, Least
    <3> QED  BY <2>4, <3>1, ConstantsType
             DEF WaitCalled, Return, Resolve, Attempt, NoTimer, sliceVars, sliceArgs, mergeVars,
                 options
  <2>5. ASSUME NEW answer \in Answers, ConditionSays(answer)  PROVE  TypeOK'
    <3>1. TimerDelay(IF SleepFor = 0 THEN 5 ELSE SleepFor) \in Nat
      BY ToolsAssumption DEF TimerDelay
    <3> QED  BY <2>5, <3>1 DEF ConditionSays, Return, Resolve, Sleep, NoTimer, sliceVars,
                 sliceArgs, mergeVars, options
  <2>6. CASE WakesUp
    BY <2>6 DEF WakesUp, Return, Resolve, Attempt, NoTimer, sliceVars, sliceArgs, mergeVars, options
  <2>7. CASE TimeoutFires
    BY <2>7 DEF TimeoutFires, Resolve, NoTimer, sliceVars, sliceArgs, mergeVars, options
  <2>8. CASE ClocksAdvance \/ DateJumps
    <3>1. CASE ClocksAdvance
      BY <2>8, <3>1 DEF ClocksAdvance, sliceVars, sliceArgs, mergeVars, options
    <3>2. CASE DateJumps
      BY <2>8, <3>2 DEF DateJumps, sliceVars, sliceArgs, mergeVars, options
    <3> QED  BY <2>8, <3>1, <3>2
  <2> QED  BY <2>1, <2>2, <2>3, <2>4, <2>5, <2>6, <2>7, <2>8 DEF Next
<1> QED  BY <1>1, <1>2, PTL DEF Spec

-----------------------------------------------------------------------------
(***************************************************************************)
(* waitForCondition().                                                     *)
(***************************************************************************)

\* While the loop runs it is in its attempt-th attempt; once the timeout has
\* fired the promise holds the number of attempts made, and none is added.
WaitInv ==
    /\ due # NoTimer => Waiting /\ ~timedOut
    /\ ~Waiting /\ pc # "returned" => attempts = 0 /\ result = Unresolved /\ ~timedOut
    /\ pc = "called" => attempt = 1
    /\ Waiting => attempts = attempt /\ attempt <= maxAttempts
    /\ pc = "sleeping" => attempt # maxAttempts
    /\ Waiting /\ ~timedOut => result = Unresolved
    /\ timedOut => result = -attempts
    /\ AttemptsReported

\* The steps of the other functions leave waitForCondition() alone.
LEMMA OtherSteps ==
  ASSUME TypeOK, WaitInv, Slicing \/ Merging
  PROVE  WaitInv'
<1>1. UNCHANGED waitVars /\ ~Waiting /\ ~Waiting' /\ pc # "returned" /\ pc' # "returned" /\ pc' # "called"
  <2> USE DEF sliceVars, sliceArgs, mergeVars, Waiting
  <2>1. CASE Slicing
    BY <2>1 DEF Slicing, SliceMore, SliceEnds
  <2>2. CASE Merging
    BY <2>2 DEF Merging, MergeInto, MergeIntoNew, SumChunk, Summed, CopyChunk, CopyThrows, CopyEnds
  <2> QED  BY <2>1, <2>2
<1>2. /\ UNCHANGED <<maxAttempts, attempt, attempts, said, due, result>>
      /\ timedOut' = timedOut
  BY <1>1 DEF waitVars, options
<1> QED  BY <1>1, <1>2 DEF WaitInv, AttemptsReported, Waiting

(* The promise of waitForCondition() gives the number of attempts made,     *)
(* none of them after the timeout, for every limit and however the clocks   *)
(* go (src/tools.ts).                                                       *)
THEOREM AttemptsAreReported == Spec => []AttemptsReported
<1>1. Init => WaitInv
  <2> SUFFICES ASSUME Init  PROVE WaitInv
    OBVIOUS
  <2>1. pc \in {"slicing", "called"}
    BY DEF Init, SliceArguments, WaitArguments
  <2> QED  BY <2>1 DEF Init, WaitInv, AttemptsReported, Waiting
<1>2. TypeOK /\ WaitInv /\ [Next]_vars => WaitInv'
  <2> SUFFICES ASSUME TypeOK, WaitInv, [Next]_vars  PROVE  WaitInv'
    OBVIOUS
  <2>0. /\ attempt \in Nat \ {0} /\ attempts \in Nat /\ maxAttempts \in Nat \ {0} /\ result \in Int
        /\ Unresolved \in Nat \ {0}
    BY ConstantsType DEF TypeOK, Unresolved
  <2> USE DEF WaitInv, AttemptsReported, Waiting
  <2>1. CASE UNCHANGED vars
    BY <2>1 DEF vars, waitVars, options
  <2>2. CASE Slicing \/ Merging
    BY <2>2, OtherSteps
  <2>3. CASE WaitCalled
    BY <2>0, <2>3 DEF WaitCalled, Return, Resolve, Attempt, options
  <2>4. ASSUME NEW answer \in Answers, ConditionSays(answer)  PROVE  WaitInv'
    <3>1. CASE timedOut
      BY <2>0, <2>4, <3>1 DEF ConditionSays, Return, Sleep, options
    <3>2. CASE ~timedOut /\ answer = "true"
      BY <2>0, <2>4, <3>2 DEF ConditionSays, Return, Resolve, options
    <3>3. CASE ~timedOut /\ answer # "true"
      BY <2>0, <2>4, <3>3 DEF ConditionSays, Return, Resolve, Sleep, options
    <3> QED  BY <3>1, <3>2, <3>3
  <2>5. CASE WakesUp
    BY <2>0, <2>5 DEF WakesUp, Return, Resolve, Attempt, options
  <2>6. CASE TimeoutFires
    BY <2>0, <2>6 DEF TimeoutFires, Resolve, options
  <2>7. CASE ClocksAdvance
    BY <2>7 DEF ClocksAdvance, options
  <2>8. CASE DateJumps
    BY <2>8 DEF DateJumps, options
  <2> QED  BY <2>1, <2>2, <2>3, <2>4, <2>5, <2>6, <2>7, <2>8 DEF Next
<1>3. WaitInv => AttemptsReported
  BY DEF WaitInv
<1> QED  BY <1>1, <1>2, <1>3, TypeCorrect, PTL DEF Spec

-----------------------------------------------------------------------------
(***************************************************************************)
(* sliceBufferToChunks() and copyChunksIntoBuffer().                       *)
(***************************************************************************)

\* The chunks follow each other in the source, and none is too large.
ChunksInARow ==
    /\ chunks # <<>> => chunks[1].start = initialOffset
    /\ \A k \in 1..(Len(chunks) - 1) : chunks[k + 1].start = chunks[k].start + chunks[k].size
    /\ \A k \in 1..Len(chunks) : chunks[k].size <= chunkMaxSize

\* The chunks end where the loop has come to, and never behind what was asked for.
SliceInv ==
    Fits =>
        /\ ChunksInARow
        /\ pc = "slicing" =>
             /\ ChunksEnd = initialOffset + Least(offset - initialOffset, byteLength)
             /\ relativeOffset <= offset - initialOffset
             /\ chunks = <<>> => offset = initialOffset
        /\ pc # "slicing" => ChunksEnd = initialOffset + byteLength

\* An iteration of the loop adds what comes next, or an empty chunk at the end.
LEMMA NextChunk ==
  ASSUME TypeOK, Fits, SliceInv, SliceMore,
         NEW c, c = Sliced(offset, offset + ChunkSize)
  PROVE  /\ c.start = ChunksEnd
         /\ c.size \in Nat /\ c.size <= chunkMaxSize
         /\ c.start + c.size =
              initialOffset + Least(offset + chunkMaxSize - initialOffset, byteLength)
<1>1. /\ srcSize \in Nat /\ chunkMaxSize \in Nat \ {0} /\ byteLength \in Nat
      /\ initialOffset \in Nat /\ offset \in Nat /\ initialOffset <= offset
      /\ initialOffset + byteLength <= srcSize
      /\ ChunksEnd = initialOffset + Least(offset - initialOffset, byteLength)
  BY DEF TypeOK, Fits, SliceInv, SliceMore
<1>2. CASE offset - initialOffset <= byteLength
  BY <1>1, <1>2 DEF Sliced, ChunkSize, Least
<1>3. CASE byteLength < offset - initialOffset
  BY <1>1, <1>3 DEF Sliced, ChunkSize, Least
<1> QED  BY <1>1, <1>2, <1>3

LEMMA SliceMoreKeeps ==
  ASSUME TypeOK, Fits, SliceInv, SliceMore
  PROVE  SliceInv'
<1> DEFINE c == Sliced(offset, offset + ChunkSize)
           S == [start : Nat, size : Nat]
<1>1. c \in S
  BY ChunkEndType, SlicedType DEF TypeOK
<1>2. /\ c.start = ChunksEnd
      /\ c.size \in Nat /\ c.size <= chunkMaxSize
      /\ c.start + c.size = initialOffset + Least(offset + chunkMaxSize - initialOffset, byteLength)
  BY NextChunk
<1>3. /\ chunks' = Append(chunks, c)
      /\ chunks \in Seq(S)
      /\ offset' = offset + chunkMaxSize /\ relativeOffset' = offset - initialOffset
      /\ UNCHANGED <<srcSize, chunkMaxSize, byteLength, initialOffset>>
      /\ pc = "slicing" /\ pc' = "slicing"
  BY DEF SliceMore, sliceArgs, TypeOK
<1> HIDE DEF c
<1>4. /\ Len(chunks') = Len(chunks) + 1 /\ Len(chunks) \in Nat
      /\ \A k \in 1..Len(chunks) : chunks'[k] = chunks[k]
      /\ chunks'[Len(chunks) + 1] = c
      /\ chunks' # <<>>
  BY <1>1, <1>3, AppendChunk
<1>5. chunks = <<>> <=> Len(chunks) = 0
  BY <1>3, EmptySeq, LenProperties
<1>6. ChunksInARow
  BY DEF SliceInv
<1>7. chunks'[1].start = initialOffset
  <2>1. CASE chunks = <<>>
    BY <1>2, <1>4, <1>5, <2>1 DEF ChunksEnd
  <2>2. CASE chunks # <<>>
    BY <1>4, <1>5, <1>6, <2>2 DEF ChunksInARow
  <2> QED  BY <2>1, <2>2
<1>8. ASSUME NEW k \in 1..(Len(chunks') - 1)
      PROVE  chunks'[k + 1].start = chunks'[k].start + chunks'[k].size
  <2>1. CASE k = Len(chunks)
    BY <1>2, <1>4, <1>5, <2>1 DEF ChunksEnd
  <2>2. CASE k # Len(chunks)
    <3>1. k \in 1..(Len(chunks) - 1) /\ k + 1 \in 1..Len(chunks) /\ k \in 1..Len(chunks)
      BY <1>4, <2>2
    <3> QED  BY <1>4, <1>6, <3>1 DEF ChunksInARow
  <2> QED  BY <2>1, <2>2
<1>9. ASSUME NEW k \in 1..Len(chunks')
      PROVE  chunks'[k].size <= chunkMaxSize
  BY <1>2, <1>4, <1>6 DEF ChunksInARow
<1>10. ChunksEnd' = initialOffset' + Least(offset' - initialOffset', byteLength')
  <2>1. ChunksEnd' = c.start + c.size
    BY <1>4 DEF ChunksEnd
  <2>2. offset' = offset + chunkMaxSize /\ initialOffset' = initialOffset /\ byteLength' = byteLength
    BY <1>3
  <2>3. offset' - initialOffset' = offset + chunkMaxSize - initialOffset
    BY <2>2 DEF TypeOK
  <2> QED  BY <1>2, <2>1, <2>2, <2>3
<1>11. relativeOffset' <= offset' - initialOffset'
  BY <1>3 DEF TypeOK
<1>12. ChunksInARow'
  BY <1>3, <1>7, <1>8, <1>9 DEF ChunksInARow
<1> QED  BY <1>3, <1>4, <1>10, <1>11, <1>12 DEF SliceInv

\* The loop ends when everything is in a chunk.
LEMMA SliceEndsKeeps ==
  ASSUME TypeOK, Fits, SliceInv, SliceEnds
  PROVE  SliceInv'
<1>1. /\ chunkMaxSize \in Nat \ {0} /\ byteLength \in Nat /\ initialOffset \in Nat
      /\ offset \in Nat /\ initialOffset <= offset /\ relativeOffset \in Nat
      /\ ChunksEnd = initialOffset + Least(offset - initialOffset, byteLength)
      /\ relativeOffset <= offset - initialOffset
      /\ relativeOffset < byteLength => ChunkSize = 0
      /\ ChunksInARow
  BY DEF TypeOK, Fits, SliceInv, SliceEnds
<1>2. ChunksEnd = initialOffset + byteLength
  BY <1>1 DEF ChunkSize, Least
<1>3. UNCHANGED sliceVars /\ pc' = "sliced"
  BY DEF SliceEnds
<1>4. ChunksInARow' /\ ChunksEnd' = ChunksEnd /\ initialOffset' = initialOffset /\ byteLength' = byteLength
  BY <1>1, <1>3 DEF sliceVars, sliceArgs, ChunksInARow, ChunksEnd
<1> QED  BY <1>2, <1>3, <1>4 DEF SliceInv

\* Every other step finds the slicing over and leaves the chunks alone.
LEMMA AfterSlicing ==
  ASSUME [Next]_vars, ~Slicing
  PROVE  UNCHANGED sliceVars /\ (pc' = "slicing" <=> pc = "slicing")
<1>1. CASE UNCHANGED vars
  BY <1>1 DEF vars
<1>2. CASE Merging
  BY <1>2 DEF Merging, MergeInto, MergeIntoNew, SumChunk, Summed, CopyChunk, CopyThrows, CopyEnds
<1>3. CASE WaitCalled
  BY <1>3 DEF WaitCalled, Return, Attempt
<1>4. ASSUME NEW answer \in Answers, ConditionSays(answer)
      PROVE  UNCHANGED sliceVars /\ (pc' = "slicing" <=> pc = "slicing")
  BY <1>4 DEF ConditionSays, Return, Sleep
<1>5. CASE WakesUp
  BY <1>5 DEF WakesUp, Return, Attempt
<1>6. CASE TimeoutFires \/ ClocksAdvance \/ DateJumps
  BY <1>6 DEF TimeoutFires, ClocksAdvance, DateJumps
<1> QED  BY <1>1, <1>2, <1>3, <1>4, <1>5, <1>6 DEF Next

LEMMA SliceInvariant == Spec => []SliceInv
<1>1. Init => SliceInv
  <2> SUFFICES ASSUME Init, Fits  PROVE SliceInv
    BY DEF SliceInv
  <2>1. SliceArguments
    BY DEF Init, WaitArguments, Fits
  <2>2. /\ pc = "slicing" /\ chunks = <<>> /\ Len(chunks) = 0
        /\ offset = initialOffset /\ relativeOffset = 0
        /\ byteLength \in Nat /\ initialOffset \in Nat
    BY <2>1, ToolsAssumption DEF Init, SliceArguments
  <2>3. ChunksEnd = initialOffset + Least(offset - initialOffset, byteLength)
    BY <2>2 DEF ChunksEnd, Least
  <2> QED  BY <2>2, <2>3 DEF SliceInv, ChunksInARow
<1>2. TypeOK /\ SliceInv /\ [Next]_vars => SliceInv'
  <2> SUFFICES ASSUME TypeOK, SliceInv, [Next]_vars  PROVE  SliceInv'
    OBVIOUS
  <2>1. UNCHANGED sliceArgs
    BY AfterSlicing DEF Slicing, SliceMore, SliceEnds, sliceVars
  <2>2. CASE ~Fits
    BY <2>1, <2>2 DEF SliceInv, Fits, sliceArgs
  <2>3. CASE Fits /\ Slicing
    BY <2>3, SliceMoreKeeps, SliceEndsKeeps DEF Slicing
  <2>4. CASE Fits /\ ~Slicing
    <3>1. UNCHANGED sliceVars /\ (pc' = "slicing" <=> pc = "slicing")
      BY <2>4, AfterSlicing
    <3> QED  BY <2>4, <3>1 DEF SliceInv, ChunksInARow, ChunksEnd, sliceVars, sliceArgs
  <2> QED  BY <2>2, <2>3, <2>4
<1> QED  BY <1>1, <1>2, TypeCorrect, PTL DEF Spec

\* While the chunks are copied, the target holds the source up to where the next
\* chunk starts, and nothing behind.
CopyInv ==
    /\ pc \in {"slicing", "sliced", "summing"} => at = 0
    /\ pc \in {"slicing", "sliced"} => i = 1
    /\ pc \in {"copying", "copied", "threw"} =>
         /\ i <= Len(chunks) + 1
         /\ Fits => at = (IF i <= Len(chunks) THEN chunks[i].start ELSE ChunksEnd) - initialOffset
         /\ Fits => \A j \in 0..(targetSize - 1) :
                      target[j] = IF j < at THEN initialOffset + j ELSE Unset
    /\ pc = "copied" => i = Len(chunks) + 1

\* Copying starts in front of the first chunk, with nothing in the target.
LEMMA CopyingStarts ==
  ASSUME TypeOK, SliceInv, pc \in {"sliced", "summing"},
         pc' = "copying", i' = 1, at' = 0, UNCHANGED sliceVars, targetSize' \in Nat,
         target' = FreshBuffer(targetSize')
  PROVE  CopyInv'
<1>1. Len(chunks) \in Nat /\ chunks' = chunks /\ initialOffset' = initialOffset
      /\ initialOffset \in Nat
      /\ (chunks = <<>> <=> Len(chunks) = 0)
  BY LenProperties, EmptySeq DEF TypeOK, sliceVars, sliceArgs
<1>2. (Fits' => Fits) /\ ChunksEnd' = ChunksEnd
  BY DEF Fits, ChunksEnd, sliceVars, sliceArgs
<1>3. ASSUME Fits
      PROVE  0 = (IF 1 <= Len(chunks) THEN chunks[1].start ELSE ChunksEnd) - initialOffset
  BY <1>1, <1>3 DEF SliceInv, ChunksInARow, ChunksEnd
<1>4. ASSUME NEW j \in 0..(targetSize' - 1)
      PROVE  target'[j] = IF j < at' THEN initialOffset' + j ELSE Unset
  <2>1. target'[j] = Unset
    BY DEF FreshBuffer
  <2>2. ~(j < at')
    OBVIOUS
  <2> QED  BY <2>1, <2>2
<1>5. i' <= Len(chunks') + 1
  BY <1>1
<1>6. Fits' => at' = (IF i' <= Len(chunks') THEN chunks'[i'].start ELSE ChunksEnd') - initialOffset'
  BY <1>1, <1>2, <1>3
<1> QED  BY <1>4, <1>5, <1>6 DEF CopyInv

\* Copying a chunk brings the copy to the start of the next one.
LEMMA CopyChunkKeeps ==
  ASSUME TypeOK, SliceInv, CopyInv, CopyChunk
  PROVE  CopyInv'
<1>1. /\ pc = "copying" /\ pc' = "copying"
      /\ i \in 1..Len(chunks) /\ Len(chunks) \in Nat /\ i' = i + 1
      /\ UNCHANGED <<chunks, srcSize, chunkMaxSize, byteLength, initialOffset, targetSize>>
      /\ at' = at + chunks[i].size
      /\ target' = Copied(chunks[i])
      /\ at \in Nat /\ initialOffset \in Nat /\ targetSize \in Nat
      /\ target \in [0..(targetSize - 1) -> Nat \union {Unset}]
  BY LenProperties DEF CopyChunk, TypeOK, sliceVars, sliceArgs
<1>2. chunks[i] \in [start : Nat, size : Nat]
  BY <1>1, ChunkAt DEF TypeOK
<1>3. (Fits' => Fits) /\ ChunksEnd' = ChunksEnd
  BY <1>1 DEF Fits, ChunksEnd
<1>4. ASSUME Fits
      PROVE  /\ at' = (IF i' <= Len(chunks) THEN chunks[i'].start ELSE ChunksEnd) - initialOffset
             /\ \A j \in 0..(targetSize - 1) :
                  target'[j] = IF j < at' THEN initialOffset + j ELSE Unset
  <2>1. at = chunks[i].start - initialOffset
    BY <1>1, <1>4 DEF CopyInv
  <2>2. chunks[i].start + chunks[i].size =
          (IF i + 1 <= Len(chunks) THEN chunks[i + 1].start ELSE ChunksEnd)
    <3>1. CASE i = Len(chunks)
      <4>1. chunks # <<>>
        BY <1>1, <3>1, EmptySeq
      <4> QED  BY <1>1, <3>1, <4>1 DEF ChunksEnd
    <3>2. CASE i # Len(chunks)
      <4>1. i \in 1..(Len(chunks) - 1) /\ i + 1 <= Len(chunks)
        BY <1>1, <3>2
      <4>2. chunks[i + 1].start = chunks[i].start + chunks[i].size
        BY <1>4, <4>1 DEF SliceInv, ChunksInARow
      <4> QED  BY <4>1, <4>2
    <3> QED  BY <3>1, <3>2
  <2>3. at' = (IF i' <= Len(chunks) THEN chunks[i'].start ELSE ChunksEnd) - initialOffset
    BY <1>1, <1>2, <2>1, <2>2
  <2>4. ASSUME NEW j \in 0..(targetSize - 1)
        PROVE  target'[j] = IF j < at' THEN initialOffset + j ELSE Unset
    <3>1. target[j] = IF j < at THEN initialOffset + j ELSE Unset
      BY <1>1, <1>4 DEF CopyInv
    <3>2. target'[j] = IF at <= j /\ j < at + chunks[i].size
                         THEN chunks[i].start + (j - at) ELSE target[j]
      BY <1>1 DEF Copied
    <3> QED  BY <1>1, <1>2, <2>1, <3>1, <3>2
  <2> QED  BY <2>3, <2>4
<1> QED  BY <1>1, <1>3, <1>4 DEF CopyInv

(* Slicing a part of a buffer and merging the chunks gives that part, for   *)
(* every size of the buffer, of the part, of the chunks and of the target,  *)
(* if copyChunksIntoBuffer() does not throw (src/tools.ts).                 *)
THEOREM SlicingAndMerging == Spec => []SliceAndMerge
<1>1. Init => CopyInv
  <2> SUFFICES ASSUME Init  PROVE CopyInv
    OBVIOUS
  <2>1. pc \in {"slicing", "called"}
    BY DEF Init, SliceArguments, WaitArguments
  <2> QED  BY <2>1 DEF Init, CopyInv
<1>2. TypeOK /\ TypeOK' /\ SliceInv /\ CopyInv /\ [Next]_vars => CopyInv'
  <2> SUFFICES ASSUME TypeOK, TypeOK', SliceInv, CopyInv, [Next]_vars  PROVE  CopyInv'
    OBVIOUS
  <2>1. CASE UNCHANGED vars
    BY <2>1 DEF CopyInv, Fits, ChunksEnd, vars, sliceVars, sliceArgs, mergeVars
  <2>2. CASE Slicing
    BY <2>2 DEF Slicing, SliceMore, SliceEnds, CopyInv, mergeVars
  <2>3. CASE Merging
    <3>1. CASE MergeInto
      BY <2>3, <3>1, CopyingStarts DEF MergeInto, CopyInv, TypeOK
    <3>2. CASE MergeIntoNew
      BY <3>2 DEF MergeIntoNew, CopyInv, mergeVars
    <3>3. CASE SumChunk
      BY <3>3 DEF SumChunk, CopyInv
    <3>4. CASE Summed
      BY <3>4, CopyingStarts DEF Summed, CopyInv, TypeOK
    <3>5. CASE CopyChunk
      BY <3>5, CopyChunkKeeps
    <3>6. CASE CopyThrows
      BY <3>6 DEF CopyThrows, CopyInv, Fits, ChunksEnd, sliceVars, sliceArgs, mergeVars
    <3>7. CASE CopyEnds
      <4>0. Len(chunks) \in Nat /\ i \in Nat
        BY LenProperties DEF TypeOK
      <4>1. i = Len(chunks) + 1
        BY <3>7, <4>0 DEF CopyEnds, CopyInv
      <4> QED  BY <3>7, <4>1 DEF CopyEnds, CopyInv, Fits, ChunksEnd, sliceVars, sliceArgs, mergeVars
    <3> QED  BY <2>3, <3>1, <3>2, <3>3, <3>4, <3>5, <3>6, <3>7 DEF Merging
  <2>4. CASE WaitCalled
    BY <2>4 DEF WaitCalled, Return, Attempt, CopyInv
  <2>5. ASSUME NEW answer \in Answers, ConditionSays(answer)  PROVE  CopyInv'
    BY <2>5 DEF ConditionSays, Return, Sleep, CopyInv
  <2>6. CASE WakesUp
    BY <2>6 DEF WakesUp, Return, Attempt, CopyInv
  <2>7. CASE TimeoutFires \/ ClocksAdvance \/ DateJumps
    BY <2>7 DEF TimeoutFires, ClocksAdvance, DateJumps, CopyInv, Fits, ChunksEnd, sliceVars,
                sliceArgs, mergeVars
  <2> QED  BY <2>1, <2>2, <2>3, <2>4, <2>5, <2>6, <2>7 DEF Next
<1>3. TypeOK /\ SliceInv /\ CopyInv => SliceAndMerge
  <2> SUFFICES ASSUME TypeOK, SliceInv, CopyInv  PROVE SliceAndMerge
    OBVIOUS
  <2>1. SlicesCover
    BY DEF SliceInv, ChunksInARow, SlicesCover
  <2>2. ASSUME Fits, pc = "copied"
        PROVE  \A j \in DOMAIN target : target[j] = IF j < byteLength THEN initialOffset + j ELSE Unset
    <3>1. Len(chunks) \in Nat /\ initialOffset \in Nat /\ byteLength \in Nat
      BY LenProperties DEF TypeOK
    <3>2. at = byteLength
      BY <2>2, <3>1 DEF CopyInv, SliceInv
    <3> QED  BY <2>2, <3>2 DEF CopyInv, TypeOK
  <2> QED  BY <2>1, <2>2 DEF SliceAndMerge, MergedIsSlice
<1> QED  BY <1>1, <1>2, <1>3, TypeCorrect, SliceInvariant, PTL DEF Spec

=============================================================================
