--------------------------- MODULE AsyncSRT_proofs ---------------------------
(***************************************************************************)
(* What AsyncSRT guarantees for every set of calls.                        *)
(***************************************************************************)
EXTENDS AsyncSRT, FiniteSetTheorems, SequenceTheorems, TLAPS

(***************************************************************************)
(* Facts about sequences used as queues.                                   *)
(***************************************************************************)

\* The concatenation of two queues of calls is a queue of calls.
LEMMA ConcatSeq ==
  ASSUME NEW S, NEW s \in Seq(S), NEW t \in Seq(S)
  PROVE  s \o t \in Seq(S)
BY ConcatProperties

(* Appending to the second of two queues appends to their concatenation.    *)
LEMMA ConcatAppend ==
  ASSUME NEW S, NEW s \in Seq(S), NEW t \in Seq(S), NEW x \in S
  PROVE  s \o Append(t, x) = Append(s \o t, x)
<1>1. s \o t \in Seq(S) /\ <<x>> \in Seq(S)
  BY ConcatProperties
<1>2. Append(t, x) = t \o <<x>> /\ Append(s \o t, x) = (s \o t) \o <<x>>
  BY <1>1, AppendIsConcat
<1>3. (s \o t) \o <<x>> = s \o (t \o <<x>>)
  BY <1>1, ConcatAssociative
<1> QED  BY <1>2, <1>3

(* Moving the head of the second queue to the end of the first one.         *)
LEMMA MoveHead ==
  ASSUME NEW S, NEW s \in Seq(S), NEW t \in Seq(S), t # <<>>
  PROVE  (s \o <<Head(t)>>) \o Tail(t) = s \o t
<1>1. Head(t) \in S /\ Tail(t) \in Seq(S) /\ Len(t) > 0 /\ Len(Tail(t)) = Len(t) - 1
  BY HeadTailProperties, EmptySeq, LenProperties
<1>2. <<Head(t)>> \in Seq(S) /\ Len(<<Head(t)>>) = 1 /\ <<Head(t)>>[1] = Head(t)
  BY <1>1
<1>3. s \o <<Head(t)>> \in Seq(S) /\ s \o t \in Seq(S)
  BY <1>2, ConcatProperties
<1>4. (s \o <<Head(t)>>) \o Tail(t) \in Seq(S)
  BY <1>1, <1>3, ConcatProperties
<1>5. Len((s \o <<Head(t)>>) \o Tail(t)) = Len(s \o t)
  BY <1>1, <1>2, <1>3, LenProperties, ConcatProperties
<1>6. ASSUME NEW i \in 1..Len(s \o t)
      PROVE  ((s \o <<Head(t)>>) \o Tail(t))[i] = (s \o t)[i]
  BY <1>1, <1>2, <1>3, <1>5, LenProperties, ConcatProperties, HeadTailProperties
<1> QED  BY <1>3, <1>4, <1>5, <1>6, SeqEqual

(* A concatenation is consumed from its first part.                         *)
LEMMA ConcatHeadTail ==
  ASSUME NEW S, NEW s \in Seq(S), NEW t \in Seq(S), s # <<>>
  PROVE  /\ s \o t # <<>>
         /\ Head(s \o t) = Head(s)
         /\ Tail(s \o t) = Tail(s) \o t
<1>1. s \o t \in Seq(S) /\ Len(s) > 0 /\ Len(s \o t) = Len(s) + Len(t) /\ Len(t) \in Nat
  BY ConcatProperties, EmptySeq, LenProperties
<1>2. s \o t # <<>>
  BY <1>1, LenProperties, EmptySeq
<1>3. Head(s \o t) = Head(s)
  BY <1>1, <1>2, ConcatProperties, HeadTailProperties, LenProperties
<1>4. Tail(s) \in Seq(S) /\ Tail(s \o t) \in Seq(S) /\ Tail(s) \o t \in Seq(S)
  BY <1>1, <1>2, HeadTailProperties, ConcatProperties
<1>5. Len(Tail(s \o t)) = Len(Tail(s) \o t)
  BY <1>1, <1>2, <1>4, HeadTailProperties, ConcatProperties, LenProperties
<1>6. ASSUME NEW i \in 1..Len(Tail(s) \o t)
      PROVE  Tail(s \o t)[i] = (Tail(s) \o t)[i]
  BY <1>1, <1>2, <1>4, HeadTailProperties, ConcatProperties, LenProperties
<1> QED  BY <1>2, <1>3, <1>4, <1>5, <1>6, SeqEqual

-----------------------------------------------------------------------------
(* Every variable keeps its type.                                           *)
THEOREM TypeCorrect == Spec => []TypeOK
<1>1. Init => TypeOK
  <2> SUFFICES ASSUME Init  PROVE TypeOK
    OBVIOUS
  <2>1. <<>> \in Seq(Calls)
    BY EmptySeq
  <2>2. /\ promise \in [Calls -> PromiseStates]
        /\ answer \in [Calls -> Calls \union {NoCall}]
        /\ cbAnswer \in [Calls -> Calls \union {NoCall}]
    BY DEF Init, PromiseStates
  <2>3. workCbQueue \in Seq(Calls) /\ inbox \in Seq(Calls) /\ outbox \in Seq(Calls)
    BY <2>1 DEF Init
  <2>4. lockLevel \in Int
    BY DEF Init
  <2> QED  BY <2>2, <2>3, <2>4, Zenon DEF Init, TypeOK
<1>2. TypeOK /\ [Next]_vars => TypeOK'
  <2> SUFFICES ASSUME TypeOK, [Next]_vars  PROVE  TypeOK'
    OBVIOUS
  <2> USE CallsAssumption DEF TypeOK, PromiseStates
  <2>1. CASE UNCHANGED vars
    BY <2>1 DEF vars, mainVars, disposeVars, workerVars
  <2>2. ASSUME NEW c \in Calls, Call(c)  PROVE  TypeOK'
    <3>1. CASE CallAfterDispose(c) \/ CallWhileDisposing(c) \/ CallWithUndefinedArg(c)
      BY <3>1 DEF CallAfterDispose, CallWhileDisposing, CallWithUndefinedArg, Return,
                  disposeVars, workerVars
    <3>2. CASE CallPosted(c)
      BY <3>2, AppendProperties DEF CallPosted, Return, disposeVars
    <3>3. CASE CallNotCloned(c)
      BY <3>3, AppendProperties DEF CallNotCloned, Return, disposeVars, workerVars
    <3> QED  BY <2>2, <3>1, <3>2, <3>3 DEF Call
  <2>3. ASSUME NEW c \in Calls, Timeout(c)  PROVE  TypeOK'
    BY <2>3 DEF Timeout, disposeVars, workerVars
  <2>4. CASE WorkerTake
    BY <2>4, HeadTailProperties DEF WorkerTake, mainVars, disposeVars
  <2>5. ASSUME NEW threw \in BOOLEAN, WorkerReply(threw)  PROVE  TypeOK'
    <3>1. busy \in Calls /\ Append(outbox, busy) \in Seq(Calls)
      BY <2>5, AppendProperties DEF WorkerReply
    <3> QED  BY <2>5, <3>1 DEF WorkerReply, mainVars, disposeVars
  <2>6. CASE OnWorkerMessage
    <3>1. Head(outbox) \in Calls /\ Tail(outbox) \in Seq(Calls)
      BY <2>6, HeadTailProperties DEF OnWorkerMessage
    <3>2. workCbQueue # <<>> => Head(workCbQueue) \in Calls /\ Tail(workCbQueue) \in Seq(Calls)
      BY HeadTailProperties
    <3>3. lastError' \in Calls \union {NoCall}
      BY <2>6, <3>1 DEF OnWorkerMessage, StoredError, mainVars
    <3>4. CASE isDisposed \/ workCbQueue = <<>>
      BY <2>6, <3>1, <3>3, <3>4 DEF OnWorkerMessage, mainVars, disposeVars
    <3>5. CASE ~isDisposed /\ workCbQueue # <<>>
      <4> DEFINE c == Head(workCbQueue)
                 r == Head(outbox)
      <4>1. OnResult(c, r) /\ workCbQueue' = Tail(workCbQueue) /\ c \in Calls /\ r \in Calls
        BY <2>6, <3>1, <3>2, <3>5 DEF OnWorkerMessage, ShiftedCallback
      <4> HIDE DEF c, r
      <4>2. /\ promise' \in [Calls -> PromiseStates]
            /\ answer' \in [Calls -> Calls \union {NoCall}]
            /\ cbAnswer' \in [Calls -> Calls \union {NoCall}]
            /\ timers' \subseteq Calls
            /\ lockLevel' \in Int
        BY <4>1 DEF OnResult, Return
      <4> QED  BY <2>6, <3>1, <3>2, <3>3, <3>5, <4>1, <4>2 DEF OnWorkerMessage, disposeVars
    <3> QED  BY <3>4, <3>5
  <2>7. CASE Dispose
    BY <2>7, EmptySeq DEF Dispose, Detach, mainVars, workerVars
  <2>8. CASE DisposeProceed
    BY <2>8, EmptySeq DEF DisposeProceed, Detach
  <2>9. CASE Terminated
    BY <2>9, EmptySeq DEF Terminated, mainVars
  <2>10. CASE DisposeAgain
    BY <2>10 DEF DisposeAgain, mainVars, workerVars
  <2> QED  BY <2>1, <2>2, <2>3, <2>4, <2>5, <2>6, <2>7, <2>8, <2>9, <2>10 DEF Next
<1> QED  BY <1>1, <1>2, PTL DEF Spec

-----------------------------------------------------------------------------
(* The lock level.                                                          *)

Distinct(s) == \A i, j \in 1..Len(s) : s[i] = s[j] => i = j

\* What push() adds to a queue, and that it keeps the queue free of duplicates.
LEMMA AppendOccurs ==
  ASSUME NEW S, NEW s \in Seq(S), NEW x \in S
  PROVE  /\ \A y : OccursIn(y, Append(s, x)) <=> y = x \/ OccursIn(y, s)
         /\ Distinct(s) /\ ~OccursIn(x, s) => Distinct(Append(s, x))
<1>1. /\ Len(s) \in Nat /\ Len(Append(s, x)) = Len(s) + 1
      /\ \A i \in 1..Len(s) : Append(s, x)[i] = s[i]
      /\ Append(s, x)[Len(s) + 1] = x
  BY AppendProperties, LenProperties
<1>2. \A i \in 1..Len(s) + 1 : i \in 1..Len(s) \/ i = Len(s) + 1
  BY <1>1
<1>3. 1..Len(s) \subseteq 1..Len(s) + 1 /\ Len(s) + 1 \in 1..Len(s) + 1
  BY <1>1
<1>4. \A y : OccursIn(y, Append(s, x)) <=> y = x \/ OccursIn(y, s)
  BY <1>1, <1>2, <1>3 DEF OccursIn
<1>5. ASSUME Distinct(s), ~OccursIn(x, s)  PROVE Distinct(Append(s, x))
  BY <1>1, <1>2, <1>5 DEF Distinct, OccursIn
<1> QED  BY <1>4, <1>5

\* What shift() takes from a queue without duplicates.
LEMMA TailOccurs ==
  ASSUME NEW S, NEW s \in Seq(S), s # <<>>, Distinct(s)
  PROVE  /\ OccursIn(Head(s), s)
         /\ \A y : OccursIn(y, Tail(s)) <=> y # Head(s) /\ OccursIn(y, s)
         /\ Distinct(Tail(s))
<1>1. /\ Len(s) \in Nat \ {0} /\ Len(Tail(s)) = Len(s) - 1
      /\ \A i \in 1..Len(Tail(s)) : Tail(s)[i] = s[i + 1]
      /\ Head(s) = s[1]
  BY EmptySeq, HeadTailProperties
<1>2. OccursIn(Head(s), s)
  BY <1>1 DEF OccursIn
<1>3. ASSUME NEW y, OccursIn(y, Tail(s))  PROVE y # Head(s) /\ OccursIn(y, s)
  <2>1. PICK i \in 1..Len(Tail(s)) : Tail(s)[i] = y
    BY <1>3 DEF OccursIn
  <2>2. i + 1 \in 1..Len(s) /\ 1 \in 1..Len(s) /\ i + 1 # 1 /\ s[i + 1] = y
    BY <1>1, <2>1
  <2> QED  BY <1>1, <2>2 DEF Distinct, OccursIn
<1>4. ASSUME NEW y, y # Head(s), OccursIn(y, s)  PROVE OccursIn(y, Tail(s))
  <2>1. PICK i \in 1..Len(s) : s[i] = y
    BY <1>4 DEF OccursIn
  <2>2. i # 1
    BY <1>1, <1>4, <2>1
  <2>3. i - 1 \in 1..Len(Tail(s)) /\ Tail(s)[i - 1] = y
    BY <1>1, <2>1, <2>2
  <2> QED  BY <2>3 DEF OccursIn
<1>5. Distinct(Tail(s))
  <2> SUFFICES ASSUME NEW i \in 1..Len(Tail(s)), NEW j \in 1..Len(Tail(s)),
                      Tail(s)[i] = Tail(s)[j]
               PROVE  i = j
    BY DEF Distinct
  <2>1. i + 1 \in 1..Len(s) /\ j + 1 \in 1..Len(s) /\ s[i + 1] = s[j + 1]
    BY <1>1
  <2>2. i + 1 = j + 1
    BY <2>1 DEF Distinct
  <2> QED  BY <2>2, <1>1
<1> QED  BY <1>2, <1>3, <1>4, <1>5

(* LockCounts is not inductive by itself: that a holder is counted once,    *)
(* and gives the lock back once, rests on every callback being queued once, *)
(* on timers being armed for pending promises only, and on every pending    *)
(* promise having its callback in the queue of a live instance.             *)
TimersPending == \A c \in timers : c \in TimeoutCalls /\ promise[c] = "pending"
QueuedWasMade == \A i \in 1..Len(workCbQueue) :
                   promise[workCbQueue[i]] \in {"pending", "timedOut", "unposted"}
PendingQueued == \A c \in Calls :
                   promise[c] = "pending" => ~isDisposed /\ OccursIn(c, workCbQueue)
LockInv ==
    /\ TimersPending
    /\ QueuedWasMade
    /\ Distinct(workCbQueue)
    /\ PendingQueued
    /\ LockCounts

\* The calls that hold the lock can be counted.
LEMMA HoldersFinite == IsFiniteSet(Holders) /\ Cardinality(Holders) \in Nat
<1>1. Holders \in SUBSET Calls
  BY DEF Holders
<1> QED  BY <1>1, CallsAssumption, FS_Subset, FS_CardinalityType

\* No call holds the lock of a new instance.
LEMMA LockInvInit == Init => LockInv
<1> SUFFICES ASSUME Init  PROVE LockInv
  OBVIOUS
<1>1. Len(workCbQueue) = 0
  BY EmptySeq DEF Init
<1>2. Holders = {}
  BY DEF Init, Holders
<1>3. LockCounts
  BY <1>2, FS_EmptySet DEF Init, LockCounts
<1>4. TimersPending /\ PendingQueued
  BY DEF Init, TimersPending, PendingQueued
<1> QED  BY <1>1, <1>3, <1>4 DEF LockInv, QueuedWasMade, Distinct

\* A call that is refused before anything is queued.
LEMMA LockInvRefused ==
  ASSUME TypeOK, LockInv, NEW c \in Calls, promise[c] = "uncalled",
         promise' \in {[promise EXCEPT ![c] = "refused"], [promise EXCEPT ![c] = "nothing"]},
         UNCHANGED <<timers, lockLevel, workCbQueue, worker>>
  PROVE  LockInv'
<1> USE DEF LockInv
<1>1. \A d \in Calls : promise'[d] = promise[d] \/ (d = c /\ promise'[d] \in {"refused", "nothing"})
  <2>1. CASE promise' = [promise EXCEPT ![c] = "refused"]
    BY <2>1 DEF TypeOK
  <2>2. CASE promise' = [promise EXCEPT ![c] = "nothing"]
    BY <2>2 DEF TypeOK
  <2> QED  BY <2>1, <2>2
<1>2. \A i \in 1..Len(workCbQueue) : workCbQueue[i] \in Calls /\ workCbQueue[i] # c
  BY ElementOfSeq DEF TypeOK, QueuedWasMade
<1>3. Holders' = Holders
  BY <1>1 DEF Holders, OccursIn
<1>4. LockCounts'
  BY <1>3 DEF LockCounts
<1>5. TimersPending' /\ QueuedWasMade'
  BY <1>1, <1>2 DEF TypeOK, TimersPending, QueuedWasMade
<1>6. PendingQueued'
  BY <1>1 DEF PendingQueued, OccursIn, isDisposed
<1> QED  BY <1>4, <1>5, <1>6 DEF Distinct

\* A call that queues its callback, whether or not its message can be posted.
LEMMA LockInvQueued ==
  ASSUME TypeOK, LockInv, NEW c \in Calls, ~isDisposed,
         CallPosted(c) \/ CallNotCloned(c)
  PROVE  LockInv'
<1> USE DEF LockInv
<1>1. /\ promise[c] = "uncalled"
      /\ promise' \in {[promise EXCEPT ![c] = "pending"], [promise EXCEPT ![c] = "unposted"]}
      /\ lockLevel' = lockLevel + 1
      /\ workCbQueue' = Append(workCbQueue, c)
      /\ worker' = worker
  BY DEF CallPosted, CallNotCloned, Return, disposeVars
<1>2. \A d \in Calls : IF d = c THEN promise'[d] \in {"pending", "unposted"}
                               ELSE promise'[d] = promise[d]
  BY <1>1 DEF TypeOK
<1>3. \A i \in 1..Len(workCbQueue) : workCbQueue[i] \in Calls /\ workCbQueue[i] # c
  BY <1>1, ElementOfSeq DEF TypeOK, QueuedWasMade
<1>4. /\ \A y : OccursIn(y, workCbQueue') <=> y = c \/ OccursIn(y, workCbQueue)
      /\ Distinct(workCbQueue')
  BY <1>1, <1>3, AppendOccurs DEF TypeOK, OccursIn
<1>5. Holders' = Holders \union {c} /\ c \notin Holders
  BY <1>1, <1>2, <1>4 DEF Holders
<1>6. LockCounts'
  BY <1>1, <1>5, HoldersFinite, FS_AddElement DEF LockCounts
<1>7. TimersPending'
  <2>1. CASE CallPosted(c)
    BY <1>1, <1>2, <2>1 DEF CallPosted, Return, TimersPending, TypeOK
  <2>2. CASE CallNotCloned(c)
    BY <1>1, <1>2, <2>2 DEF CallNotCloned, TimersPending, TypeOK
  <2> QED  BY <2>1, <2>2
<1>8. QueuedWasMade'
  <2>1. /\ Len(workCbQueue) \in Nat /\ Len(workCbQueue') = Len(workCbQueue) + 1
        /\ \A i \in 1..Len(workCbQueue) : workCbQueue'[i] = workCbQueue[i]
        /\ workCbQueue'[Len(workCbQueue) + 1] = c
    BY <1>1, AppendProperties, LenProperties DEF TypeOK
  <2> QED  BY <1>2, <1>3, <2>1 DEF QueuedWasMade
<1>9. PendingQueued'
  BY <1>1, <1>2, <1>4 DEF PendingQueued, isDisposed
<1> QED  BY <1>4, <1>6, <1>7, <1>8, <1>9

\* A timeout gives the lock of its call back, and only once.
LEMMA LockInvTimeout ==
  ASSUME TypeOK, LockInv, NEW c \in Calls, Timeout(c)
  PROVE  LockInv'
<1> USE DEF LockInv
<1>1. /\ promise[c] = "pending" /\ promise' = [promise EXCEPT ![c] = "timedOut"]
      /\ lockLevel' = lockLevel - 1 /\ timers' = timers \ {c}
      /\ UNCHANGED <<workCbQueue, worker>>
  BY DEF Timeout, TimersPending, disposeVars
<1>2. \A d \in Calls : promise'[d] = IF d = c THEN "timedOut" ELSE promise[d]
  BY <1>1 DEF TypeOK
<1>3. Holders' = Holders \ {c} /\ c \in Holders
  BY <1>1, <1>2 DEF Holders, OccursIn
<1>4. LockCounts'
  BY <1>1, <1>3, HoldersFinite, FS_RemoveElement DEF LockCounts, TypeOK
<1>5. TimersPending'
  BY <1>1, <1>2 DEF TimersPending, TypeOK
<1>6. \A i \in 1..Len(workCbQueue) : workCbQueue[i] \in Calls
  BY ElementOfSeq DEF TypeOK
<1>7. QueuedWasMade'
  BY <1>1, <1>2, <1>6 DEF QueuedWasMade
<1>8. PendingQueued'
  BY <1>1, <1>2 DEF PendingQueued, OccursIn, isDisposed
<1> QED  BY <1>1, <1>4, <1>5, <1>7, <1>8 DEF Distinct

\* An answer gives the lock back unless the timeout of the call has.
LEMMA LockInvAnswer ==
  ASSUME TypeOK, LockInv, OnWorkerMessage
  PROVE  LockInv'
<1> USE DEF LockInv
<1>1. worker' = worker
  BY DEF OnWorkerMessage, disposeVars
<1>2. CASE isDisposed \/ workCbQueue = <<>>
  <2>1. UNCHANGED <<promise, timers, lockLevel, workCbQueue, worker>>
    BY <1>1, <1>2 DEF OnWorkerMessage, mainVars
  <2>2. Holders' = Holders
    BY <2>1 DEF Holders, OccursIn
  <2> QED  BY <2>1, <2>2 DEF TimersPending, QueuedWasMade, Distinct, PendingQueued, LockCounts,
                             OccursIn, isDisposed
<1>3. CASE ~isDisposed /\ workCbQueue # <<>>
  <2> DEFINE c == Head(workCbQueue)
             r == Head(outbox)
  <2>1. OnResult(c, r) /\ workCbQueue' = Tail(workCbQueue) /\ c \in Calls
    BY <1>3, HeadTailProperties DEF OnWorkerMessage, ShiftedCallback, TypeOK
  <2>2. /\ OccursIn(c, workCbQueue)
        /\ \A y : OccursIn(y, workCbQueue') <=> y # c /\ OccursIn(y, workCbQueue)
        /\ Distinct(workCbQueue')
    BY <1>3, <2>1, TailOccurs DEF TypeOK
  <2>3. promise[c] \in {"pending", "timedOut", "unposted"}
    BY <2>2 DEF OccursIn, QueuedWasMade
  <2> HIDE DEF c, r
  <2>4. \A d \in Calls : promise'[d] = IF d = c /\ promise[c] = "pending"
                                      THEN "resolved" ELSE promise[d]
    BY <2>1 DEF OnResult, Return, TypeOK
  <2>5. LockCounts'
    <3>1. CASE promise[c] = "timedOut"
      <4>1. Holders' = Holders
        BY <2>2, <2>4, <3>1 DEF Holders
      <4> QED  BY <2>1, <3>1, <4>1 DEF LockCounts, OnResult
    <3>2. CASE promise[c] # "timedOut"
      <4>1. Holders' = Holders \ {c} /\ c \in Holders
        BY <2>1, <2>2, <2>3, <2>4, <3>2 DEF Holders
      <4>2. lockLevel' = lockLevel - 1
        BY <2>1, <3>2 DEF OnResult
      <4> QED  BY <4>1, <4>2, HoldersFinite, FS_RemoveElement DEF LockCounts, TypeOK
    <3> QED  BY <3>1, <3>2
  <2>6. TimersPending'
    BY <2>1, <2>4 DEF TimersPending, OnResult, TypeOK
  <2>7. \A i \in 1..Len(workCbQueue') : /\ workCbQueue'[i] \in Calls /\ workCbQueue'[i] # c
                                       /\ OccursIn(workCbQueue'[i], workCbQueue)
    <3>1. workCbQueue' \in Seq(Calls)
      BY <1>3, <2>1, HeadTailProperties DEF TypeOK
    <3> QED  BY <2>2, <3>1, ElementOfSeq DEF OccursIn
  <2>8. QueuedWasMade'
    BY <2>4, <2>7 DEF QueuedWasMade, OccursIn
  <2>9. PendingQueued'
    BY <1>1, <2>1, <2>2, <2>4 DEF PendingQueued, isDisposed
  <2> QED  BY <2>2, <2>5, <2>6, <2>8, <2>9
<1> QED  BY <1>2, <1>3

\* The worker is dropped when nobody holds the lock any more.
LEMMA LockInvDetach ==
  ASSUME TypeOK, LockInv, Detach, ~(0 < lockLevel)
  PROVE  LockInv'
<1> USE DEF LockInv
<1>1. UNCHANGED <<promise, timers, lockLevel>> /\ workCbQueue' = <<>> /\ Len(workCbQueue') = 0
  BY EmptySeq DEF Detach
<1>2. lockLevel = 0 /\ Holders = {}
  BY HoldersFinite, FS_EmptySet DEF LockCounts, TypeOK
<1>3. \A c \in Calls : promise[c] # "pending"
  BY <1>2 DEF Holders
<1>4. Holders' = {}
  BY <1>1, <1>3 DEF Holders, OccursIn
<1>5. LockCounts'
  BY <1>1, <1>2, <1>4, FS_EmptySet DEF LockCounts
<1>6. TimersPending' /\ PendingQueued'
  BY <1>1, <1>3 DEF TimersPending, PendingQueued, TypeOK
<1> QED  BY <1>1, <1>5, <1>6 DEF QueuedWasMade, Distinct

\* No step of either thread breaks the lock.
LEMMA LockInvNext == TypeOK /\ LockInv /\ [Next]_vars => LockInv'
<1> SUFFICES ASSUME TypeOK, LockInv, [Next]_vars  PROVE LockInv'
  OBVIOUS
<1>1. ASSUME UNCHANGED <<promise, timers, lockLevel, workCbQueue, worker>>  PROVE LockInv'
  <2>1. Holders' = Holders
    BY <1>1 DEF Holders, OccursIn
  <2> QED  BY <1>1, <2>1 DEF LockInv, TimersPending, QueuedWasMade, Distinct, PendingQueued,
                             LockCounts, OccursIn, isDisposed
<1>2. CASE UNCHANGED vars
  BY <1>1, <1>2 DEF vars, mainVars, disposeVars
<1>3. ASSUME NEW c \in Calls, Call(c)  PROVE LockInv'
  <2>1. CASE CallAfterDispose(c) \/ CallWhileDisposing(c) \/ CallWithUndefinedArg(c)
    BY <2>1, LockInvRefused DEF CallAfterDispose, CallWhileDisposing, CallWithUndefinedArg,
                                Return, disposeVars
  <2>2. CASE CallPosted(c) \/ CallNotCloned(c)
    BY <2>2, LockInvQueued DEF CallPosted, CallNotCloned
  <2> QED  BY <1>3, <2>1, <2>2 DEF Call
<1>4. ASSUME NEW c \in Calls, Timeout(c)  PROVE LockInv'
  BY <1>4, LockInvTimeout
<1>5. CASE WorkerTake
  BY <1>1, <1>5 DEF WorkerTake, mainVars, disposeVars
<1>6. ASSUME NEW threw \in BOOLEAN, WorkerReply(threw)  PROVE LockInv'
  BY <1>1, <1>6 DEF WorkerReply, mainVars, disposeVars
<1>7. CASE OnWorkerMessage
  BY <1>7, LockInvAnswer
<1>8. CASE Dispose
  <2>1. CASE 0 < lockLevel
    BY <1>1, <1>8, <2>1 DEF Dispose, mainVars
  <2>2. CASE ~(0 < lockLevel)
    BY <1>8, <2>2, LockInvDetach DEF Dispose
  <2> QED  BY <2>1, <2>2
<1>9. CASE DisposeProceed
  BY <1>9, LockInvDetach DEF DisposeProceed, TypeOK
<1>10. CASE Terminated
  BY <1>1, <1>10 DEF Terminated, mainVars
<1>11. CASE DisposeAgain
  BY <1>1, <1>11 DEF DisposeAgain, mainVars
<1> QED  BY <1>2, <1>3, <1>4, <1>5, <1>6, <1>7, <1>8, <1>9, <1>10, <1>11 DEF Next

\* The inductive invariant of the lock level.
LEMMA LockInvariant == Spec => []LockInv
BY LockInvInit, LockInvNext, TypeCorrect, PTL DEF Spec

(* The lock level counts the calls that are owed an answer.                 *)
THEOREM LockLevelIsExact == Spec => []LockCounts
BY LockInvariant, PTL DEF LockInv

(* dispose() strands no caller, however many calls are in flight and        *)
(* whichever of them time out, fail or could not be posted.                 *)
THEOREM DisposeStrandsNobody == Spec => []NoneStranded
<1>1. LockInv => NoneStranded
  BY DEF LockInv, PendingQueued, NoneStranded
<1> QED  BY <1>1, LockInvariant, PTL

-----------------------------------------------------------------------------
(* Settled promises.                                                        *)

\* No single step touches the promise of a settled call.
LEMMA SettledStep ==
  ASSUME TypeOK, [Next]_vars, NEW c \in Calls, promise[c] \in Settled
  PROVE  promise'[c] = promise[c] /\ answer'[c] = answer[c]
<1> USE DEF TypeOK, Settled
<1>1. CASE UNCHANGED vars
  BY <1>1 DEF vars, mainVars
<1>2. ASSUME NEW d \in Calls, Call(d)
      PROVE  promise'[c] = promise[c] /\ answer'[c] = answer[c]
  BY <1>2 DEF Call, CallAfterDispose, CallWhileDisposing, CallWithUndefinedArg, CallPosted,
              CallNotCloned, Return
<1>3. ASSUME NEW d \in Calls, Timeout(d)
      PROVE  promise'[c] = promise[c] /\ answer'[c] = answer[c]
  BY <1>3 DEF Timeout
<1>4. CASE OnWorkerMessage
  <2>1. CASE isDisposed \/ workCbQueue = <<>>
    BY <1>4, <2>1 DEF OnWorkerMessage, mainVars
  <2>2. CASE ~isDisposed /\ workCbQueue # <<>>
    <3>1. OnResult(Head(workCbQueue), Head(outbox)) /\ Head(workCbQueue) \in Calls
      BY <1>4, <2>2, HeadTailProperties DEF OnWorkerMessage, ShiftedCallback
    <3> QED  BY <3>1 DEF OnResult, Return
  <2> QED  BY <2>1, <2>2
<1>5. CASE Dispose
  BY <1>5 DEF Dispose, Detach, mainVars
<1>6. CASE WorkerTake \/ (\E threw \in BOOLEAN : WorkerReply(threw)) \/ DisposeProceed
           \/ Terminated \/ DisposeAgain
  BY <1>6 DEF WorkerTake, WorkerReply, DisposeProceed, Terminated, DisposeAgain, Detach, mainVars
<1> QED  BY <1>1, <1>2, <1>3, <1>4, <1>5, <1>6 DEF Next

(* A settled promise keeps its outcome and its value, whatever answer,      *)
(* timeout or disposal comes later.                                         *)
THEOREM SettledForGood ==
  Spec => [][\A c \in Calls : promise[c] \in Settled =>
                UNCHANGED <<promise[c], answer[c]>>]_vars
<1> DEFINE Keeps == \A c \in Calls : promise[c] \in Settled => UNCHANGED <<promise[c], answer[c]>>
<1>1. TypeOK /\ [Next]_vars => [Keeps]_vars
  BY SettledStep
<1> QED  BY <1>1, TypeCorrect, PTL DEF Spec

-----------------------------------------------------------------------------
(* Whose answer it is.                                                      *)

\* While the worker is attached, it runs: only dispose() stops it, once.
Running == IF isDisposed THEN startedToDispose /\ disposer \in {"terminating", "done"}
                         ELSE /\ thread = "running"
                              /\ disposer \in {"idle", "waiting"}
                              /\ disposer = "waiting" => startedToDispose

\* Only what has been executed is answered.
AnsweredWasExecuted ==
    /\ \A i \in 1..Len(outbox) : outbox[i] \in executed
    /\ busy \in executed \union {NoCall}
    /\ \A c \in Calls : promise[c] = "resolved" => answer[c] \in executed

AnswerInv == Running /\ Aligned /\ OwnAnswer /\ AnsweredWasExecuted

\* The queue of a new instance is aligned.
LEMMA AnswerInvInit == Init => AnswerInv
<1> SUFFICES ASSUME Init  PROVE AnswerInv
  OBVIOUS
<1>1. Len(outbox) = 0
  BY EmptySeq DEF Init
<1>2. <<>> \in Seq(Calls)
  BY EmptySeq
<1>3. Pipeline = <<>> /\ workCbQueue = <<>>
  BY <1>2, ConcatEmptySeq DEF Init, Pipeline
<1>4. Running /\ Aligned
  BY <1>3 DEF Init, Running, Aligned, isDisposed
<1>5. OwnAnswer /\ AnsweredWasExecuted
  BY <1>1 DEF Init, OwnAnswer, AnsweredWasExecuted
<1> QED  BY <1>4, <1>5 DEF AnswerInv

\* A postMessage() that threw is never forgotten.
LEMMA UnpostedGrows ==
  ASSUME TypeOK, [Next]_vars
  PROVE  Unposted \subseteq Unposted'
BY SettledStep DEF Unposted, Settled, PromiseStates

\* The worker thread runs as long as the main thread has not detached it.
LEMMA RunningNext == TypeOK /\ Running /\ [Next]_vars => Running'
<1> SUFFICES ASSUME TypeOK, Running, [Next]_vars  PROVE Running'
  OBVIOUS
<1> USE DEF Running, isDisposed
<1>1. CASE Dispose \/ DisposeProceed
  BY <1>1 DEF Dispose, DisposeProceed, Detach, workerVars
<1>2. CASE Terminated
  BY <1>2 DEF Terminated
<1>3. CASE UNCHANGED <<worker, startedToDispose, disposer, thread>>
  BY <1>3
<1>4. [Next]_vars => \/ Dispose \/ DisposeProceed \/ Terminated
                    \/ UNCHANGED <<worker, startedToDispose, disposer, thread>>
  BY DEF Next, Call, CallAfterDispose, CallWhileDisposing, CallWithUndefinedArg, CallPosted,
         CallNotCloned, Timeout, WorkerTake, WorkerReply, OnWorkerMessage, DisposeAgain,
         vars, disposeVars, workerVars
<1> QED  BY <1>1, <1>2, <1>3, <1>4

\* The call in the worker, as a queue of at most one element.
InWorker == IF busy = NoCall THEN <<>> ELSE <<busy>>

\* The messages in flight are queues of calls.
LEMMA PipelineSeq ==
  ASSUME TypeOK
  PROVE  InWorker \in Seq(Calls) /\ outbox \o InWorker \in Seq(Calls) /\ Pipeline \in Seq(Calls)
         /\ Pipeline = (outbox \o InWorker) \o inbox
<1>1. InWorker \in Seq(Calls)
  <2>1. CASE busy = NoCall
    BY <2>1, EmptySeq DEF InWorker
  <2>2. CASE busy # NoCall
    BY <2>2 DEF InWorker, TypeOK
  <2> QED  BY <2>1, <2>2
<1> QED  BY <1>1, ConcatSeq DEF InWorker, Pipeline, TypeOK

\* No step breaks the alignment of the callback queue with the messages.
LEMMA AlignedNext == TypeOK /\ Running /\ Aligned /\ [Next]_vars => Aligned'
<1> SUFFICES ASSUME TypeOK, Running, Aligned, [Next]_vars, Unposted' = {}, ~isDisposed'
             PROVE  workCbQueue' = Pipeline'
  BY DEF Aligned
<1>1. Unposted = {}
  BY UnpostedGrows
<1>2. Pipeline = (outbox \o InWorker) \o inbox /\ outbox \o InWorker \in Seq(Calls)
  BY PipelineSeq
<1>3. CASE UNCHANGED <<workCbQueue, outbox, busy, inbox, worker>>
  BY <1>1, <1>3 DEF Aligned, Pipeline, isDisposed
<1>4. ASSUME NEW c \in Calls, CallPosted(c)  PROVE workCbQueue' = Pipeline'
  <2>1. workCbQueue = Pipeline
    BY <1>1, <1>4 DEF CallPosted, Aligned
  <2>2. Pipeline' = (outbox \o InWorker) \o Append(inbox, c)
    BY <1>4 DEF CallPosted, Pipeline, InWorker
  <2>3. Pipeline' = Append(Pipeline, c)
    BY <1>2, <2>2, ConcatAppend DEF TypeOK
  <2> QED  BY <1>4, <2>1, <2>3 DEF CallPosted
<1>5. ASSUME NEW c \in Calls, CallNotCloned(c)  PROVE FALSE
  BY <1>5 DEF CallNotCloned, Return, Unposted, TypeOK
<1>6. CASE WorkerTake
  <2>1. workCbQueue = Pipeline /\ workCbQueue' = workCbQueue
    BY <1>1, <1>6 DEF WorkerTake, Aligned, isDisposed, mainVars, disposeVars
  <2>2. Head(inbox) \in Calls
    BY <1>6, HeadTailProperties DEF WorkerTake, TypeOK
  <2>3. Pipeline = outbox \o inbox
    BY <1>6, ConcatEmptySeq DEF WorkerTake, Pipeline, TypeOK
  <2>4. Pipeline' = (outbox \o <<Head(inbox)>>) \o Tail(inbox)
    BY <1>6, <2>2, CallsAssumption DEF WorkerTake, Pipeline
  <2>5. Pipeline' = Pipeline
    BY <1>6, <2>3, <2>4, MoveHead DEF WorkerTake, TypeOK
  <2> QED  BY <2>1, <2>5
<1>7. ASSUME NEW threw \in BOOLEAN, WorkerReply(threw)  PROVE workCbQueue' = Pipeline'
  <2>1. ~isDisposed /\ workCbQueue = Pipeline /\ workCbQueue' = workCbQueue
    BY <1>1, <1>7 DEF WorkerReply, Aligned, isDisposed, mainVars, disposeVars
  <2>2. busy \in Calls /\ outbox' = Append(outbox, busy) /\ busy' = NoCall /\ inbox' = inbox
    BY <1>7, <2>1 DEF WorkerReply, Running, TypeOK
  <2>3. Append(outbox, busy) \in Seq(Calls) /\ Append(outbox, busy) = outbox \o <<busy>>
    BY <2>2, AppendProperties, AppendIsConcat DEF TypeOK
  <2>4. Pipeline' = Append(outbox, busy) \o inbox
    BY <2>2, <2>3, ConcatEmptySeq DEF Pipeline
  <2>5. Pipeline = (outbox \o <<busy>>) \o inbox
    BY <2>2, CallsAssumption DEF Pipeline
  <2> QED  BY <2>1, <2>3, <2>4, <2>5
<1>8. CASE OnWorkerMessage
  <2>1. workCbQueue = Pipeline /\ ~isDisposed
    BY <1>1, <1>8 DEF OnWorkerMessage, Aligned, isDisposed, disposeVars
  <2>2. outbox # <<>> /\ outbox' = Tail(outbox) /\ InWorker' = InWorker /\ inbox' = inbox
    BY <1>8 DEF OnWorkerMessage, InWorker
  <2>3. outbox \o InWorker # <<>> /\ Tail(outbox \o InWorker) = Tail(outbox) \o InWorker
    BY <2>2, PipelineSeq, ConcatHeadTail DEF TypeOK
  <2>4. Pipeline # <<>> /\ Tail(Pipeline) = Tail(outbox \o InWorker) \o inbox
    BY <1>2, <2>3, ConcatHeadTail DEF TypeOK
  <2>5. Pipeline' = (outbox' \o InWorker') \o inbox'
    BY DEF Pipeline, InWorker
  <2>6. workCbQueue' = Tail(workCbQueue)
    BY <1>8, <2>1, <2>4 DEF OnWorkerMessage
  <2> QED  BY <2>1, <2>2, <2>3, <2>4, <2>5, <2>6
<1>9. CASE Dispose \/ DisposeProceed
  BY <1>3, <1>9 DEF Dispose, DisposeProceed, Detach, isDisposed, mainVars, workerVars
<1>10. CASE Terminated
  BY <1>10 DEF Terminated, Running, isDisposed
<1>11. CASE UNCHANGED vars \/ DisposeAgain \/ (\E c \in Calls : Timeout(c))
  BY <1>3, <1>11 DEF vars, DisposeAgain, Timeout, mainVars, disposeVars, workerVars
<1>12. ASSUME NEW c \in Calls, Call(c)  PROVE workCbQueue' = Pipeline'
  <2>1. CASE CallAfterDispose(c) \/ CallWhileDisposing(c) \/ CallWithUndefinedArg(c)
    BY <1>3, <2>1 DEF CallAfterDispose, CallWhileDisposing, CallWithUndefinedArg,
                      disposeVars, workerVars
  <2> QED  BY <1>4, <1>5, <1>12, <2>1 DEF Call
<1> QED  BY <1>6, <1>7, <1>8, <1>9, <1>10, <1>11, <1>12 DEF Next

\* The callback at the head of the queue is that of the answer being delivered.
LEMMA HeadsMatch ==
  ASSUME TypeOK, Aligned, Unposted = {}, OnWorkerMessage, ~isDisposed
  PROVE  /\ workCbQueue # <<>>
         /\ Head(workCbQueue) = Head(outbox)
         /\ Head(outbox) \in Calls
<1>1. workCbQueue = (outbox \o InWorker) \o inbox /\ outbox # <<>>
  BY PipelineSeq DEF Aligned, OnWorkerMessage
<1>2. outbox \o InWorker # <<>> /\ Head(outbox \o InWorker) = Head(outbox)
  BY <1>1, PipelineSeq, ConcatHeadTail DEF TypeOK
<1>3. workCbQueue # <<>> /\ Head(workCbQueue) = Head(outbox \o InWorker)
  BY <1>1, <1>2, PipelineSeq, ConcatHeadTail DEF TypeOK
<1>4. Head(outbox) \in Calls
  BY <1>1, HeadTailProperties DEF TypeOK
<1> QED  BY <1>2, <1>3, <1>4

\* Behind an aligned queue, no step gives a call the result of another.
LEMMA OwnAnswerNext == TypeOK /\ Aligned /\ OwnAnswer /\ [Next]_vars => OwnAnswer'
<1> SUFFICES ASSUME TypeOK, Aligned, OwnAnswer, [Next]_vars, Unposted' = {}
             PROVE  \A c \in Calls : answer'[c] \in {c, NoCall} /\ cbAnswer'[c] \in {c, NoCall}
  BY DEF OwnAnswer
<1>1. Unposted = {}
  BY UnpostedGrows
<1>2. \A c \in Calls : answer[c] \in {c, NoCall} /\ cbAnswer[c] \in {c, NoCall}
  BY <1>1 DEF OwnAnswer
<1>3. CASE UNCHANGED <<answer, cbAnswer>>
  BY <1>2, <1>3
<1>4. CASE OnWorkerMessage /\ ~isDisposed
  <2> DEFINE d == Head(outbox)
  <2>1. OnResult(d, d) /\ d \in Calls
    BY <1>1, <1>4, HeadsMatch DEF OnWorkerMessage, ShiftedCallback
  <2> HIDE DEF d
  <2>2. /\ answer' = answer \/ answer' = [answer EXCEPT ![d] = d]
        /\ cbAnswer' = [cbAnswer EXCEPT ![d] = d]
    BY <2>1 DEF OnResult
  <2> QED  BY <1>2, <2>1, <2>2 DEF TypeOK
<1>5. [Next]_vars => \/ OnWorkerMessage /\ ~isDisposed
                    \/ UNCHANGED <<answer, cbAnswer>>
  BY DEF Next, Call, CallAfterDispose, CallWhileDisposing, CallWithUndefinedArg, CallPosted,
         CallNotCloned, Timeout, WorkerTake, WorkerReply, OnWorkerMessage, Dispose,
         DisposeProceed, Detach, Terminated, DisposeAgain, vars, mainVars
<1> QED  BY <1>3, <1>4, <1>5

\* No step answers a call that has not been executed.
LEMMA AnsweredWasExecutedNext ==
  TypeOK /\ AnsweredWasExecuted /\ [Next]_vars => AnsweredWasExecuted'
<1> SUFFICES ASSUME TypeOK, AnsweredWasExecuted, [Next]_vars  PROVE AnsweredWasExecuted'
  OBVIOUS
<1> USE DEF AnsweredWasExecuted
<1>1. CASE UNCHANGED <<outbox, busy, executed>> /\ (\A c \in Calls :
             promise'[c] = "resolved" => promise[c] = "resolved" /\ answer'[c] = answer[c])
  BY <1>1
<1>2. CASE WorkerTake
  BY <1>2 DEF WorkerTake, mainVars
<1>3. ASSUME NEW threw \in BOOLEAN, WorkerReply(threw)  PROVE AnsweredWasExecuted'
  <2>1. UNCHANGED <<promise, answer, executed>> /\ busy' = NoCall
    BY <1>3 DEF WorkerReply, mainVars
  <2>2. \A i \in 1..Len(outbox') : outbox'[i] \in executed
    <3>1. CASE outbox' = outbox
      BY <3>1
    <3>2. CASE outbox' = Append(outbox, busy)
      <4>1. busy \in Calls /\ busy \in executed
        BY <1>3 DEF WorkerReply, TypeOK
      <4>2. /\ Len(outbox) \in Nat /\ Len(outbox') = Len(outbox) + 1
            /\ \A i \in 1..Len(outbox) : outbox'[i] = outbox[i]
            /\ outbox'[Len(outbox) + 1] = busy
        BY <3>2, <4>1, AppendProperties, LenProperties DEF TypeOK
      <4> QED  BY <4>1, <4>2
    <3> QED  BY <1>3, <3>1, <3>2 DEF WorkerReply
  <2> QED  BY <2>1, <2>2
<1>4. CASE OnWorkerMessage
  <2> DEFINE r == Head(outbox)
  <2>1. /\ Len(outbox) \in Nat \ {0} /\ Len(Tail(outbox)) = Len(outbox) - 1
        /\ \A i \in 1..Len(Tail(outbox)) : Tail(outbox)[i] = outbox[i + 1]
        /\ r = outbox[1] /\ outbox' = Tail(outbox) /\ UNCHANGED <<busy, executed>>
    BY <1>4, EmptySeq, HeadTailProperties DEF OnWorkerMessage, TypeOK
  <2>2. r \in executed /\ \A i \in 1..Len(outbox') : outbox'[i] \in executed
    BY <2>1
  <2>3. CASE isDisposed \/ workCbQueue = <<>>
    BY <1>4, <2>1, <2>2, <2>3 DEF OnWorkerMessage, mainVars
  <2>4. CASE ~isDisposed /\ workCbQueue # <<>>
    <3> DEFINE d == Head(workCbQueue)
    <3>1. OnResult(d, r) /\ d \in Calls
      BY <1>4, <2>4, HeadTailProperties DEF OnWorkerMessage, ShiftedCallback, TypeOK
    <3> HIDE DEF d, r
    <3>2. \A c \in Calls : promise'[c] = "resolved" =>
             \/ promise[c] = "resolved" /\ answer'[c] = answer[c]
             \/ answer'[c] = r
      BY <3>1 DEF OnResult, Return, TypeOK
    <3> QED  BY <2>1, <2>2, <3>2
  <2> QED  BY <2>3, <2>4
<1>5. ASSUME NEW c \in Calls, Call(c) \/ Timeout(c)  PROVE AnsweredWasExecuted'
  <2>1. UNCHANGED <<answer, outbox, busy, executed>> /\ \A d \in Calls :
          promise'[d] = "resolved" => promise[d] = "resolved"
    BY <1>5 DEF Call, CallAfterDispose, CallWhileDisposing, CallWithUndefinedArg, CallPosted,
                CallNotCloned, Return, Timeout, TypeOK, workerVars
  <2> QED  BY <1>1, <2>1
<1>6. CASE Dispose \/ DisposeProceed \/ Terminated \/ DisposeAgain \/ UNCHANGED vars
  BY <1>1, <1>6 DEF Dispose, DisposeProceed, Detach, Terminated, DisposeAgain, vars, mainVars,
                    workerVars
<1> QED  BY <1>2, <1>3, <1>4, <1>5, <1>6 DEF Next

\* The inductive invariant of the answers.
LEMMA AnswerInvariant == Spec => []AnswerInv
<1>1. TypeOK /\ AnswerInv /\ [Next]_vars => AnswerInv'
  BY RunningNext, AlignedNext, OwnAnswerNext, AnsweredWasExecutedNext DEF AnswerInv
<1> QED  BY <1>1, AnswerInvInit, TypeCorrect, PTL DEF Spec

(* The callback queue and the messages in flight agree, position by         *)
(* position, until a postMessage() throws.                                  *)
THEOREM QueueIsAligned == Spec => []Aligned
BY AnswerInvariant, PTL DEF AnswerInv

(* Until then every caller gets the result of its own call.                 *)
THEOREM EveryAnswerIsOwn == Spec => []OwnAnswer
BY AnswerInvariant, PTL DEF AnswerInv

(* A write that reports its bytes before the disposal began was executed    *)
(* and did not fail.                                                        *)
THEOREM ReportedWritesWereSent == Spec => []ReportedWriteWasSent
<1>1. TypeOK /\ AnswerInv => ReportedWriteWasSent
  <2> SUFFICES ASSUME TypeOK, AnswerInv, Unposted = {}, NEW c \in Writes,
                      WriteReports(c), promise[c] # "nothing"
               PROVE  c \in executed \ failed
    BY DEF ReportedWriteWasSent
  <2>1. c \in Calls /\ promise[c] = "resolved" /\ answer[c] \notin failed
    BY CallsAssumption DEF WriteReports
  <2>2. answer[c] \in executed /\ answer[c] \in {c, NoCall}
    BY <2>1 DEF AnswerInv, AnsweredWasExecuted, OwnAnswer
  <2> QED  BY <2>1, <2>2, CallsAssumption DEF TypeOK
<1> QED  BY <1>1, AnswerInvariant, TypeCorrect, PTL

-----------------------------------------------------------------------------
(* Callbacks in excess.                                                     *)

\* The length of a pipeline, part by part.
LEMMA PipelineLen ==
  ASSUME NEW s \in Seq(Calls), NEW b \in Calls \union {NoCall}, NEW t \in Seq(Calls)
  PROVE  Len(s \o (IF b = NoCall THEN <<>> ELSE <<b>>) \o t)
           = Len(s) + (IF b = NoCall THEN 0 ELSE 1) + Len(t)
<1> DEFINE u == IF b = NoCall THEN <<>> ELSE <<b>>
<1>1. u \in Seq(Calls) /\ Len(u) = IF b = NoCall THEN 0 ELSE 1
  BY EmptySeq
<1> HIDE DEF u
<1>2. s \o u \in Seq(Calls) /\ Len(s \o u) = Len(s) + Len(u)
  BY <1>1, ConcatProperties
<1>3. Len((s \o u) \o t) = Len(s \o u) + Len(t)
  BY <1>2, ConcatProperties
<1> QED  BY <1>1, <1>2, <1>3 DEF u

\* Only a postMessage() that throws adds a callback without a message.
LEMMA QueueExcessNext ==
  TypeOK /\ TypeOK' /\ Running /\ QueueExcess /\ [Next]_vars => QueueExcess'
<1> DEFINE AtWork == IF busy = NoCall THEN 0 ELSE 1
           InTransit == Len(outbox) + AtWork + Len(inbox)
           More == Cardinality(Unposted)
<1> SUFFICES ASSUME TypeOK, TypeOK', Running, QueueExcess, [Next]_vars, ~isDisposed'
             PROVE  Len(workCbQueue') = InTransit' + More'
  <2>1. Len(Pipeline)' = InTransit'
    BY PipelineLen DEF Pipeline, TypeOK
  <2> QED  BY <2>1 DEF QueueExcess
<1>1. /\ Len(Pipeline) = InTransit
      /\ Len(outbox) \in Nat /\ Len(inbox) \in Nat /\ Len(workCbQueue) \in Nat
      /\ AtWork \in Nat
  BY PipelineLen, LenProperties DEF Pipeline, TypeOK
<1>2. IsFiniteSet(Unposted) /\ More \in Nat
  <2>1. Unposted \in SUBSET Calls
    BY DEF Unposted
  <2> QED  BY <2>1, CallsAssumption, FS_Subset, FS_CardinalityType
<1>3. ~isDisposed => Len(workCbQueue) = InTransit + More
  BY <1>1 DEF QueueExcess
<1>4. CASE UNCHANGED <<worker, workCbQueue, outbox, busy, inbox, Unposted>>
  BY <1>3, <1>4 DEF isDisposed
<1> HIDE DEF More, AtWork
<1>5. ASSUME NEW c \in Calls,
             CallAfterDispose(c) \/ CallWhileDisposing(c) \/ CallWithUndefinedArg(c)
      PROVE  Len(workCbQueue') = InTransit' + More'
  <2>1. Unposted' = Unposted
    BY <1>5 DEF CallAfterDispose, CallWhileDisposing, CallWithUndefinedArg, Return, Unposted, TypeOK
  <2> QED  BY <1>4, <1>5, <2>1 DEF CallAfterDispose, CallWhileDisposing, CallWithUndefinedArg,
                                   disposeVars, workerVars
<1>6. ASSUME NEW c \in Calls, CallPosted(c)  PROVE Len(workCbQueue') = InTransit' + More'
  <2>1. More' = More
    BY <1>6 DEF CallPosted, Return, Unposted, TypeOK, More
  <2>2. Len(workCbQueue') = Len(workCbQueue) + 1 /\ Len(inbox') = Len(inbox) + 1
    BY <1>6, AppendProperties DEF CallPosted, TypeOK
  <2>3. Len(workCbQueue) = InTransit + More /\ outbox' = outbox /\ AtWork' = AtWork
    BY <1>3, <1>6 DEF CallPosted, AtWork
  <2> QED  BY <1>1, <1>2, <2>1, <2>2, <2>3
<1>7. ASSUME NEW c \in Calls, CallNotCloned(c)  PROVE Len(workCbQueue') = InTransit' + More'
  <2>1. Unposted' = Unposted \union {c} /\ c \notin Unposted
    BY <1>7 DEF CallNotCloned, Return, Unposted, TypeOK
  <2>2. More' = More + 1
    BY <1>2, <2>1, FS_AddElement DEF More
  <2>3. Len(workCbQueue') = Len(workCbQueue) + 1
    BY <1>7, AppendProperties DEF CallNotCloned, TypeOK
  <2>4. Len(workCbQueue) = InTransit + More /\ UNCHANGED <<outbox, AtWork, inbox>>
    BY <1>3, <1>7 DEF CallNotCloned, workerVars, AtWork
  <2> QED  BY <1>1, <1>2, <2>2, <2>3, <2>4
<1>8. CASE WorkerTake
  <2>1. UNCHANGED <<worker, workCbQueue, outbox>> /\ More' = More
    BY <1>8 DEF WorkerTake, mainVars, disposeVars, Unposted, More
  <2>2. Len(inbox') = Len(inbox) - 1 /\ AtWork = 0 /\ AtWork' = 1
    BY <1>8, HeadTailProperties, CallsAssumption DEF WorkerTake, TypeOK, AtWork
  <2>3. Len(workCbQueue) = InTransit + More
    BY <1>3, <2>1 DEF isDisposed
  <2> QED  BY <1>1, <1>2, <2>1, <2>2, <2>3
<1>9. ASSUME NEW threw \in BOOLEAN, WorkerReply(threw)
      PROVE  Len(workCbQueue') = InTransit' + More'
  <2>1. UNCHANGED <<worker, workCbQueue, inbox>> /\ More' = More
    BY <1>9 DEF WorkerReply, mainVars, disposeVars, Unposted, More
  <2>2. thread = "running" /\ AtWork = 1 /\ AtWork' = 0 /\ busy \in Calls
    BY <1>9, <2>1 DEF WorkerReply, Running, isDisposed, TypeOK, AtWork
  <2>3. Len(outbox') = Len(outbox) + 1
    BY <1>9, <2>2, AppendProperties DEF WorkerReply, TypeOK
  <2>4. Len(workCbQueue) = InTransit + More
    BY <1>3, <2>1 DEF isDisposed
  <2> QED  BY <1>1, <1>2, <2>1, <2>2, <2>3, <2>4
<1>10. CASE OnWorkerMessage
  <2>1. ~isDisposed /\ UNCHANGED <<inbox, AtWork>>
    BY <1>10 DEF OnWorkerMessage, disposeVars, isDisposed, AtWork
  <2>2. Len(outbox') = Len(outbox) - 1 /\ Len(outbox) > 0
    BY <1>1, <1>10, HeadTailProperties, EmptySeq DEF OnWorkerMessage, TypeOK
  <2>3. Len(workCbQueue) = InTransit + More /\ Len(workCbQueue) > 0
    BY <1>1, <1>2, <1>3, <2>1, <2>2
  <2>4. workCbQueue # <<>>
    BY <2>3, EmptySeq
  <2>5. Len(workCbQueue') = Len(workCbQueue) - 1
    BY <1>10, <2>1, <2>4, HeadTailProperties DEF OnWorkerMessage, TypeOK
  <2>6. OnResult(Head(workCbQueue), Head(outbox))
    BY <1>10, <2>1, <2>4 DEF OnWorkerMessage, ShiftedCallback
  <2>7. More' = More
    <3>1. \/ promise' = promise
          \/ \E d \in Calls : /\ promise[d] = "pending"
                              /\ promise' = [promise EXCEPT ![d] = "resolved"]
      BY <2>4, <2>6, HeadTailProperties DEF OnResult, Return, TypeOK
    <3>2. Unposted' = Unposted
      BY <3>1 DEF Unposted, TypeOK
    <3> QED  BY <3>2 DEF More
  <2> QED  BY <1>1, <1>2, <2>1, <2>2, <2>3, <2>5, <2>7
<1>11. ASSUME NEW c \in Calls, Timeout(c)  PROVE Len(workCbQueue') = InTransit' + More'
  <2>1. Unposted' = Unposted
    BY <1>11 DEF Timeout, Unposted, TypeOK
  <2> QED  BY <1>4, <1>11, <2>1 DEF Timeout, disposeVars, workerVars
<1>12. CASE Dispose \/ DisposeAgain \/ UNCHANGED vars
  BY <1>4, <1>12 DEF Dispose, Detach, DisposeAgain, vars, mainVars, disposeVars, workerVars,
                     isDisposed, Unposted
<1>13. CASE DisposeProceed \/ Terminated
  BY <1>13 DEF DisposeProceed, Detach, Terminated, Running, isDisposed
<1> QED  BY <1>5, <1>6, <1>7, <1>8, <1>9, <1>10, <1>11, <1>12, <1>13 DEF Next, Call

(* Every postMessage() that throws leaves one callback too many for the     *)
(* rest of the instance's life, whatever else happens.                      *)
THEOREM ExcessIsExact == Spec => []QueueExcess
<1>1. Init => QueueExcess
  <2> SUFFICES ASSUME Init  PROVE Len(workCbQueue) = Len(Pipeline) + Cardinality(Unposted)
    BY DEF QueueExcess
  <2>1. Unposted = {}
    BY DEF Init, Unposted
  <2>2. Pipeline = <<>> /\ workCbQueue = <<>>
    BY EmptySeq, ConcatEmptySeq DEF Init, Pipeline
  <2> QED  BY <2>1, <2>2, FS_EmptySet, EmptySeq
<1> QED  BY <1>1, QueueExcessNext, TypeCorrect, AnswerInvariant, PTL DEF Spec, AnswerInv

-----------------------------------------------------------------------------
(* Refinement: AsyncSRT implements the channel of AsyncCalls.               *)

status == [c \in Calls |-> StatusOf(c)]
phase == IF isDisposed THEN "closed" ELSE IF startedToDispose THEN "closing" ELSE "open"

performed == outbox \o InWorker

\* A new instance is a new channel.
LEMMA ChannelInit == Init => Channel!Init
<1> SUFFICES ASSUME Init  PROVE Channel!Init
  OBVIOUS
<1>1. <<>> \in Seq(Calls)
  BY EmptySeq
<1>2. outbox \o (IF busy = NoCall THEN <<>> ELSE <<busy>>) = <<>>
  BY <1>1, ConcatEmptySeq DEF Init
<1> QED  BY <1>2 DEF Init, Channel!Init, StatusOf, isDisposed

\* What was put last on a queue is taken off again.
LEMMA DropLast ==
  ASSUME NEW S, NEW s \in Seq(S), NEW x \in S
  PROVE  LET t == s \o <<x>> IN t # <<>> /\ SubSeq(t, 1, Len(t) - 1) = s
<1> DEFINE t == s \o <<x>>
<1>1. t = Append(s, x) /\ t \in Seq(S)
  BY AppendIsConcat, AppendProperties
<1>2. Len(t) = Len(s) + 1 /\ t # <<>> /\ \A i \in 1..Len(s) : t[i] = s[i]
  BY <1>1, AppendProperties, LenProperties
<1> HIDE DEF t
<1>3. \A i \in 1..Len(s) : t[i] \in S
  BY <1>2, ElementOfSeq
<1>4. SubSeq(t, 1, Len(s)) \in Seq(S) /\ Len(SubSeq(t, 1, Len(s))) = Len(s)
      /\ \A i \in 1..Len(s) : SubSeq(t, 1, Len(s))[i] = t[i]
  BY <1>1, <1>2, <1>3, LenProperties, SubSeqProperties
<1>5. SubSeq(t, 1, Len(s)) = s
  BY <1>2, <1>4, SeqEqual
<1>6. Len(t) - 1 = Len(s)
  BY <1>2, LenProperties
<1> QED  BY <1>2, <1>5, <1>6 DEF t

\* A step that changes the promise of one call changes the status of that call.
LEMMA StatusStep ==
  ASSUME TypeOK, NEW c \in Calls, NEW s, promise' = [promise EXCEPT ![c] = s],
         \A d \in Calls : d # c => answer'[d] = answer[d]
  PROVE  status' = [status EXCEPT ![c] = StatusOf(c)']
<1>1. \A d \in Calls : d # c => StatusOf(d)' = StatusOf(d)
  BY DEF StatusOf, TypeOK
<1>2. \A d \in Calls : status'[d] = [status EXCEPT ![c] = StatusOf(c)'][d]
  BY <1>1 DEF status
<1>3. /\ status' = [d \in Calls |-> StatusOf(d)']
      /\ [status EXCEPT ![c] = StatusOf(c)'] =
           [d \in Calls |-> IF d = c THEN StatusOf(c)' ELSE StatusOf(d)]
  BY DEF status
<1> QED  BY <1>1, <1>3

\* A step that changes no promise and no answer changes no status.
LEMMA StatusStutter ==
  ASSUME UNCHANGED <<promise, answer>>
  PROVE  status' = status
BY DEF status, StatusOf

\* Every step of AsyncSRT is a step of the channel, or a stutter.
LEMMA ChannelNext ==
  ASSUME TypeOK, LockInv, AnswerInv, Unposted' = {}, [Next]_vars
  PROVE  [Channel!Next]_(Channel!vars)
<1>0. Unposted = {}
  BY UnpostedGrows
<1> DEFINE Stutter == UNCHANGED <<status, inbox, performed, phase>>
<1>1. ASSUME Stutter  PROVE [Channel!Next]_(Channel!vars)
  BY <1>1 DEF status, phase, performed, InWorker, Channel!vars
<1> DEFINE Step == [Channel!Next]_(Channel!vars)
<1>2. CASE UNCHANGED vars \/ DisposeAgain
  BY <1>1, <1>2, StatusStutter DEF vars, DisposeAgain, mainVars, disposeVars, workerVars,
                                  phase, performed, InWorker, isDisposed
<1>3. ASSUME NEW c \in Calls, Call(c)  PROVE Step
  <2>1. StatusOf(c) = "new" /\ status[c] = "new"
    BY <1>3 DEF Call, CallAfterDispose, CallWhileDisposing, CallWithUndefinedArg, CallPosted,
                CallNotCloned, StatusOf, status
  <2>2. CASE CallAfterDispose(c) \/ CallWhileDisposing(c) \/ CallWithUndefinedArg(c)
    <3>1. PICK s \in {"refused", "nothing"} :
            promise' = [promise EXCEPT ![c] = s] /\ UNCHANGED <<answer, inbox, performed, phase>>
      BY <2>2 DEF CallAfterDispose, CallWhileDisposing, CallWithUndefinedArg, Return,
                  disposeVars, workerVars, phase, performed, InWorker, isDisposed
    <3>2. StatusOf(c)' = "refused"
      BY <3>1 DEF StatusOf, TypeOK
    <3>3. status' = [status EXCEPT ![c] = "refused"]
      BY <3>1, <3>2, StatusStep
    <3>4. Channel!Refuse(c)
      BY <2>1, <3>1, <3>3 DEF Channel!Refuse, Channel!Become, status, phase, performed, InWorker
    <3> QED  BY <3>4 DEF Channel!Next
  <2>3. CASE CallPosted(c)
    <3>1. promise' = [promise EXCEPT ![c] = "pending"] /\ UNCHANGED <<answer, performed, phase>>
          /\ phase = "open" /\ inbox' = Append(inbox, c)
      BY <2>3 DEF CallPosted, Return, disposeVars, phase, performed, InWorker, isDisposed
    <3>2. StatusOf(c)' = "open"
      BY <3>1 DEF StatusOf, TypeOK
    <3>3. status' = [status EXCEPT ![c] = "open"]
      BY <3>1, <3>2, StatusStep
    <3>4. Channel!Submit(c)
      BY <2>1, <3>1, <3>3 DEF Channel!Submit, Channel!Become, status, phase, performed, InWorker
    <3> QED  BY <3>4 DEF Channel!Next
  <2>4. ~CallNotCloned(c)
    BY DEF CallNotCloned, Return, Unposted, TypeOK
  <2> QED  BY <1>3, <2>2, <2>3, <2>4 DEF Call
<1>4. ASSUME NEW c \in Calls, Timeout(c)  PROVE Step
  <2>1. promise[c] = "pending" /\ c \in TimeoutCalls
    BY <1>4 DEF LockInv, TimersPending, Timeout
  <2>2. /\ promise' = [promise EXCEPT ![c] = "timedOut"]
        /\ UNCHANGED <<answer, inbox, performed, phase>>
    BY <1>4, <2>1 DEF Timeout, disposeVars, workerVars, phase, performed, InWorker, isDisposed
  <2>3. StatusOf(c)' = "givenUp" /\ status[c] = "open"
    BY <2>1, <2>2 DEF StatusOf, status, TypeOK
  <2>4. status' = [status EXCEPT ![c] = "givenUp"]
    BY <2>2, <2>3, StatusStep
  <2>5. Channel!GiveUp(c)
    BY <2>1, <2>2, <2>3, <2>4 DEF Channel!GiveUp, Channel!Become, status, phase, performed, InWorker
  <2> QED  BY <2>5 DEF Channel!Next
<1>5. CASE WorkerTake
  <2>1. UNCHANGED <<status, phase, outbox>> /\ inbox # <<>> /\ inbox' = Tail(inbox)
        /\ busy = NoCall /\ busy' = Head(inbox)
    BY <1>5, StatusStutter DEF WorkerTake, mainVars, disposeVars, phase, isDisposed
  <2>2. Head(inbox) \in Calls /\ Head(inbox) # NoCall
    BY <2>1, HeadTailProperties, CallsAssumption DEF TypeOK
  <2>3. performed = outbox /\ performed' = outbox \o <<Head(inbox)>>
    BY <2>1, <2>2, ConcatEmptySeq DEF performed, InWorker, TypeOK
  <2>4. performed' = Append(performed, Head(inbox))
    BY <2>2, <2>3, AppendIsConcat DEF TypeOK
  <2>5. Channel!Perform
    BY <2>1, <2>4 DEF Channel!Perform, status, phase, performed, InWorker
  <2> QED  BY <2>5 DEF Channel!Next
<1>6. ASSUME NEW threw \in BOOLEAN, WorkerReply(threw)  PROVE Step
  <2>1. UNCHANGED <<status, inbox, phase>> /\ busy \in Calls /\ busy # NoCall /\ busy' = NoCall
    BY <1>6, StatusStutter DEF WorkerReply, mainVars, disposeVars, phase, isDisposed, TypeOK
  <2>2. performed = outbox \o <<busy>> /\ outbox' \in Seq(Calls)
    <3>1. Append(outbox, busy) \in Seq(Calls)
      BY <2>1, AppendProperties DEF TypeOK
    <3> QED  BY <1>6, <2>1, <3>1 DEF WorkerReply, performed, InWorker, TypeOK
  <2>3. performed' = outbox'
    BY <2>1, <2>2, ConcatEmptySeq DEF performed, InWorker
  <2>4. CASE thread = "running"
    <3>1. performed' = performed
      BY <1>6, <2>1, <2>2, <2>3, <2>4, AppendIsConcat DEF WorkerReply, TypeOK
    <3> QED  BY <1>1, <2>1, <3>1
  <2>5. CASE thread # "running"
    <3>1. phase = "closed" /\ performed' = outbox
      BY <1>6, <2>3, <2>5 DEF WorkerReply, AnswerInv, Running, phase
    <3>2. performed # <<>> /\ performed' = SubSeq(performed, 1, Len(performed) - 1)
      BY <2>1, <2>2, <3>1, DropLast DEF TypeOK
    <3>3. Channel!Discard
      BY <2>1, <3>1, <3>2 DEF Channel!Discard, status, phase, performed, InWorker
    <3> QED  BY <3>3 DEF Channel!Next
  <2> QED  BY <2>4, <2>5
<1>7. CASE OnWorkerMessage
  <2>1. UNCHANGED <<inbox, InWorker, phase>> /\ outbox # <<>> /\ outbox' = Tail(outbox)
    BY <1>7 DEF OnWorkerMessage, InWorker, disposeVars, phase, isDisposed
  <2>2. performed # <<>> /\ Head(performed) = Head(outbox) /\ performed' = Tail(performed)
    BY <2>1, PipelineSeq, ConcatHeadTail DEF performed, TypeOK
  <2>3. Head(outbox) \in Calls
    BY <2>1, HeadTailProperties DEF TypeOK
  <2>4. ASSUME UNCHANGED <<promise, answer>>, status[Head(outbox)] # "open"  PROVE Step
    <3>1. Channel!AnswerLate
      BY <2>1, <2>2, <2>4, StatusStutter DEF Channel!AnswerLate, status, phase, performed, InWorker
    <3> QED  BY <3>1 DEF Channel!Next
  <2>5. CASE isDisposed
    <3>1. promise[Head(outbox)] # "pending"
      BY <2>3, <2>5 DEF LockInv, PendingQueued
    <3> QED  BY <1>7, <2>3, <2>4, <2>5, <3>1 DEF OnWorkerMessage, mainVars, status, StatusOf
  <2>6. CASE ~isDisposed
    <3>1. PICK c \in Calls : c = Head(outbox) /\ OnResult(c, c)
      BY <1>0, <1>7, <2>6, HeadsMatch DEF AnswerInv, OnWorkerMessage, ShiftedCallback
    <3>2. CASE promise[c] # "pending"
      <4>1. status[c] # "open"
        BY <3>2 DEF status, StatusOf
      <4> QED  BY <2>4, <3>1, <3>2, <4>1 DEF OnResult
    <3>3. CASE promise[c] = "pending"
      <4>1. promise' = [promise EXCEPT ![c] = "resolved"] /\ answer' = [answer EXCEPT ![c] = c]
        BY <3>1, <3>3 DEF OnResult, Return
      <4>2. StatusOf(c)' = "answered" /\ status[c] = "open"
        <5>1. promise'[c] = "resolved" /\ answer'[c] = c
          BY <4>1 DEF TypeOK
        <5> QED  BY <3>3, <5>1 DEF StatusOf, status
      <4>3. \A d \in Calls : d # c => answer'[d] = answer[d]
        BY <3>1, <4>1 DEF TypeOK
      <4>4. status' = [status EXCEPT ![c] = "answered"]
        BY <3>1, <4>1, <4>2, <4>3, StatusStep
      <4>5. Channel!Answer
        BY <2>1, <2>2, <3>1, <4>2, <4>4
           DEF Channel!Answer, Channel!Become, status, phase, performed, InWorker
      <4> QED  BY <4>5 DEF Channel!Next
    <3> QED  BY <3>2, <3>3
  <2> QED  BY <2>5, <2>6
<1>8. ASSUME Detach, ~(0 < lockLevel), ~isDisposed  PROVE Step
  <2>1. UNCHANGED <<status, inbox, performed>> /\ phase # "closed" /\ phase' = "closed"
    BY <1>8, StatusStutter DEF Detach, phase, performed, InWorker, isDisposed
  <2>2. \A c \in Calls : promise[c] # "pending"
    <3>1. Holders = {}
      BY <1>8, HoldersFinite, FS_EmptySet DEF LockInv, LockCounts, TypeOK
    <3> QED  BY <3>1 DEF Holders
  <2>3. \A c \in Calls : status[c] # "open"
    BY <2>2 DEF status, StatusOf
  <2>4. Channel!Close
    BY <2>1, <2>3 DEF Channel!Close, status, phase, performed, InWorker
  <2> QED  BY <2>4 DEF Channel!Next
<1>9. CASE Dispose
  <2>1. ~isDisposed
    BY <1>9 DEF Dispose, AnswerInv, Running
  <2>2. CASE ~(0 < lockLevel)
    BY <1>8, <1>9, <2>1, <2>2 DEF Dispose
  <2>3. CASE 0 < lockLevel
    <3>1. UNCHANGED <<status, inbox, performed>> /\ phase = "open" /\ phase' = "closing"
      BY <1>9, <2>1, <2>3, StatusStutter
      DEF Dispose, mainVars, workerVars, phase, performed, InWorker, isDisposed
    <3>2. Channel!StartClosing
      BY <3>1 DEF Channel!StartClosing, status, phase, performed, InWorker
    <3> QED  BY <3>2 DEF Channel!Next
  <2> QED  BY <2>2, <2>3
<1>10. CASE DisposeProceed
  <2>1. ~isDisposed /\ ~(0 < lockLevel)
    BY <1>10 DEF DisposeProceed, AnswerInv, Running, TypeOK
  <2> QED  BY <1>8, <1>10, <2>1 DEF DisposeProceed
<1>11. CASE Terminated
  <2>1. UNCHANGED <<status, performed, phase>> /\ phase = "closed" /\ inbox' = <<>>
    BY <1>11, StatusStutter DEF Terminated, AnswerInv, Running, mainVars, phase, performed,
                                InWorker, isDisposed
  <2>2. Channel!Discard
    BY <2>1 DEF Channel!Discard, status, phase, performed, InWorker
  <2> QED  BY <2>2 DEF Channel!Next
<1> QED  BY <1>2, <1>3, <1>4, <1>5, <1>6, <1>7, <1>9, <1>10, <1>11 DEF Next

(* The asynchronous API implements the channel of calls, until a buffer     *)
(* given to write() cannot be posted.                                       *)
THEOREM Refinement == Spec => ImplementsChannel
<1> DEFINE Step == Unposted' = {} => Channel!Next
<1>1. TypeOK /\ LockInv /\ AnswerInv /\ [Next]_vars => [Step]_(Channel!vars)
  BY ChannelNext
<1> QED  BY <1>1, ChannelInit, TypeCorrect, LockInvariant, AnswerInvariant, PTL
         DEF Spec, ImplementsChannel

=============================================================================
