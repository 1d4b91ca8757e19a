-------------------------- MODULE AsyncLoop_proofs --------------------------
(***************************************************************************)
(* AsyncSRT is the loop that the models of the classes above it assume,    *)
(* for every set of calls.                                                 *)
(***************************************************************************)
EXTENDS AsyncLoop, AsyncSRT_proofs

-----------------------------------------------------------------------------
(* Queues, each element of which is looked up.                              *)

ImageOf(f) == {f[c] : c \in Calls}

\* As long as the queue, and as empty.
LEMMA EachElement ==
  ASSUME NEW f, NEW s \in Seq(Calls)
  PROVE  /\ Each(f, s) \in Seq(ImageOf(f))
         /\ Len(Each(f, s)) = Len(s)
         /\ \A i \in 1..Len(s) : s[i] \in Calls /\ Each(f, s)[i] = f[s[i]]
         /\ Each(f, s) = <<>> <=> s = <<>>
<1> DEFINE T == ImageOf(f)
<1>1. Len(s) \in Nat /\ \A i \in 1..Len(s) : s[i] \in Calls
  BY LenProperties, ElementOfSeq
<1>2. Each(f, s) = [i \in 1..Len(s) |-> f[s[i]]]
  BY DEF Each
<1>3. \A i \in 1..Len(s) : f[s[i]] \in T
  BY <1>1 DEF ImageOf
<1> HIDE DEF T
<1>4. Each(f, s) \in [1..Len(s) -> T]
  BY <1>2, <1>3
<1>5. Each(f, s) \in Seq(T) /\ Len(Each(f, s)) = Len(s)
  BY <1>1, <1>4, IsASeq
<1>6. Each(f, s) = <<>> <=> s = <<>>
  BY <1>5, EmptySeq
<1> QED  BY <1>1, <1>2, <1>5, <1>6 DEF T

\* Appending a call.
LEMMA EachAppend ==
  ASSUME NEW f, NEW s \in Seq(Calls), NEW x \in Calls
  PROVE  Each(f, Append(s, x)) = Append(Each(f, s), f[x])
<1> DEFINE T == ImageOf(f)
           t == Append(s, x)
           u == Append(Each(f, s), f[x])
<1>1. /\ t \in Seq(Calls) /\ Len(t) = Len(s) + 1 /\ Len(s) \in Nat
      /\ \A i \in 1..Len(s) : t[i] = s[i]
      /\ t[Len(s) + 1] = x
  BY AppendProperties, LenProperties
<1> HIDE DEF t, u
<1>2. /\ Each(f, s) \in Seq(T) /\ Len(Each(f, s)) = Len(s)
      /\ \A i \in 1..Len(s) : s[i] \in Calls /\ Each(f, s)[i] = f[s[i]]
  BY EachElement
<1>3. f[x] \in T
  BY DEF ImageOf
<1> HIDE DEF T
<1>4. /\ u \in Seq(T) /\ Len(u) = Len(s) + 1
      /\ \A i \in 1..Len(s) : u[i] = Each(f, s)[i]
      /\ u[Len(s) + 1] = f[x]
  BY <1>2, <1>3, AppendProperties DEF u
<1>5. /\ Each(f, t) \in Seq(T) /\ Len(Each(f, t)) = Len(s) + 1
      /\ \A i \in 1..Len(s) + 1 : Each(f, t)[i] = f[t[i]]
  BY <1>1, EachElement DEF T
<1>6. \A i \in 1..Len(s) + 1 : i \in 1..Len(s) \/ i = Len(s) + 1
  BY <1>1
<1>7. \A i \in 1..Len(u) : Each(f, t)[i] = u[i]
  <2>1. ASSUME NEW i \in 1..Len(s)  PROVE Each(f, t)[i] = u[i]
    <3>1. i \in 1..Len(s) + 1 /\ t[i] = s[i]
      BY <1>1, <2>1
    <3> QED  BY <1>2, <1>4, <1>5, <2>1, <3>1
  <2>2. Each(f, t)[Len(s) + 1] = u[Len(s) + 1]
    <3>1. Len(s) + 1 \in 1..Len(s) + 1
      BY <1>1
    <3> QED  BY <1>1, <1>4, <1>5, <3>1
  <2> QED  BY <1>4, <1>6, <2>1, <2>2
<1>8. Each(f, t) = u
  BY <1>4, <1>5, <1>7, SeqEqual
<1> QED  BY <1>8 DEF t, u

\* Taking the first call.
LEMMA EachTail ==
  ASSUME NEW f, NEW s \in Seq(Calls), s # <<>>
  PROVE  /\ Head(Each(f, s)) = f[Head(s)] /\ Head(s) \in Calls
         /\ Each(f, Tail(s)) = Tail(Each(f, s))
<1> DEFINE T == ImageOf(f)
           e == Each(f, s)
           t == Tail(s)
<1>1. /\ e \in Seq(T) /\ Len(e) = Len(s) /\ e # <<>>
      /\ \A i \in 1..Len(s) : s[i] \in Calls /\ e[i] = f[s[i]]
  BY EachElement
<1>2. /\ t \in Seq(Calls) /\ Len(t) = Len(s) - 1 /\ Head(s) = s[1] /\ Len(s) \in Nat \ {0}
      /\ \A i \in 1..Len(t) : t[i] = s[i + 1]
  BY HeadTailProperties, LenProperties, EmptySeq
<1> HIDE DEF e, t, T
<1>3. /\ Tail(e) \in Seq(T) /\ Len(Tail(e)) = Len(s) - 1 /\ Head(e) = e[1]
      /\ \A i \in 1..Len(Tail(e)) : Tail(e)[i] = e[i + 1]
  BY <1>1, HeadTailProperties
<1>4. /\ Each(f, t) \in Seq(T) /\ Len(Each(f, t)) = Len(t)
      /\ \A i \in 1..Len(t) : Each(f, t)[i] = f[t[i]]
  BY <1>2, EachElement DEF T
<1>5. \A i \in 1..Len(t) : i + 1 \in 1..Len(s) /\ t[i] = s[i + 1]
  BY <1>2
<1>6. \A i \in 1..Len(t) : Each(f, t)[i] = Tail(e)[i]
  BY <1>1, <1>2, <1>3, <1>4, <1>5
<1>7. Each(f, t) = Tail(e)
  BY <1>2, <1>3, <1>4, <1>6, SeqEqual
<1>8. 1 \in 1..Len(s)
  BY <1>2
<1> QED  BY <1>1, <1>2, <1>3, <1>7, <1>8 DEF e, t

\* What is looked up may change for others.
LEMMA EachSame ==
  ASSUME NEW f, NEW g, NEW s \in Seq(Calls), \A i \in 1..Len(s) : f[s[i]] = g[s[i]]
  PROVE  Each(f, s) = Each(g, s)
BY DEF Each

-----------------------------------------------------------------------------
(* A turn is a step of AsyncSRT, so that all its theorems hold.             *)

\* Who awaits a promise adds no step to AsyncSRT and takes none away.
LEMMA TurnIsStep == [TurnNext]_turnVars => [Next]_vars
BY DEF TurnNext, turnVars, CallsLive, CallThrows, CallsInVain, Call, Returns, MessageArrives,
       TimerFires, Disposes, Elsewhere, Next

\* A behaviour with continuations is a behaviour of AsyncSRT.
LEMMA TurnsAreSteps == TurnSpec => Spec
BY TurnIsStep, PTL DEF TurnSpec, TurnInit, Spec

-----------------------------------------------------------------------------
(* A call is performed once.                                                *)

OnceInv ==
    /\ Distinct(inbox)
    /\ \A c \in Calls : OccursIn(c, inbox) => promise[c] # "uncalled" /\ c \notin executed
    /\ \A c \in executed : promise[c] # "uncalled"
    /\ \A i \in 1..Len(outbox) : outbox[i] # busy
    /\ \A c \in Calls : promise[c] = "resolved" => answer[c] # busy

\* Nothing has been performed in a new instance.
LEMMA OnceInvInit == Init => OnceInv
<1> SUFFICES ASSUME Init  PROVE OnceInv
  OBVIOUS
<1>1. Len(inbox) = 0 /\ Len(outbox) = 0
  BY EmptySeq DEF Init
<1> QED  BY <1>1 DEF Init, OnceInv, OccursIn, Distinct

\* What is posted is new, and what the worker takes has not been answered.
LEMMA OnceInvNext ==
  ASSUME TypeOK, AnswerInv, OnceInv, [Next]_vars
  PROVE  OnceInv'
<1> USE DEF OnceInv
<1>1. \A i \in 1..Len(outbox) : outbox[i] \in executed
  BY DEF AnswerInv, AnsweredWasExecuted
<1>2. ASSUME UNCHANGED <<promise, answer, inbox, busy, outbox, executed>>  PROVE OnceInv'
  BY <1>2 DEF OccursIn, Distinct
<1>3. ASSUME UNCHANGED <<answer, busy, outbox, executed>>, NEW c \in Calls, NEW st \in Settled,
             promise' = [promise EXCEPT ![c] = st], inbox' = inbox,
             st = "resolved" => answer[c] # busy
      PROVE  OnceInv'
  <2>1. /\ \A d \in Calls : promise'[d] = "uncalled" => promise[d] = "uncalled"
        /\ \A d \in Calls : promise'[d] = "resolved" => answer[d] # busy
    BY <1>3 DEF TypeOK, Settled
  <2> QED  BY <1>3, <2>1 DEF OccursIn, Distinct, TypeOK
<1>4. ASSUME NEW c \in Calls, CallPosted(c)  PROVE OnceInv'
  <2>1. /\ promise[c] = "uncalled" /\ promise' = [promise EXCEPT ![c] = "pending"]
        /\ inbox' = Append(inbox, c) /\ UNCHANGED <<answer, busy, outbox, executed>>
    BY <1>4 DEF CallPosted, Return
  <2>2. /\ promise'[c] = "pending" /\ ~OccursIn(c, inbox) /\ c \notin executed
        /\ \A d \in Calls : d # c => promise'[d] = promise[d]
    BY <2>1 DEF TypeOK
  <2>3. Distinct(inbox') /\ \A d : OccursIn(d, inbox') <=> d = c \/ OccursIn(d, inbox)
    BY <2>1, <2>2, AppendOccurs DEF TypeOK
  <2> QED  BY <2>1, <2>2, <2>3 DEF TypeOK
<1>5. ASSUME NEW c \in Calls, Call(c) \/ Timeout(c)  PROVE OnceInv'
  <2>1. CASE CallPosted(c)
    BY <1>4, <2>1
  <2>2. CASE CallAfterDispose(c) \/ CallWhileDisposing(c) \/ CallWithUndefinedArg(c)
             \/ CallNotCloned(c)
    <3>1. \E st \in {"refused", "nothing", "unposted"} : promise' = [promise EXCEPT ![c] = st]
      BY <2>2 DEF CallAfterDispose, CallWhileDisposing, CallWithUndefinedArg, CallNotCloned, Return
    <3>2. UNCHANGED <<answer, busy, outbox, executed, inbox>>
      BY <2>2 DEF CallAfterDispose, CallWhileDisposing, CallWithUndefinedArg, CallNotCloned,
                  workerVars
    <3>3. {"refused", "nothing", "unposted"} \subseteq Settled \ {"resolved"}
      BY DEF Settled, PromiseStates
    <3> QED  BY <1>3, <3>1, <3>2, <3>3
  <2>3. CASE Timeout(c)
    <3>1. /\ promise' = [promise EXCEPT ![c] = IF @ = "pending" THEN "timedOut" ELSE @]
          /\ UNCHANGED <<answer, busy, outbox, executed, inbox>>
      BY <2>3 DEF Timeout, workerVars
    <3>2. CASE promise[c] = "pending"
      <4>1. "timedOut" \in Settled /\ promise' = [promise EXCEPT ![c] = "timedOut"]
        BY <3>1, <3>2 DEF Settled, PromiseStates
      <4> QED  BY <1>3, <3>1, <4>1
    <3>3. CASE promise[c] # "pending"
      <4>1. promise' = promise
        BY <3>1, <3>3 DEF TypeOK
      <4> QED  BY <1>2, <3>1, <4>1
    <3> QED  BY <3>2, <3>3
  <2> QED  BY <1>5, <2>1, <2>2, <2>3 DEF Call
<1>6. CASE WorkerTake
  <2> DEFINE c == Head(inbox)
  <2>1. /\ inbox # <<>> /\ busy' = c /\ inbox' = Tail(inbox) /\ executed' = executed \union {c}
        /\ UNCHANGED <<promise, answer, outbox>>
    BY <1>6 DEF WorkerTake, mainVars
  <2>2. /\ OccursIn(c, inbox) /\ Distinct(Tail(inbox)) /\ c \in Calls
        /\ \A d : OccursIn(d, Tail(inbox)) <=> d # c /\ OccursIn(d, inbox)
    BY <2>1, TailOccurs, HeadTailProperties DEF TypeOK
  <2> HIDE DEF c
  <2>3. /\ c \notin executed /\ promise[c] # "uncalled"
        /\ \A d \in Calls : promise[d] = "resolved" => answer[d] \in executed
    BY <2>2 DEF AnswerInv, AnsweredWasExecuted
  <2> QED  BY <1>1, <2>1, <2>2, <2>3
<1>7. ASSUME NEW threw \in BOOLEAN, WorkerReply(threw)  PROVE OnceInv'
  <2>1. /\ busy # NoCall /\ busy' = NoCall /\ UNCHANGED <<promise, answer, inbox, executed>>
        /\ outbox' = IF thread = "running" THEN Append(outbox, busy) ELSE outbox
    BY <1>7 DEF WorkerReply, mainVars
  <2>2. outbox' \in Seq(Calls) /\ \A i \in 1..Len(outbox') : outbox'[i] \in Calls
    BY <2>1, AppendProperties, ElementOfSeq DEF TypeOK
  <2>3. \A d \in Calls : promise[d] = "resolved" => answer[d] # NoCall
    BY CallsAssumption DEF AnswerInv, AnsweredWasExecuted, TypeOK
  <2> QED  BY <2>1, <2>2, <2>3, CallsAssumption DEF OccursIn, Distinct
<1>8. CASE OnWorkerMessage
  <2>1. /\ outbox # <<>> /\ outbox' = Tail(outbox) /\ UNCHANGED <<inbox, busy, executed>>
    BY <1>8 DEF OnWorkerMessage
  <2>0. executed' = executed /\ inbox' = inbox
    BY <2>1
  <2>2. Head(outbox) # busy /\ \A i \in 1..Len(outbox') : outbox'[i] # busy
    BY <2>1, HeadTailProperties, LenProperties, EmptySeq DEF TypeOK
  <2>3. CASE UNCHANGED <<promise, answer>>
    BY <2>1, <2>2, <2>3 DEF OccursIn, Distinct
  <2>4. ASSUME NEW c \in Calls, promise' = [promise EXCEPT ![c] = "resolved"],
               answer' = [answer EXCEPT ![c] = Head(outbox)]
        PROVE  OnceInv'
    <3>1. \A d \in Calls : /\ promise'[d] = "uncalled" => promise[d] = "uncalled"
                           /\ promise'[d] = "resolved" => answer'[d] # busy
      BY <2>2, <2>4 DEF TypeOK
    <3>2. executed \subseteq Calls
      BY DEF TypeOK
    <3>3. Distinct(inbox)' /\ \A d : OccursIn(d, inbox)' <=> OccursIn(d, inbox)
      BY <2>1 DEF OccursIn, Distinct
    <3>4. \A i \in 1..Len(outbox') : outbox'[i] # busy'
      BY <2>1, <2>2
    <3>5. \A d \in Calls : OccursIn(d, inbox)' => promise'[d] # "uncalled" /\ d \notin executed'
      BY <2>0, <3>1, <3>3
    <3>6. \A d \in executed' : promise'[d] # "uncalled"
      BY <2>0, <3>1, <3>2
    <3> QED  BY <2>1, <3>1, <3>3, <3>4, <3>5, <3>6
  <2>5. \/ UNCHANGED <<promise, answer>>
        \/ \E c \in Calls : /\ promise' = [promise EXCEPT ![c] = "resolved"]
                            /\ answer' = [answer EXCEPT ![c] = Head(outbox)]
    <3>1. workCbQueue # <<>> => Head(workCbQueue) \in Calls
      BY HeadTailProperties DEF TypeOK
    <3> QED  BY <1>8, <3>1 DEF OnWorkerMessage, OnResult, Return, ShiftedCallback, mainVars
  <2> QED  BY <2>3, <2>4, <2>5
<1>9. CASE Dispose \/ DisposeProceed \/ DisposeAgain \/ UNCHANGED vars
  BY <1>2, <1>9 DEF Dispose, DisposeProceed, Detach, DisposeAgain, vars, mainVars, workerVars
<1>10. CASE Terminated
  <2>1. inbox' = <<>> /\ Len(inbox') = 0
    BY <1>10, EmptySeq DEF Terminated
  <2> QED  BY <1>10, <2>1 DEF Terminated, mainVars, OccursIn, Distinct
<1> QED  BY <1>5, <1>6, <1>7, <1>8, <1>9, <1>10 DEF Next

-----------------------------------------------------------------------------
(* What is known of the continuations, and what else of AsyncSRT as long as *)
(* no call has timed out and every message could be posted.                 *)

NothingInFlight == outbox = <<>> /\ busy = NoCall /\ inbox = <<>>

\* Calls whose continuation can run, and finds the right error if the call failed.
Ready ==
    {c \in Calls : /\ promise[c] \in Settled
                   /\ promise[c] = "resolved" /\ answer[c] \in failed => lastError = answer[c]}

\* Those whose continuation is to run can run it; and a disposal leaves nothing in flight.
LoopInv ==
    /\ resumed \in Seq(Ready)
    /\ Undisturbed /\ isDisposed => NothingInFlight

\* Nothing can undo a timeout or a refusal.
LEMMA StaysDisturbed ==
  ASSUME TypeOK, [Next]_vars, Undisturbed'
  PROVE  Undisturbed
BY SettledStep DEF Undisturbed, Settled, PromiseStates

\* The calls in flight are those whose promise is pending, and hold the lock.
LEMMA InFlightPending ==
  ASSUME TypeOK, LockInv, AnswerInv, Undisturbed, ~isDisposed
  PROVE  /\ workCbQueue = Pipeline /\ thread = "running"
         /\ \A c \in Calls : OccursIn(c, workCbQueue) <=> promise[c] = "pending"
         /\ NothingInFlight <=> lockLevel <= 0
<1>1. Unposted = {} /\ workCbQueue = Pipeline /\ thread = "running"
  BY DEF Undisturbed, Unposted, AnswerInv, Aligned, Running
<1>2. /\ workCbQueue \in Seq(Calls) /\ Len(workCbQueue) \in Nat
      /\ \A i \in 1..Len(workCbQueue) : workCbQueue[i] \in Calls
  BY LenProperties, ElementOfSeq DEF TypeOK
<1>3. \A i \in 1..Len(workCbQueue) : promise[workCbQueue[i]] = "pending"
  BY <1>2 DEF LockInv, QueuedWasMade, Undisturbed
<1>4. \A c \in Calls : OccursIn(c, workCbQueue) <=> promise[c] = "pending"
  BY <1>3 DEF LockInv, PendingQueued, OccursIn
<1>5. Holders = {c \in Calls : OccursIn(c, workCbQueue)}
  BY <1>4 DEF Holders, Undisturbed
<1>6. workCbQueue = <<>> <=> Holders = {}
  <2>1. workCbQueue = <<>> => Holders = {}
    BY <1>2, <1>5, EmptySeq DEF OccursIn
  <2>2. ASSUME workCbQueue # <<>>  PROVE Holders # {}
    <3>1. Len(workCbQueue) # 0
      BY <1>2, <2>2, EmptySeq
    <3>2. 1 \in 1..Len(workCbQueue)
      BY <1>2, <3>1
    <3> QED  BY <1>2, <1>5, <3>2 DEF OccursIn
  <2> QED  BY <2>1, <2>2
<1>7. Holders = {} <=> lockLevel <= 0
  BY HoldersFinite, FS_EmptySet DEF LockInv, LockCounts
<1>8. Pipeline = <<>> <=> NothingInFlight
  <2>1. Len(Pipeline) = Len(outbox) + (IF busy = NoCall THEN 0 ELSE 1) + Len(inbox)
    BY PipelineLen DEF TypeOK, Pipeline
  <2>2. Len(outbox) \in Nat /\ Len(inbox) \in Nat /\ Pipeline \in Seq(Calls)
    BY PipelineSeq, LenProperties DEF TypeOK
  <2>3. Len(Pipeline) = 0 <=> Len(outbox) = 0 /\ busy = NoCall /\ Len(inbox) = 0
    BY <2>1, <2>2
  <2> QED  BY <2>2, <2>3, EmptySeq DEF NothingInFlight, TypeOK
<1> QED  BY <1>1, <1>4, <1>6, <1>7, <1>8

\* What the worker performs has not been answered.
LEMMA BusyPending ==
  ASSUME TypeOK, LockInv, AnswerInv, LoopInv, Undisturbed, busy # NoCall
  PROVE  busy \in Calls /\ promise[busy] = "pending" /\ ~isDisposed
<1>1. busy \in Calls /\ ~isDisposed
  BY DEF LoopInv, NothingInFlight, TypeOK
<1>2. /\ workCbQueue = (outbox \o <<busy>>) \o inbox
      /\ \A c \in Calls : OccursIn(c, workCbQueue) <=> promise[c] = "pending"
  BY <1>1, InFlightPending DEF Pipeline
<1> DEFINE q == outbox \o <<busy>>
           n == Len(outbox) + 1
<1>3. outbox \in Seq(Calls) /\ <<busy>> \in Seq(Calls) /\ inbox \in Seq(Calls)
  BY <1>1 DEF TypeOK
<1>4. q \in Seq(Calls) /\ Len(q) = n /\ n \in Nat \ {0} /\ q[n] = busy
  <2>1. q = Append(outbox, busy) /\ Len(outbox) \in Nat
    BY <1>1, <1>3, AppendIsConcat, LenProperties
  <2> QED  BY <1>1, <1>3, <2>1, AppendProperties
<1> HIDE DEF q, n
<1>5. workCbQueue = q \o inbox
  BY <1>2 DEF q
<1>6. Len(workCbQueue) = n + Len(inbox) /\ Len(inbox) \in Nat /\ n \in 1..n + Len(inbox)
  <2>1. Len(inbox) \in Nat /\ Len(q \o inbox) = Len(q) + Len(inbox)
    BY <1>3, <1>4, ConcatProperties, LenProperties
  <2> QED  BY <1>4, <1>5, <2>1
<1>7. workCbQueue[n] = busy
  BY <1>3, <1>4, <1>5, <1>6, ConcatProperties
<1> QED  BY <1>1, <1>2, <1>6, <1>7 DEF OccursIn

-----------------------------------------------------------------------------
(* The invariant.                                                           *)

\* The elements of a queue stay what they are in a larger set.
LEMMA SeqLarger ==
  ASSUME NEW S, NEW T, S \subseteq T, NEW s \in Seq(S)
  PROVE  s \in Seq(T)
<1>1. Len(s) \in Nat /\ s \in [1..Len(s) -> S]
  BY LenProperties
<1>2. s \in [1..Len(s) -> T]
  BY <1>1
<1> QED  BY <1>1, <1>2, IsASeq

\* No step changes what has been performed or settled.
LEMMA ReadyKept ==
  ASSUME TypeOK, AnswerInv, OnceInv, [Next]_vars
  PROVE  /\ \A c \in Ready : Continued'[c] = Continued[c]
         /\ UNCHANGED lastError => Ready \subseteq Ready'
         /\ \A i \in 1..Len(outbox) : Answered'[outbox[i]] = Answered[outbox[i]]
<1>1. \A c \in Ready : promise'[c] = promise[c] /\ answer'[c] = answer[c]
  BY SettledStep DEF Ready
<1>2. \A r : r # busy => (r \in failed' <=> r \in failed)
  BY DEF Next, Call, CallAfterDispose, CallWhileDisposing, CallWithUndefinedArg, CallPosted,
         CallNotCloned, Timeout, WorkerTake, WorkerReply, OnWorkerMessage, Dispose,
         DisposeProceed, Detach, Terminated, DisposeAgain, vars, workerVars
<1>3. \A c \in Ready : promise[c] = "resolved" => (answer[c] \in failed' <=> answer[c] \in failed)
  BY <1>2 DEF OnceInv, Ready
<1>4. \A i \in 1..Len(outbox) : outbox[i] \in Calls
  BY ElementOfSeq DEF TypeOK
<1>5. \A i \in 1..Len(outbox) : outbox[i] \in failed' <=> outbox[i] \in failed
  BY <1>2 DEF OnceInv
<1>6. \A c \in Ready : Continued'[c] = Continued[c]
  <2>1. ASSUME NEW c \in Ready  PROVE Given(c)' = Given(c)
    BY <1>1, <1>3 DEF Given, Outcome
  <2>2. Ready \subseteq Calls
    BY DEF Ready
  <2> QED  BY <2>1, <2>2 DEF Continued
<1>7. UNCHANGED lastError => Ready \subseteq Ready'
  BY <1>1, <1>3 DEF Ready
<1>8. \A i \in 1..Len(outbox) : Answered'[outbox[i]] = Answered[outbox[i]]
  BY <1>4, <1>5 DEF Answered, Outcome
<1> QED  BY <1>6, <1>7, <1>8

\* What is left of the continuations.
LEMMA GoingReady ==
  ASSUME LoopInv, NEW rest \in Going
  PROVE  rest \in Seq(Ready)
BY HeadTailProperties DEF LoopInv, Going, Idle

\* The answer that arrives resolves the promise at the head of the queue, if it is pending.
LEMMA AnswerResolves ==
  ASSUME MessageArrives
  PROVE  /\ outbox # <<>> /\ outbox' = Tail(outbox) /\ resumed = <<>>
         /\ UNCHANGED <<disposeVars, inbox, busy, thread, executed, failed>>
         /\ \/ resumed' = <<>>
            \/ /\ ~isDisposed /\ workCbQueue # <<>> /\ promise[ShiftedCallback] = "pending"
               /\ resumed' = <<ShiftedCallback>>
               /\ promise' = [promise EXCEPT ![ShiftedCallback] = "resolved"]
               /\ answer' = [answer EXCEPT ![ShiftedCallback] = Head(outbox)]
               /\ lastError' = StoredError(Head(outbox))
<1>1. OnWorkerMessage /\ resumed = <<>>
  BY DEF MessageArrives, Idle
<1>2. CASE ~isDisposed /\ workCbQueue # <<>> /\ promise[ShiftedCallback] = "pending"
  <2>1. OnResult(ShiftedCallback, Head(outbox)) /\ lastError' = StoredError(Head(outbox))
    BY <1>1, <1>2 DEF OnWorkerMessage
  <2>2. resumed' = <<ShiftedCallback>>
    BY <1>2 DEF MessageArrives
  <2> QED  BY <1>1, <1>2, <2>1, <2>2 DEF OnWorkerMessage, OnResult, Return
<1>3. CASE ~(~isDisposed /\ workCbQueue # <<>> /\ promise[ShiftedCallback] = "pending")
  <2>1. resumed' = <<>>
    BY <1>3 DEF MessageArrives
  <2> QED  BY <1>1, <2>1 DEF OnWorkerMessage
<1> QED  BY <1>2, <1>3

\* It holds for a new instance.
LEMMA LoopInvInit == TurnInit => LoopInv
<1>1. <<>> \in Seq(Ready)
  BY EmptySeq
<1> QED  BY <1>1 DEF TurnInit, Init, LoopInv, isDisposed

\* Every turn keeps it, given what is known of AsyncSRT.
LEMMA LoopInvNext ==
  ASSUME TypeOK, LockInv, AnswerInv, OnceInv, LoopInv, [TurnNext]_turnVars
  PROVE  LoopInv'
<1>0. /\ [Next]_vars
      /\ UNCHANGED lastError => Ready \subseteq Ready'
      /\ resumed \in Seq(Ready) /\ \A rest \in Going : rest \in Seq(Ready)
      /\ Ready \subseteq Calls
      /\ Undisturbed' => Undisturbed
  BY TurnIsStep, ReadyKept, GoingReady, StaysDisturbed DEF LoopInv, Ready
<1>1. ASSUME UNCHANGED worker, isDisposed /\ Undisturbed => UNCHANGED <<outbox, busy, inbox>>
      PROVE  (Undisturbed /\ isDisposed => NothingInFlight)'
  BY <1>0, <1>1 DEF LoopInv, isDisposed, NothingInFlight
<1>2. ASSUME UNCHANGED lastError, resumed' \in Going \union {resumed}
      PROVE  resumed' \in Seq(Ready')
  BY <1>0, <1>2, SeqLarger
<1>3. CASE UNCHANGED turnVars \/ Returns
  <2>1. UNCHANGED <<lastError, worker, outbox, busy, inbox>> /\ resumed' \in Going \union {resumed}
    BY <1>3 DEF turnVars, vars, mainVars, disposeVars, workerVars, Returns, Going
  <2> QED  BY <1>1, <1>2, <2>1 DEF LoopInv
<1>4. ASSUME NEW c \in Calls, CallsLive(c) \/ CallThrows(c)  PROVE LoopInv'
  <2>1. UNCHANGED <<lastError, worker>> /\ resumed' \in Going /\ ~isDisposed
    BY <1>4 DEF CallsLive, CallThrows, CallPosted, CallWithUndefinedArg, disposeVars
  <2> QED  BY <1>1, <1>2, <2>1 DEF LoopInv
<1>5. ASSUME NEW c \in Calls, CallsInVain(c)  PROVE LoopInv'
  <2>1. /\ UNCHANGED <<lastError, disposeVars, outbox, busy, inbox>>
        /\ \E st \in {"nothing", "refused", "unposted"} : promise' = [promise EXCEPT ![c] = st]
    BY <1>5 DEF CallsInVain, CallWhileDisposing, CallAfterDispose, CallNotCloned, Return, workerVars
  <2>2. promise'[c] \in {"nothing", "refused", "unposted"}
    BY <2>1 DEF TypeOK
  <2>3. PICK rest \in Going : resumed' = Append(rest, c)
    BY <1>5 DEF CallsInVain
  <2>4. c \in Ready' /\ rest \in Seq(Ready')
    BY <1>0, <2>1, <2>2, SeqLarger DEF Ready, Settled, PromiseStates
  <2>5. resumed' \in Seq(Ready')
    BY <2>3, <2>4, AppendProperties
  <2> QED  BY <1>1, <2>1, <2>5 DEF LoopInv, disposeVars
<1>6. ASSUME NEW c \in Calls, TimerFires(c)  PROVE LoopInv'
  <2>1. /\ resumed' = <<c>> /\ promise[c] = "pending" /\ UNCHANGED <<worker, outbox, busy, inbox>>
        /\ promise' = [promise EXCEPT ![c] = IF @ = "pending" THEN "timedOut" ELSE @]
    BY <1>6 DEF TimerFires, Timeout, LockInv, TimersPending, disposeVars, workerVars
  <2>2. promise'[c] = "timedOut"
    BY <2>1 DEF TypeOK
  <2>3. c \in Ready'
    BY <2>2 DEF Ready, Settled, PromiseStates
  <2>4. resumed' \in Seq(Ready')
    BY <2>1, <2>3
  <2> QED  BY <1>1, <2>1, <2>4 DEF LoopInv
<1>7. CASE MessageArrives
  <2>1. /\ outbox # <<>> /\ UNCHANGED <<worker, failed>>
        /\ \/ resumed' = <<>>
           \/ /\ workCbQueue # <<>> /\ resumed' = <<ShiftedCallback>>
              /\ promise' = [promise EXCEPT ![ShiftedCallback] = "resolved"]
              /\ answer' = [answer EXCEPT ![ShiftedCallback] = Head(outbox)]
              /\ lastError' = StoredError(Head(outbox))
    BY <1>7, AnswerResolves DEF disposeVars
  <2>2. ~(isDisposed /\ Undisturbed)
    BY <2>1 DEF LoopInv, NothingInFlight
  <2>3. CASE resumed' = <<>>
    BY <1>1, <2>1, <2>2, <2>3, EmptySeq DEF LoopInv
  <2>4. ASSUME NEW c \in Calls, resumed' = <<c>>,
               promise' = [promise EXCEPT ![c] = "resolved"],
               answer' = [answer EXCEPT ![c] = Head(outbox)],
               lastError' = StoredError(Head(outbox))
        PROVE  LoopInv'
    <3>1. promise'[c] = "resolved" /\ answer'[c] = Head(outbox)
      BY <2>4 DEF TypeOK
    <3>2. Head(outbox) \in failed' => lastError' = Head(outbox)
      BY <2>1, <2>4 DEF StoredError
    <3>3. c \in Ready'
      BY <3>1, <3>2 DEF Ready, Settled, PromiseStates
    <3>4. resumed' \in Seq(Ready')
      BY <2>4, <3>3
    <3> QED  BY <1>1, <2>1, <2>2, <3>4 DEF LoopInv
  <2>5. workCbQueue # <<>> => ShiftedCallback \in Calls
    BY HeadTailProperties DEF ShiftedCallback, TypeOK
  <2> QED  BY <2>1, <2>3, <2>4, <2>5
<1>8. ASSUME Detach, ~isDisposed, ~(0 < lockLevel), resumed' \in Going \union {resumed}
      PROVE  LoopInv'
  <2>1. Undisturbed => NothingInFlight
    BY <1>8, InFlightPending DEF TypeOK
  <2>2. UNCHANGED <<lastError, outbox, busy, inbox>>
    BY <1>8 DEF Detach
  <2>3. (Undisturbed /\ isDisposed => NothingInFlight)'
    BY <1>0, <2>1, <2>2 DEF NothingInFlight
  <2> QED  BY <1>2, <1>8, <2>2, <2>3 DEF LoopInv
<1>9. CASE Disposes
  <2>1. ~isDisposed /\ resumed' \in Going
    BY <1>9 DEF Disposes, Dispose, AnswerInv, Running
  <2>2. CASE 0 < lockLevel
    <3>1. UNCHANGED <<lastError, worker>>
      BY <1>9, <2>2 DEF Disposes, Dispose, mainVars
    <3> QED  BY <1>1, <1>2, <2>1, <3>1 DEF LoopInv
  <2> QED  BY <1>8, <1>9, <2>1, <2>2 DEF Disposes, Dispose
<1>10. CASE Elsewhere
  <2>1. CASE DisposeProceed
    <3>1. ~isDisposed /\ ~(0 < lockLevel)
      BY <2>1 DEF DisposeProceed, AnswerInv, Running, TypeOK
    <3> QED  BY <1>8, <1>10, <2>1, <3>1 DEF DisposeProceed, Elsewhere
  <2>2. CASE WorkerTake \/ (\E threw \in BOOLEAN : WorkerReply(threw)) \/ Terminated \/ DisposeAgain
    <3>1. UNCHANGED <<lastError, worker, resumed>>
      BY <1>10, <2>2 DEF Elsewhere, WorkerTake, WorkerReply, Terminated, DisposeAgain, mainVars,
                         disposeVars
    <3>2. isDisposed /\ Undisturbed => UNCHANGED <<outbox, busy, inbox>>
      BY <2>2 DEF WorkerTake, WorkerReply, Terminated, DisposeAgain, workerVars, LoopInv,
                  NothingInFlight
    <3> QED  BY <1>1, <1>2, <3>1, <3>2 DEF LoopInv
  <2> QED  BY <1>10, <2>1, <2>2 DEF Elsewhere
<1> QED  BY <1>3, <1>4, <1>5, <1>6, <1>7, <1>9, <1>10 DEF TurnNext

\* What is known of AsyncSRT holds in every turn.
LEMMA TurnInvariant == TurnSpec => [](TypeOK /\ LockInv /\ AnswerInv /\ OnceInv)
<1>1. TypeOK /\ AnswerInv /\ OnceInv /\ [Next]_vars => OnceInv'
  BY OnceInvNext
<1>2. Spec => []OnceInv
  BY <1>1, OnceInvInit, TypeCorrect, AnswerInvariant, PTL DEF Spec
<1> QED  BY <1>2, TurnsAreSteps, TypeCorrect, LockInvariant, AnswerInvariant, PTL

\* It always holds.
LEMMA LoopInvariant == TurnSpec => []LoopInv
<1>1. TypeOK /\ LockInv /\ AnswerInv /\ OnceInv /\ LoopInv /\ [TurnNext]_turnVars => LoopInv'
  BY LoopInvNext
<1> QED  BY <1>1, TurnInvariant, LoopInvInit, PTL DEF TurnSpec

(* The error found by the continuation of a call that failed is that of the *)
(* result it was given, timeouts and refused messages included.             *)
THEOREM ErrorsAreOwn == TurnSpec => []ErrorIsOwn
<1>1. LoopInv => ErrorIsOwn
  BY ElementOfSeq DEF LoopInv, Ready, ErrorIsOwn
<1> QED  BY <1>1, LoopInvariant, PTL

-----------------------------------------------------------------------------
(* Refinement: AsyncSRT implements the loop of CallLoop.                    *)

State == IF isDisposed THEN "disposed" ELSE IF startedToDispose THEN "disposing" ELSE "live"
Asking == Each(Asked, Unanswered)
Answering == Each(Answered, outbox)
Continuing == Each(Continued, resumed)

\* The running continuation may end in the step, or go on.
GoingOn == {Continuing} \union (IF Continuing = <<>> THEN {} ELSE {Tail(Continuing)})

\* A step of the loop, or none.
LoopStep == [Loop!LoopTurn({Asked[c] : c \in Calls}, {Success, Failed})]_(Loop!loopVars)

\* A new instance is a new loop.
LEMMA ImplementsLoopInit == TurnInit => Loop!LoopInit
<1> SUFFICES ASSUME TurnInit  PROVE Loop!LoopInit
  OBVIOUS
<1>1. <<>> \in Seq(Calls)
  BY EmptySeq
<1>2. Unanswered = <<>> /\ outbox = <<>> /\ resumed = <<>>
  BY <1>1, ConcatEmptySeq DEF TurnInit, Init, Unanswered
<1>3. Asking = <<>> /\ Answering = <<>> /\ Continuing = <<>>
  BY <1>1, <1>2, EachElement DEF Asking, Answering, Continuing
<1>4. State = "live"
  BY DEF TurnInit, Init, State, isDisposed
<1> QED  BY <1>3, <1>4 DEF Loop!LoopInit, State, Asking, Answering, Continuing

\* The queues of the loop, and when nothing is in flight.
LEMMA LoopQueues ==
  ASSUME TypeOK, LoopInv
  PROVE  /\ Unanswered \in Seq(Calls) /\ outbox \in Seq(Calls) /\ resumed \in Seq(Calls)
         /\ Asking \in Seq(ImageOf(Asked)) /\ Answering \in Seq(ImageOf(Answered))
         /\ Continuing \in Seq(ImageOf(Continued))
         /\ Continuing = <<>> <=> resumed = <<>>
         /\ Answering \o Asking = <<>> <=> NothingInFlight
<1>1. /\ Unanswered \in Seq(Calls) /\ outbox \in Seq(Calls)
      /\ Unanswered = <<>> <=> busy = NoCall /\ inbox = <<>>
  <2>1. CASE busy = NoCall
    BY <2>1, ConcatEmptySeq DEF Unanswered, TypeOK
  <2>2. CASE busy # NoCall
    <3>1. <<busy>> \in Seq(Calls) /\ <<busy>> # <<>> /\ inbox \in Seq(Calls)
      BY <2>2 DEF TypeOK
    <3>2. Unanswered = <<busy>> \o inbox
      BY <2>2 DEF Unanswered
    <3> QED  BY <2>2, <3>1, <3>2, ConcatHeadTail, ConcatSeq DEF TypeOK
  <2> QED  BY <2>1, <2>2
<1>2. resumed \in Seq(Calls)
  <2>1. Ready \subseteq Calls
    BY DEF Ready
  <2> QED  BY <2>1, SeqLarger DEF LoopInv
<1>3. /\ Asking \in Seq(ImageOf(Asked)) /\ Answering \in Seq(ImageOf(Answered))
      /\ Continuing \in Seq(ImageOf(Continued))
      /\ Continuing = <<>> <=> resumed = <<>>
      /\ Asking = <<>> <=> Unanswered = <<>>
      /\ Answering = <<>> <=> outbox = <<>>
  BY <1>1, <1>2, EachElement DEF Asking, Answering, Continuing
<1>4. Answering \o Asking = <<>> <=> Answering = <<>> /\ Asking = <<>>
  <2> DEFINE S == ImageOf(Answered) \union ImageOf(Asked)
  <2>1. ImageOf(Answered) \subseteq S /\ ImageOf(Asked) \subseteq S
    OBVIOUS
  <2> HIDE DEF S
  <2>2. Answering \in Seq(S) /\ Asking \in Seq(S)
    BY <1>3, <2>1, SeqLarger
  <2>3. /\ Len(Answering \o Asking) = Len(Answering) + Len(Asking)
        /\ Answering \o Asking \in Seq(S)
    BY <2>2, ConcatProperties
  <2>4. Len(Answering) \in Nat /\ Len(Asking) \in Nat
    BY <2>2, LenProperties
  <2>5. Len(Answering \o Asking) = 0 <=> Len(Answering) = 0 /\ Len(Asking) = 0
    BY <2>3, <2>4
  <2> QED  BY <2>2, <2>3, <2>5, EmptySeq
<1> QED  BY <1>1, <1>2, <1>3, <1>4 DEF NothingInFlight

\* What goes on after a step is what went on before.
LEMMA GoesOn ==
  ASSUME TypeOK, LockInv, AnswerInv, OnceInv, LoopInv, Undisturbed, [Next]_vars,
         NEW rest \in Going
  PROVE  Each(Continued', rest) \in GoingOn
<1>1. /\ rest \in Seq(Ready) /\ Ready \subseteq Calls
      /\ \A c \in Ready : Continued'[c] = Continued[c]
  BY GoingReady, ReadyKept DEF Ready
<1>2. rest \in Seq(Calls) /\ \A i \in 1..Len(rest) : rest[i] \in Ready
  BY <1>1, SeqLarger, ElementOfSeq
<1>3. Each(Continued', rest) = Each(Continued, rest)
  BY <1>1, <1>2, EachSame
<1>4. Each(Continued, rest) \in GoingOn
  <2>1. CASE rest = resumed
    BY <2>1 DEF GoingOn, Continuing
  <2>2. CASE resumed # <<>> /\ rest = Tail(resumed)
    <3>1. Continuing # <<>> /\ resumed \in Seq(Calls)
      BY <2>2, LoopQueues
    <3>2. Each(Continued, rest) = Tail(Continuing)
      BY <2>2, <3>1, EachTail DEF Continuing
    <3> QED  BY <3>1, <3>2 DEF GoingOn
  <2> QED  BY <2>1, <2>2 DEF Going, Idle
<1> QED  BY <1>3, <1>4

\* The answers on their way are described as before.
LEMMA AnsweringKept ==
  ASSUME TypeOK, LockInv, AnswerInv, OnceInv, LoopInv, Undisturbed, [Next]_vars
  PROVE  /\ outbox' = outbox => Answering' = Answering
         /\ Each(Answered', outbox) = Answering
<1>1. Each(Answered', outbox) = Answering
  BY ReadyKept, EachSame DEF Answering, TypeOK
<1> QED  BY <1>1 DEF Answering

\* What a call is about never changes.
LEMMA AskedSame == Asked' = Asked
BY DEF Asked

\* A step that leaves the loop alone.
LEMMA LoopStutters ==
  ASSUME UNCHANGED <<State, Asking, Answering, Continuing>>
  PROVE  LoopStep
BY DEF LoopStep, Loop!loopVars, State, Asking, Answering, Continuing

\* A call that is posted.
LEMMA CallStep ==
  ASSUME TypeOK, LockInv, AnswerInv, OnceInv, LoopInv, Undisturbed, [Next]_vars,
         NEW c \in Calls, CallsLive(c)
  PROVE  LoopStep
<1>1. /\ State = "live" /\ State' = State
      /\ UNCHANGED <<outbox, busy>> /\ inbox' = Append(inbox, c)
  BY DEF CallsLive, CallPosted, State, isDisposed, disposeVars
<1>2. Continuing' \in GoingOn
  BY GoesOn DEF CallsLive, Continuing
<1>3. Answering' = Answering
  BY <1>1, AnsweringKept
<1>4. /\ Unanswered \in Seq(Calls) /\ Unanswered' = Append(Unanswered, c)
      /\ Asking \in Seq(ImageOf(Asked))
  <2>1. inbox \in Seq(Calls) /\ InWorker \in Seq(Calls)
    BY PipelineSeq DEF TypeOK
  <2>2. InWorker' = InWorker /\ Unanswered = InWorker \o inbox
    BY <1>1 DEF Unanswered, InWorker
  <2>3. Unanswered' = InWorker \o Append(inbox, c)
    BY <1>1, <2>2 DEF Unanswered, InWorker
  <2>4. InWorker \o Append(inbox, c) = Append(InWorker \o inbox, c)
    BY <2>1, ConcatAppend
  <2> QED  BY <2>2, <2>3, <2>4, LoopQueues
<1>5. Asking' = Append(Asking, Asked[c])
  BY <1>4, EachAppend, AskedSame DEF Asking
<1>6. Asking' = Asking \o <<Asked[c]>>
  BY <1>4, <1>5, AppendIsConcat DEF ImageOf
<1>7. \E rest \in GoingOn :
        /\ Asking' = Asking \o <<Asked[c]>>
        /\ Continuing' = rest
  BY <1>2, <1>6
<1>8. Loop!MakesCall({Asked[d] : d \in Calls})
  BY <1>1, <1>3, <1>7 DEF Loop!MakesCall, Loop!Posts, Loop!Going, Loop!Idle, GoingOn, State,
                         Asking, Answering, Continuing
<1> QED  BY <1>8 DEF LoopStep, Loop!LoopTurn

\* A call that throws: whoever made it goes on or ends.
LEMMA ThrowStep ==
  ASSUME TypeOK, LockInv, AnswerInv, OnceInv, LoopInv, Undisturbed, [Next]_vars,
         NEW c \in Calls, CallThrows(c)
  PROVE  LoopStep
<1>1. UNCHANGED <<State, outbox, busy, inbox>>
  BY DEF CallThrows, CallWithUndefinedArg, State, isDisposed, disposeVars, workerVars
<1>2. UNCHANGED <<Asking, Answering>>
  BY <1>1, AnsweringKept, AskedSame DEF Asking, Unanswered
<1>3. Continuing' \in GoingOn
  BY GoesOn DEF CallThrows, Continuing
<1>4. CASE Continuing' = Continuing
  BY <1>1, <1>2, <1>4, LoopStutters
<1>5. CASE Continuing # <<>> /\ Continuing' = Tail(Continuing)
  <2>1. Loop!Ends
    BY <1>1, <1>2, <1>5 DEF Loop!Ends, Loop!Idle, Loop!PostsNothing, State, Asking, Answering,
                            Continuing
  <2> QED  BY <2>1 DEF LoopStep, Loop!LoopTurn
<1> QED  BY <1>3, <1>4, <1>5 DEF GoingOn

\* A call that is made during or after the disposal.
LEMMA VainCallStep ==
  ASSUME TypeOK, LockInv, AnswerInv, OnceInv, LoopInv, Undisturbed, [Next]_vars,
         Undisturbed', NEW c \in Calls, CallsInVain(c)
  PROVE  LoopStep
<1> DEFINE given == IF State = "disposing" THEN Undefined ELSE Rejected
           r == [k |-> c, socket |-> c, result |-> given]
<1>1. /\ State # "live" /\ UNCHANGED <<State, outbox, busy, inbox>>
      /\ promise' = [promise EXCEPT ![c] = IF State = "disposing" THEN "nothing" ELSE "refused"]
  <2>1. ~CallNotCloned(c)
    BY DEF CallNotCloned, Return, Undisturbed, TypeOK
  <2> QED  BY <2>1 DEF CallsInVain, CallWhileDisposing, CallAfterDispose, Return, State,
                       isDisposed, disposeVars, workerVars
<1>2. UNCHANGED <<Asking, Answering>>
  BY <1>1, AnsweringKept, AskedSame DEF Asking, Unanswered
<1>3. Continued'[c] = r
  <2>1. promise'[c] = IF State = "disposing" THEN "nothing" ELSE "refused"
    BY <1>1 DEF TypeOK
  <2>2. Given(c)' = given
    BY <2>1 DEF Given
  <2> HIDE DEF given
  <2> QED  BY <2>2 DEF Continued
<1>4. PICK rest \in Going : resumed' = Append(rest, c)
  BY DEF CallsInVain
<1>5. rest \in Seq(Calls)
  <2>1. Ready \subseteq Calls
    BY DEF Ready
  <2> QED  BY <2>1, GoingReady, SeqLarger
<1> DEFINE on == Each(Continued', rest)
<1>6. on \in GoingOn /\ on \in Seq(ImageOf(Continued'))
  BY <1>5, GoesOn, EachElement
<1>7. Continuing' = Append(on, Continued'[c])
  BY <1>4, <1>5, EachAppend DEF Continuing
<1>8. Continued'[c] \in ImageOf(Continued')
  BY DEF ImageOf
<1> HIDE DEF on
<1>9. Continuing' = on \o <<r>>
  BY <1>3, <1>6, <1>7, <1>8, AppendIsConcat
<1> DEFINE new == [i \in 1..Len(<<Asked[c]>>) |->
                     Loop!Resumption(<<Asked[c]>>[i].k, <<Asked[c]>>[i].socket, given)]
<1>10. new = <<r>>
  <2>1. Len(<<Asked[c]>>) = 1 /\ <<Asked[c]>>[1] = Asked[c]
    OBVIOUS
  <2>2. Asked[c].k = c /\ Asked[c].socket = c
    BY DEF Asked
  <2>3. new = [i \in 1..1 |-> r]
    BY <2>1, <2>2 DEF Loop!Resumption
  <2> QED  BY <2>3
<1>11. Continuing' = on \o new
  BY <1>9, <1>10
<1>12. Loop!Posts(<<Asked[c]>>, on)
  BY <1>1, <1>2, <1>11 DEF Loop!Posts, State, Asking, Continuing
<1>13. Loop!MakesCall({Asked[d] : d \in Calls})
  BY <1>1, <1>2, <1>6, <1>12 DEF Loop!MakesCall, Loop!Going, Loop!Idle, GoingOn, State,
                                Answering, Continuing
<1> QED  BY <1>13 DEF LoopStep, Loop!LoopTurn

\* A continuation that ends.
LEMMA ReturnStep ==
  ASSUME TypeOK, LockInv, AnswerInv, OnceInv, LoopInv, Undisturbed, [Next]_vars,
         Returns
  PROVE  LoopStep
<1>1. UNCHANGED <<State, Asking, Answering>>
  BY AnsweringKept, AskedSame
  DEF Returns, vars, disposeVars, workerVars, State, Asking, Unanswered, isDisposed
<1>2. Continued' = Continued
  BY DEF Returns, vars, mainVars, workerVars, Continued, Given, Outcome
<1>3. Continuing # <<>> /\ Continuing' = Tail(Continuing)
  BY <1>2, LoopQueues, EachTail DEF Returns, Idle, Continuing
<1>4. Loop!Ends
  BY <1>1, <1>3 DEF Loop!Ends, Loop!Idle, Loop!PostsNothing, State, Asking, Answering, Continuing
<1> QED  BY <1>4 DEF LoopStep, Loop!LoopTurn

\* The worker takes a message: nobody has been answered.
LEMMA TakeStep ==
  ASSUME TypeOK, LockInv, AnswerInv, OnceInv, LoopInv, Undisturbed, [Next]_vars,
         WorkerTake, UNCHANGED resumed
  PROVE  LoopStep
<1>1. /\ UNCHANGED <<State, outbox, promise, answer, failed>>
      /\ inbox # <<>> /\ busy = NoCall /\ busy' = Head(inbox) /\ inbox' = Tail(inbox)
  BY DEF WorkerTake, mainVars, disposeVars, State, isDisposed
<1>2. Head(inbox) \in Calls /\ <<>> \in Seq(Calls)
  BY <1>1, HeadTailProperties, EmptySeq DEF TypeOK
<1>3. /\ Unanswered = <<>> \o inbox
      /\ Unanswered' = (<<>> \o <<Head(inbox)>>) \o Tail(inbox)
  <2>1. <<Head(inbox)>> \in Seq(Calls)
    BY <1>2
  <2>2. <<>> \o <<Head(inbox)>> = <<Head(inbox)>>
    BY <2>1, ConcatEmptySeq
  <2> QED  BY <1>1, <1>2, <2>2, CallsAssumption DEF Unanswered
<1>4. Unanswered' = Unanswered
  BY <1>1, <1>2, <1>3, MoveHead DEF TypeOK
<1>5. Continued' = Continued
  BY <1>1 DEF Continued, Given, Outcome
<1> QED  BY <1>1, <1>4, <1>5, AskedSame, AnsweringKept, LoopStutters DEF Asking, Continuing

\* The worker answers the call it performs.
LEMMA ReplyStep ==
  ASSUME TypeOK, LockInv, AnswerInv, OnceInv, LoopInv, Undisturbed, [Next]_vars,
         NEW threw \in BOOLEAN, WorkerReply(threw), UNCHANGED resumed
  PROVE  LoopStep
<1>1. /\ busy \in Calls /\ busy # NoCall /\ ~isDisposed /\ thread = "running"
      /\ promise[busy] = "pending"
  BY BusyPending, InFlightPending DEF WorkerReply
<1>2. /\ UNCHANGED <<State, inbox, promise, answer>> /\ busy' = NoCall
      /\ outbox' = Append(outbox, busy)
  BY <1>1 DEF WorkerReply, mainVars, disposeVars, State, isDisposed
<1>3. Unanswered = <<busy>> \o inbox /\ <<busy>> \in Seq(Calls) /\ inbox \in Seq(Calls)
  BY <1>1 DEF Unanswered, TypeOK
<1>4. Unanswered # <<>> /\ Head(Unanswered) = busy /\ Unanswered' = Tail(Unanswered)
  <2>1. Unanswered # <<>> /\ Head(Unanswered) = busy /\ Tail(Unanswered) = <<>> \o inbox
    BY <1>3, ConcatHeadTail
  <2>2. Unanswered' = <<>> \o inbox
    BY <1>2 DEF Unanswered
  <2> QED  BY <2>1, <2>2
<1>5. /\ Asking # <<>> /\ Head(Asking) = Asked[busy] /\ Asking' = Tail(Asking)
  BY <1>4, LoopQueues, EachElement, EachTail, AskedSame DEF Asking
<1>6. Answering' = Append(Answering, Answered'[busy])
  BY <1>1, <1>2, AnsweringKept, EachAppend DEF Answering, TypeOK
<1> DEFINE result == IF busy \in failed' THEN Failed ELSE Success
<1>7. /\ result \in {Success, Failed}
      /\ Answered'[busy] = [k |-> busy, socket |-> busy, result |-> result]
  <2>1. Answered' = [d \in Calls |-> [k |-> d, socket |-> d,
                                     result |-> IF d \in failed' THEN Failed ELSE Success]]
    BY DEF Answered, Outcome
  <2> QED  BY <1>1, <2>1
<1> HIDE DEF result
<1>8. Head(Asking).k = busy /\ Head(Asking).socket = busy
  BY <1>1, <1>5 DEF Asked
<1>9. Continuing' = Continuing
  <2>1. resumed \in Seq(Ready) /\ \A c \in Ready : Continued'[c] = Continued[c]
    BY ReadyKept DEF LoopInv
  <2>2. \A i \in 1..Len(resumed) : resumed[i] \in Ready
    BY <2>1, ElementOfSeq
  <2> QED  BY <2>1, <2>2, LoopQueues, EachSame DEF Continuing
<1>10. Answering' = Append(Answering, Loop!Resumption(Head(Asking).k, Head(Asking).socket, result))
  BY <1>6, <1>7, <1>8 DEF Loop!Resumption
<1>11. Loop!Performed(result)
  BY <1>2, <1>5, <1>9, <1>10 DEF Loop!Performed, State, Asking, Answering, Continuing
<1>12. Loop!WorkerPerformsOne({Success, Failed})
  BY <1>5, <1>7, <1>11 DEF Loop!WorkerPerformsOne, Asking
<1> QED  BY <1>12 DEF LoopStep, Loop!LoopTurn

\* An answer arrives, and the continuation of its call is the next to run.
LEMMA AnswerStep ==
  ASSUME TypeOK, LockInv, AnswerInv, OnceInv, LoopInv, Undisturbed, [Next]_vars,
         MessageArrives
  PROVE  LoopStep
<1> DEFINE head == Head(workCbQueue)
<1>0. /\ head \in Calls /\ head = Head(outbox) /\ promise[head] = "pending"
      /\ ~isDisposed /\ workCbQueue # <<>>
  <2>1. OnWorkerMessage /\ outbox # <<>> /\ Unposted = {}
    BY AnswerResolves DEF MessageArrives, Undisturbed, Unposted
  <2>2. ~isDisposed
    BY <2>1 DEF LoopInv, NothingInFlight
  <2>3. workCbQueue # <<>> /\ head = Head(outbox) /\ head \in Calls
    BY <2>1, <2>2, HeadsMatch DEF AnswerInv
  <2>4. promise[head] = "pending"
    BY <2>2, <2>3, TailOccurs, InFlightPending DEF TypeOK, LockInv
  <2> QED  BY <2>2, <2>3, <2>4
<1>a. PICK c \in Calls : c = head
  BY <1>0
<1>1. /\ resumed' = <<c>> /\ resumed = <<>> /\ c = Head(outbox)
      /\ outbox # <<>> /\ outbox' = Tail(outbox)
      /\ promise' = [promise EXCEPT ![c] = "resolved"]
      /\ answer' = [answer EXCEPT ![c] = c]
      /\ UNCHANGED <<disposeVars, inbox, busy, thread, executed, failed>>
  <2>1. resumed' = <<c>>
    BY <1>0, <1>a DEF MessageArrives, ShiftedCallback
  <2>2. resumed' # <<>>
    BY <2>1
  <2> QED  BY <1>0, <1>a, <2>1, <2>2, AnswerResolves DEF ShiftedCallback
<1>2. Answered' = Answered
  BY <1>1 DEF Answered, Outcome
<1>3. Continuing = <<>> /\ UNCHANGED <<State, Asking>>
  BY <1>1, LoopQueues, AskedSame DEF State, isDisposed, disposeVars, Asking, Unanswered
<1>4. Answering # <<>> /\ Head(Answering) = Answered[c] /\ Answering' = Tail(Answering)
  BY <1>1, <1>2, LoopQueues, EachElement, EachTail DEF Answering
<1>5. Continued'[c] = Answered[c]
  <2>1. promise'[c] = "resolved" /\ answer'[c] = c
    BY <1>1 DEF TypeOK
  <2>2. Given(c)' = Outcome(c)
    BY <1>1, <2>1 DEF Given, Outcome
  <2> QED  BY <1>1, <2>2 DEF Continued, Answered
<1>6. Continuing' = <<Answered[c]>>
  BY <1>1, <1>5 DEF Continuing, Each
<1>7. Loop!AnswerArrives
  BY <1>3, <1>4, <1>6 DEF Loop!AnswerArrives, Loop!Idle, State, Asking, Answering, Continuing
<1> QED  BY <1>7 DEF LoopStep, Loop!LoopTurn

\* A disposal that starts, with or without calls to wait for.
LEMMA DisposeStep ==
  ASSUME TypeOK, LockInv, AnswerInv, OnceInv, LoopInv, Undisturbed, [Next]_vars,
         Disposes
  PROVE  LoopStep
<1>1. /\ ~isDisposed /\ ~startedToDispose /\ startedToDispose' = TRUE
      /\ UNCHANGED <<inbox, busy, outbox>>
      /\ isDisposed' <=> ~(0 < lockLevel)
  BY DEF Disposes, Dispose, Detach, AnswerInv, Running, isDisposed, workerVars
<1>2. State = "live" /\ UNCHANGED <<Asking, Answering>>
  BY <1>1, AnsweringKept, AskedSame DEF State, Asking, Unanswered
<1>3. State' = IF Answering \o Asking = <<>> THEN "disposed" ELSE "disposing"
  <2>1. lockLevel \in Int /\ (Answering \o Asking = <<>> <=> lockLevel <= 0)
    BY <1>1, InFlightPending, LoopQueues DEF TypeOK
  <2>2. isDisposed' <=> Answering \o Asking = <<>>
    BY <1>1, <2>1
  <2> QED  BY <1>1, <2>2 DEF State
<1>4. Continuing' \in GoingOn
  BY GoesOn DEF Disposes, Continuing
<1>5. Loop!DisposeStarts
  BY <1>2, <1>3, <1>4 DEF Loop!DisposeStarts, Loop!Going, Loop!Idle, Loop!InFlight, GoingOn,
                         State, Asking, Answering, Continuing
<1> QED  BY <1>5 DEF LoopStep, Loop!LoopTurn

\* A disposal that has waited for the calls in flight.
LEMMA DisposeEndStep ==
  ASSUME TypeOK, LockInv, AnswerInv, OnceInv, LoopInv, Undisturbed, [Next]_vars,
         Idle, DisposeProceed, UNCHANGED resumed
  PROVE  LoopStep
<1>1. /\ ~isDisposed /\ startedToDispose /\ lockLevel <= 0 /\ isDisposed'
      /\ UNCHANGED <<promise, answer, inbox, busy, outbox, failed>>
  BY DEF DisposeProceed, Detach, AnswerInv, Running, isDisposed
<1>2. /\ State = "disposing" /\ State' = "disposed" /\ Continuing = <<>>
      /\ Answering \o Asking = <<>>
  BY <1>1, InFlightPending, LoopQueues DEF State, Idle
<1>3. UNCHANGED <<Asking, Answering, Continuing>>
  BY <1>1 DEF Asking, Answering, Continuing, Asked, Answered, Continued, Given, Outcome, Unanswered
<1>4. Loop!DisposeEnds
  BY <1>2, <1>3 DEF Loop!DisposeEnds, Loop!Idle, Loop!InFlight, State, Asking, Answering, Continuing
<1> QED  BY <1>4 DEF LoopStep, Loop!LoopTurn

\* What the loop does not see.
LEMMA UnseenStep ==
  ASSUME TypeOK, LockInv, AnswerInv, LoopInv, Undisturbed,
         UNCHANGED turnVars \/ ((Terminated \/ DisposeAgain) /\ UNCHANGED resumed)
  PROVE  LoopStep
<1>1. UNCHANGED <<promise, answer, inbox, busy, outbox, failed, resumed, State>>
  <2>1. CASE Terminated
    <3>1. isDisposed
      BY <2>1 DEF Terminated, AnswerInv, Running
    <3>2. inbox = <<>> /\ inbox' = <<>>
      BY <2>1, <3>1 DEF Terminated, LoopInv, NothingInFlight
    <3>3. UNCHANGED <<promise, answer, busy, outbox, failed, resumed>>
      BY <2>1 DEF Terminated, mainVars, turnVars
    <3>4. UNCHANGED State
      BY <2>1 DEF Terminated, disposeVars, mainVars, State, isDisposed
    <3> QED  BY <3>2, <3>3, <3>4
  <2> QED  BY <2>1 DEF DisposeAgain, turnVars, vars, mainVars, disposeVars, workerVars, State,
                     isDisposed
<1>2. UNCHANGED <<Asking, Answering, Continuing>>
  BY <1>1 DEF Asking, Answering, Continuing, Asked, Answered, Continued, Given, Outcome, Unanswered
<1> QED  BY <1>1, <1>2, LoopStutters

(* AsyncSRT is the loop that SRTServer, SRTSocketAsync and                  *)
(* AsyncReaderWriter are modelled on, for every set of calls.               *)
THEOREM LoopRefinement == TurnSpec => ImplementsLoop
<1>1. ASSUME TypeOK, LockInv, AnswerInv, OnceInv, LoopInv, [TurnNext]_turnVars, Undisturbed'
      PROVE  LoopStep
  <2>1. [Next]_vars /\ Undisturbed
    BY <1>1, TurnIsStep, StaysDisturbed
  <2>2. CASE \E c \in Calls : CallsLive(c) \/ CallThrows(c) \/ CallsInVain(c)
    BY <1>1, <2>1, <2>2, CallStep, ThrowStep, VainCallStep
  <2>3. ASSUME NEW c \in Calls, TimerFires(c)  PROVE FALSE
    <3>1. promise[c] = "pending" /\ c \in timers
      BY <1>1, <2>3 DEF TimerFires, Timeout, LockInv, TimersPending
    <3>2. promise'[c] = "timedOut"
      BY <1>1, <2>3, <3>1 DEF TimerFires, Timeout, TypeOK
    <3> QED  BY <1>1, <3>2 DEF Undisturbed
  <2>4. CASE Returns \/ MessageArrives \/ Disposes
    BY <1>1, <2>1, <2>4, ReturnStep, AnswerStep, DisposeStep
  <2>5. CASE Elsewhere
    BY <1>1, <2>1, <2>5, TakeStep, ReplyStep, DisposeEndStep, UnseenStep DEF Elsewhere
  <2> QED  BY <1>1, <2>1, <2>2, <2>3, <2>4, <2>5, UnseenStep DEF TurnNext
<1> DEFINE Turn == Undisturbed' => Loop!LoopTurn({Asked[c] : c \in Calls}, {Success, Failed})
<1>2. TypeOK /\ LockInv /\ AnswerInv /\ OnceInv /\ LoopInv /\ [TurnNext]_turnVars
        => [Turn]_(Loop!loopVars)
  BY <1>1 DEF LoopStep
<1> QED  BY <1>2, TurnInvariant, ImplementsLoopInit, LoopInvariant, PTL DEF TurnSpec, ImplementsLoop

=============================================================================
