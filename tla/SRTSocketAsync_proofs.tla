------------------------ MODULE SRTSocketAsync_proofs ------------------------
(***************************************************************************)
(* What one SRTSocketAsync guarantees for any number of create() calls and *)
(* of file descriptors.                                                    *)
(***************************************************************************)
EXTENDS SRTSocketAsync, SequenceTheorems, TLAPS

-----------------------------------------------------------------------------
(* What the queues of the loop hold.                                        *)

Kinds == Creates \union {"flagged", "connected", "transferred", "closed"}
Sockets == Fds \union {Null, Failed}

\* A call made by a method of the class.
CallSet == {c \in [op : {"createSocket", "setSockFlag", "connect", "transfer", "close"},
                   socket : Sockets, k : Kinds] :
              /\ c.k \in Creates <=> c.op = "createSocket"
              /\ c.k = "closed" => c.op = "close"}

\* What the worker answers to it.
AnswerSet == {a \in [k : Kinds, socket : Sockets, result : Fds \union {Success, Failed}] :
                a.k \in Creates => a.result \in Fds \union {Failed}}

\* What AsyncSRT gives by itself during and after its disposal.
LateSet == [k : {"transferred"}, socket : Sockets, result : {Undefined, Rejected}]

LoopTypeOK ==
    /\ asyncSrt \in {"live", "disposing", "disposed"}
    /\ calls \in Seq(CallSet)
    /\ answers \in Seq(AnswerSet)
    /\ resumed \in Seq(AnswerSet \union LateSet)

Transfers(q) == \A i \in 1..Len(q) : q[i].k = "transferred"
Without(q) == \A i \in 1..Len(q) : q[i].k # "closed"
Ordered(q) == \A i, j \in 1..Len(q) : i < j /\ q[i].k = "closed" => q[j].k = "transferred"

(* NothingBehindClose, queue by queue.  It rests on what happens on the     *)
(* main thread: a close is only in flight during a disposal, and when it    *)
(* has been answered, transfers alone are left.                             *)
CloseInv ==
    /\ Ordered(answers)
    /\ Ordered(calls)
    /\ Without(answers) \/ Transfers(calls)
    /\ Without(resumed) \/ (Transfers(answers) /\ Transfers(calls))
    /\ asyncSrt # "live" => /\ startedToDispose
                            /\ Transfers(answers)
                            /\ Transfers(calls)
                            /\ Transfers(resumed)
    /\ ~startedToDispose => Without(calls) /\ Without(answers) /\ Without(resumed)
    /\ Len(resumed) <= 1

\* Appending to a queue.
LEMMA AppendKinds ==
  ASSUME NEW S, NEW q \in Seq(S), NEW x \in S
  PROVE  /\ Transfers(q) /\ x.k = "transferred" => Transfers(Append(q, x))
         /\ Without(q) /\ x.k # "closed" => Without(Append(q, x))
         /\ Ordered(q) /\ (Without(q) \/ x.k = "transferred") => Ordered(Append(q, x))
<1>1. /\ Len(q) \in Nat /\ Len(Append(q, x)) = Len(q) + 1
      /\ \A i \in 1..Len(q) : Append(q, x)[i] = q[i]
      /\ Append(q, x)[Len(q) + 1] = x
  BY AppendProperties, LenProperties
<1>2. \A i \in 1..(Len(q) + 1) : i \in 1..Len(q) \/ i = Len(q) + 1
  BY <1>1
<1> DEFINE a == Append(q, x)
<1> HIDE DEF a
<1>3. /\ Len(a) = Len(q) + 1 /\ a[Len(q) + 1] = x
      /\ \A i \in 1..Len(q) : a[i] = q[i]
  BY <1>1 DEF a
<1>4. Transfers(q) /\ x.k = "transferred" => Transfers(a)
  BY <1>2, <1>3 DEF Transfers
<1>5. Without(q) /\ x.k # "closed" => Without(a)
  BY <1>2, <1>3 DEF Without
<1>6. Ordered(q) /\ (Without(q) \/ x.k = "transferred") => Ordered(a)
  BY <1>1, <1>2, <1>3 DEF Without, Ordered
<1> QED  BY <1>4, <1>5, <1>6 DEF a

\* Taking from a queue.
LEMMA TakeKinds ==
  ASSUME NEW S, NEW q \in Seq(S), q # <<>>
  PROVE  /\ Head(q) \in S /\ Tail(q) \in Seq(S)
         /\ Transfers(q) => Head(q).k = "transferred" /\ Transfers(Tail(q))
         /\ Without(q) => Head(q).k # "closed" /\ Without(Tail(q))
         /\ Ordered(q) => Ordered(Tail(q)) /\ (Head(q).k = "closed" => Transfers(Tail(q)))
<1>1. /\ Len(q) \in Nat \ {0} /\ Len(Tail(q)) = Len(q) - 1 /\ Head(q) = q[1]
      /\ \A i \in 1..Len(Tail(q)) : Tail(q)[i] = q[i + 1]
      /\ Head(q) \in S /\ Tail(q) \in Seq(S)
  BY HeadTailProperties, LenProperties, EmptySeq
<1> DEFINE t == Tail(q)
<1> HIDE DEF t
<1>2. Len(t) = Len(q) - 1 /\ \A i \in 1..Len(t) : t[i] = q[i + 1]
  BY <1>1 DEF t
<1>3. Transfers(q) => q[1].k = "transferred" /\ Transfers(t)
  BY <1>1, <1>2 DEF Transfers
<1>4. Without(q) => q[1].k # "closed" /\ Without(t)
  BY <1>1, <1>2 DEF Without
<1>5. Ordered(q) => Ordered(t) /\ (q[1].k = "closed" => Transfers(t))
  BY <1>1, <1>2 DEF Ordered, Transfers
<1> QED  BY <1>1, <1>3, <1>4, <1>5 DEF t

\* Queues of no or one element.
LEMMA ShortKinds ==
  /\ Transfers(<<>>) /\ Without(<<>>) /\ Ordered(<<>>)
  /\ \A x : /\ x.k = "transferred" => Transfers(<<x>>)
            /\ x.k # "closed" => Without(<<x>>)
            /\ Len(<<x>>) = 1
BY EmptySeq DEF Transfers, Without, Ordered

\* A queue of transfers holds no close.
LEMMA TransfersOnly == \A q : Transfers(q) => Without(q) /\ Ordered(q)
BY DEF Transfers, Without, Ordered

\* A call made while nothing is resumed: queued, or answered by AsyncSRT itself.
LEMMA PostOne ==
  ASSUME NEW c, Posts(<<c>>, resumed), resumed = <<>>, calls \in Seq(CallSet), c \in CallSet
  PROVE  IF asyncSrt = "live"
           THEN calls' = Append(calls, c) /\ resumed' = <<>>
           ELSE /\ calls' = calls
                /\ resumed' = <<Resumption(c.k, c.socket,
                                  IF asyncSrt = "disposing" THEN Undefined ELSE Rejected)>>
<1>1. CASE asyncSrt = "live"
  BY <1>1, AppendIsConcat DEF Posts
<1>2. CASE asyncSrt # "live"
  <2> DEFINE r == IF asyncSrt = "disposing" THEN Undefined ELSE Rejected
             f == [i \in 1..Len(<<c>>) |-> Resumption(<<c>>[i].k, <<c>>[i].socket, r)]
  <2>1. f = <<Resumption(c.k, c.socket, r)>>
    OBVIOUS
  <2>2. <<>> \o f = f
    <3>1. f \in Seq({Resumption(c.k, c.socket, r)})
      BY <2>1
    <3> QED  BY <3>1, ConcatEmptySeq
  <2> QED  BY <1>2, <2>1, <2>2 DEF Posts
<1> QED  BY <1>1, <1>2

\* Two calls of setSocketFlags(), which it only makes while the AsyncSRT is live.
LEMMA PostTwo ==
  ASSUME NEW c, Posts(<<c, c>>, resumed), asyncSrt = "live", calls \in Seq(CallSet), c \in CallSet
  PROVE  calls' = Append(Append(calls, c), c) /\ resumed' = resumed
<1>1. <<c>> \in Seq(CallSet) /\ <<c>> \o <<c>> = <<c, c>>
  <2>1. <<c>> \in Seq(CallSet)
    OBVIOUS
  <2>2. <<c>> \o <<c>> = Append(<<c>>, c)
    BY <2>1, AppendIsConcat
  <2>3. Append(<<c>>, c) = <<c, c>>
    <3>1. /\ Append(<<c>>, c) \in Seq(CallSet) /\ Len(Append(<<c>>, c)) = 2
          /\ Append(<<c>>, c)[1] = c /\ Append(<<c>>, c)[2] = c
      BY <2>1, AppendProperties
    <3>2. <<c, c>> \in Seq(CallSet) /\ Len(<<c, c>>) = 2 /\ <<c, c>>[1] = c /\ <<c, c>>[2] = c
      OBVIOUS
    <3>3. \A i \in 1..2 : Append(<<c>>, c)[i] = <<c, c>>[i]
      BY <3>1, <3>2
    <3> QED  BY <3>1, <3>2, <3>3, SeqEqual
  <2> QED  BY <2>1, <2>2, <2>3
<1>2. calls \o <<c, c>> = (calls \o <<c>>) \o <<c>>
  BY <1>1, ConcatAssociative
<1>3. calls \o <<c>> = Append(calls, c) /\ Append(calls, c) \in Seq(CallSet)
  BY AppendIsConcat, AppendProperties
<1>4. (calls \o <<c>>) \o <<c>> = Append(Append(calls, c), c)
  BY <1>3, AppendIsConcat
<1> QED  BY <1>2, <1>4 DEF Posts

-----------------------------------------------------------------------------
(* What a method does to the loop.                                          *)

\* A call keeps the queues in order if it is a transfer, or made before dispose().
LEMMA PostKeeps ==
  ASSUME LoopTypeOK, CloseInv, Idle, UNCHANGED <<asyncSrt, answers>>,
         NEW c \in CallSet, Posts(<<c>>, resumed),
         c.k = "transferred" \/ ~startedToDispose,
         startedToDispose \/ c.k = "closed" => startedToDispose'
  PROVE  LoopTypeOK' /\ CloseInv'
<1> USE DEF LoopTypeOK, CloseInv
<1>1. resumed = <<>> /\ calls \in Seq(CallSet)
  BY DEF Idle
<1>2. CASE asyncSrt = "live"
  <2>1. calls' = Append(calls, c) /\ resumed' = <<>>
    BY <1>1, <1>2, PostOne
  <2>2. LoopTypeOK'
    BY <2>1, AppendProperties, EmptySeq
  <2>3. Ordered(calls') /\ (Without(answers) \/ Transfers(calls'))
    BY <1>1, <2>1, AppendKinds
  <2>4. ~startedToDispose' => Without(calls') /\ Without(answers)
    BY <1>1, <2>1, AppendKinds
  <2> QED  BY <1>2, <2>1, <2>2, <2>3, <2>4, ShortKinds, EmptySeq
<1>3. CASE asyncSrt # "live"
  <2>1. startedToDispose /\ c.k = "transferred"
    BY <1>3
  <2> DEFINE r == Resumption(c.k, c.socket, IF asyncSrt = "disposing" THEN Undefined ELSE Rejected)
  <2>2. calls' = calls /\ resumed' = <<r>>
    BY <1>1, <1>3, PostOne
  <2>3. r.k = "transferred" /\ r \in LateSet
    BY <2>1 DEF Resumption, CallSet, LateSet
  <2> HIDE DEF r
  <2>4. LoopTypeOK'
    BY <2>2, <2>3
  <2> QED  BY <1>3, <2>1, <2>2, <2>3, <2>4, ShortKinds
<1> QED  BY <1>2, <1>3

\* So do the two calls of setSocketFlags().
LEMMA PostTwoKeeps ==
  ASSUME LoopTypeOK, CloseInv, Idle, UNCHANGED <<asyncSrt, answers, startedToDispose>>,
         NEW c \in CallSet, Posts(<<c, c>>, resumed), c.k # "closed", ~startedToDispose
  PROVE  LoopTypeOK' /\ CloseInv'
<1> USE DEF LoopTypeOK, CloseInv
<1>1. calls' = Append(Append(calls, c), c) /\ resumed' = resumed /\ asyncSrt = "live"
  BY PostTwo
<1>2. Append(calls, c) \in Seq(CallSet) /\ calls' \in Seq(CallSet)
  BY <1>1, AppendProperties
<1>3. Without(Append(calls, c)) /\ Ordered(Append(calls, c))
  BY AppendKinds
<1>4. Without(calls') /\ Ordered(calls')
  BY <1>1, <1>2, <1>3, AppendKinds
<1> QED  BY <1>1, <1>2, <1>4

\* A method or a continuation that makes no call.
LEMMA NoPostKeeps ==
  ASSUME LoopTypeOK, CloseInv, UNCHANGED <<asyncSrt, answers, startedToDispose>>,
         \/ PostsNothing(resumed)
         \/ resumed # <<>> /\ PostsNothing(Rest)
  PROVE  LoopTypeOK' /\ CloseInv'
<1> USE DEF LoopTypeOK, CloseInv, PostsNothing
<1>1. CASE PostsNothing(resumed)
  BY <1>1
<1>2. CASE resumed # <<>> /\ PostsNothing(Rest)
  <2>1. /\ Tail(resumed) \in Seq(AnswerSet \union LateSet)
        /\ Len(Tail(resumed)) = Len(resumed) - 1 /\ Len(resumed) \in Nat
    BY <1>2, HeadTailProperties, LenProperties
  <2>2. /\ Transfers(resumed) => Transfers(Tail(resumed))
        /\ Without(resumed) => Without(Tail(resumed))
    BY <1>2, TakeKinds
  <2>3. resumed' = Tail(resumed) /\ UNCHANGED <<asyncSrt, calls, answers, startedToDispose>>
    BY <1>2 DEF Rest
  <2>4. LoopTypeOK'
    BY <2>1, <2>3
  <2>5. Len(resumed') <= 1
    <3>1. Len(resumed) <= 1
      OBVIOUS
    <3>2. Len(resumed') = Len(resumed) - 1 /\ Len(resumed) \in Nat
      BY <2>1, <2>3
    <3> QED  BY <3>1, <3>2
  <2> QED  BY <2>2, <2>3, <2>4, <2>5
<1> QED  BY <1>1, <1>2

\* What resumes, while it is the only one.
LEMMA Resuming ==
  ASSUME LoopTypeOK, CloseInv, resumed # <<>>
  PROVE  /\ Head(resumed) \in AnswerSet \union LateSet
         /\ Tail(resumed) = <<>>
         /\ Transfers(resumed) => Head(resumed).k = "transferred"
         /\ Without(resumed) => Head(resumed).k # "closed"
<1>1. /\ Head(resumed) \in AnswerSet \union LateSet
      /\ Transfers(resumed) => Head(resumed).k = "transferred"
      /\ Without(resumed) => Head(resumed).k # "closed"
  BY TakeKinds DEF LoopTypeOK
<1>2. Len(Tail(resumed)) = 0 /\ Tail(resumed) \in Seq(AnswerSet \union LateSet)
  <2>1. Len(resumed) \in Nat /\ Len(resumed) # 0 /\ Len(resumed) <= 1
    BY LenProperties, EmptySeq DEF LoopTypeOK, CloseInv
  <2>2. Len(Tail(resumed)) = Len(resumed) - 1 /\ Tail(resumed) \in Seq(AnswerSet \union LateSet)
    BY HeadTailProperties DEF LoopTypeOK
  <2> QED  BY <2>1, <2>2
<1> QED  BY <1>1, <1>2, EmptySeq

\* Performing a call moves it from one queue to the next.
LEMMA PerformKeeps ==
  ASSUME LoopTypeOK, CloseInv, WorkerPerforms
  PROVE  LoopTypeOK' /\ CloseInv'
<1> USE DEF LoopTypeOK, CloseInv
<1> DEFINE c == Head(calls)
<1>1. PICK result \in Fds \union {Success, Failed} : Perform(c, result) /\ Performed(result)
  BY DEF WorkerPerforms
<1>2. calls # <<>> /\ UNCHANGED <<asyncSrt, resumed, startedToDispose>>
  BY DEF WorkerPerforms, Performed, objectVars
<1> DEFINE a == Resumption(c.k, c.socket, result)
<1>3. calls' = Tail(calls) /\ answers' = Append(answers, a)
  BY <1>1 DEF Performed
<1>4. /\ c \in CallSet /\ Tail(calls) \in Seq(CallSet)
      /\ Transfers(calls) => c.k = "transferred" /\ Transfers(Tail(calls))
      /\ Without(calls) => c.k # "closed" /\ Without(Tail(calls))
      /\ Ordered(Tail(calls)) /\ (c.k = "closed" => Transfers(Tail(calls)))
  BY <1>2, TakeKinds
<1>5. a \in AnswerSet /\ a.k = c.k
  <2>1. c.k \in Creates => result \in Fds \union {Failed}
    BY <1>1, <1>4 DEF CallSet, Perform, CreateSocket
  <2> QED  BY <1>4, <2>1 DEF Resumption, CallSet, AnswerSet
<1> HIDE DEF a, c
<1>6. LoopTypeOK'
  BY <1>2, <1>3, <1>4, <1>5, AppendProperties
<1>7. /\ Transfers(answers) /\ a.k = "transferred" => Transfers(answers')
      /\ Without(answers) /\ a.k # "closed" => Without(answers')
      /\ Ordered(answers) /\ (Without(answers) \/ a.k = "transferred") => Ordered(answers')
  BY <1>3, <1>5, AppendKinds
<1>8. Ordered(answers') /\ Ordered(calls')
  BY <1>3, <1>4, <1>5, <1>7
<1>9. Without(answers') \/ Transfers(calls')
  BY <1>3, <1>4, <1>5, <1>7
<1> QED  BY <1>2, <1>3, <1>4, <1>5, <1>6, <1>7, <1>8, <1>9

\* The next answer resumes its continuation.
LEMMA AnswerKeeps ==
  ASSUME LoopTypeOK, CloseInv, MainThreadAnswered
  PROVE  LoopTypeOK' /\ CloseInv'
<1> USE DEF LoopTypeOK, CloseInv
<1>1. /\ answers # <<>> /\ resumed' = <<Head(answers)>> /\ answers' = Tail(answers)
      /\ UNCHANGED <<asyncSrt, calls, startedToDispose>>
  BY DEF MainThreadAnswered, AnswerArrives, objectVars
<1>2. /\ Head(answers) \in AnswerSet /\ Tail(answers) \in Seq(AnswerSet)
      /\ Transfers(answers) => Head(answers).k = "transferred" /\ Transfers(Tail(answers))
      /\ Without(answers) => Head(answers).k # "closed" /\ Without(Tail(answers))
      /\ Ordered(Tail(answers)) /\ (Head(answers).k = "closed" => Transfers(Tail(answers)))
  BY <1>1, TakeKinds
<1>3. LoopTypeOK'
  BY <1>1, <1>2
<1>4. /\ Head(answers).k = "transferred" => Transfers(resumed')
      /\ Head(answers).k # "closed" => Without(resumed')
      /\ Len(resumed') <= 1
  BY <1>1, ShortKinds
<1>5. Without(resumed') \/ (Transfers(answers') /\ Transfers(calls'))
  <2>1. CASE Head(answers).k = "closed"
    BY <1>1, <1>2, <2>1
  <2> QED  BY <1>4, <2>1
<1> QED  BY <1>1, <1>2, <1>3, <1>4, <1>5

\* The close has been answered: the disposal of the AsyncSRT begins.
LEMMA CloseKeeps ==
  ASSUME LoopTypeOK, CloseInv, SocketClosed
  PROVE  LoopTypeOK' /\ CloseInv'
<1> USE DEF LoopTypeOK, CloseInv
<1>1. /\ resumed # <<>> /\ Head(resumed).k = "closed" /\ resumed' = Tail(resumed)
      /\ UNCHANGED <<calls, answers, startedToDispose>> /\ asyncSrt' \in {"disposed", "disposing"}
  BY DEF SocketClosed, Resumes, PostsNothing, Rest
<1>2. resumed' = <<>> /\ ~Without(resumed) /\ ~Transfers(resumed)
  BY <1>1, Resuming
<1>3. startedToDispose /\ Transfers(answers) /\ Transfers(calls)
  BY <1>2
<1>4. LoopTypeOK' /\ Len(resumed') <= 1
  BY <1>1, <1>2, EmptySeq
<1> QED  BY <1>1, <1>2, <1>3, <1>4, ShortKinds

\* A new object has an empty loop.
LEMMA CloseInvInit == Init => LoopTypeOK /\ CloseInv
BY ShortKinds, EmptySeq DEF Init, LoopInit, LoopTypeOK, CloseInv

\* Every step keeps the queues in order.
LEMMA LoopNext ==
  ASSUME TypeOK, LoopTypeOK, CloseInv, [Next]_vars
  PROVE  LoopTypeOK' /\ CloseInv'
<1>1. CASE UNCHANGED <<loopVars, startedToDispose>>
  BY <1>1 DEF loopVars, LoopTypeOK, CloseInv
<1>2. socket \in Sockets /\ Null \in Sockets
  BY DEF TypeOK, Sockets
<1>3. ASSUME NEW k \in Creates, Create(k)  PROVE LoopTypeOK' /\ CloseInv'
  <2>1. Call("createSocket", Null, k) \in CallSet /\ k \notin {"closed", "transferred"}
    BY <1>2, SocketAssumption DEF Call, CallSet, Kinds
  <2>2. Idle /\ UNCHANGED <<asyncSrt, answers, startedToDispose>>
    BY <1>3 DEF Create, UserCalls
  <2>3. \/ PostsNothing(resumed)
        \/ ~startedToDispose /\ Posts(<<Call("createSocket", Null, k)>>, resumed)
    BY <1>3 DEF Create
  <2>4. Call("createSocket", Null, k).k = k
    BY DEF Call
  <2> QED  BY <2>1, <2>2, <2>3, <2>4, PostKeeps, NoPostKeeps
<1>4. CASE SetSocketFlags
  <2>1. FlagCall \in CallSet /\ FlagCall.k = "flagged"
    BY <1>2, SocketAssumption DEF FlagCall, Call, CallSet, Kinds
  <2>2. Idle /\ UNCHANGED <<asyncSrt, answers, startedToDispose>>
    BY <1>4 DEF SetSocketFlags, UserCalls
  <2>3. \/ PostsNothing(resumed)
        \/ ~startedToDispose /\ Posts(<<FlagCall, FlagCall>>, resumed)
        \/ ~startedToDispose /\ Posts(<<FlagCall>>, resumed)
    BY <1>4 DEF SetSocketFlags
  <2> QED  BY <2>1, <2>2, <2>3, PostKeeps, PostTwoKeeps, NoPostKeeps
<1>5. CASE Open
  <2>1. Call("connect", socket, "connected") \in CallSet
    BY <1>2, SocketAssumption DEF Call, CallSet, Kinds
  <2>2. Idle /\ UNCHANGED <<asyncSrt, answers, startedToDispose>>
    BY <1>5 DEF Open, UserCalls
  <2>3. \/ PostsNothing(resumed)
        \/ ~startedToDispose /\ Posts(<<Call("connect", socket, "connected")>>, resumed)
    BY <1>5 DEF Open
  <2>4. Call("connect", socket, "connected").k = "connected"
    BY DEF Call
  <2> QED  BY <2>1, <2>2, <2>3, <2>4, PostKeeps, NoPostKeeps
<1>6. CASE Transfer
  <2>1. Call("transfer", socket, "transferred") \in CallSet
    BY <1>2, SocketAssumption DEF Call, CallSet, Kinds
  <2>2. Idle /\ UNCHANGED <<asyncSrt, answers, startedToDispose>>
    BY <1>6 DEF Transfer, UserCalls
  <2>3. PostsNothing(resumed) \/ Posts(<<Call("transfer", socket, "transferred")>>, resumed)
    BY <1>6 DEF Transfer
  <2>4. Call("transfer", socket, "transferred").k = "transferred"
    BY DEF Call
  <2> QED  BY <2>1, <2>2, <2>3, <2>4, PostKeeps, NoPostKeeps
<1>7. CASE Dispose
  <2>1. Call("close", socket, "closed") \in CallSet
    BY <1>2, SocketAssumption DEF Call, CallSet, Kinds
  <2>2. Idle /\ ~startedToDispose /\ startedToDispose' /\ UNCHANGED <<asyncSrt, answers>>
    BY <1>7 DEF Dispose, UserCalls
  <2>3. CASE PostsNothing(resumed)
    BY <2>2, <2>3 DEF PostsNothing, LoopTypeOK, CloseInv
  <2>4. CASE Posts(<<Call("close", socket, "closed")>>, resumed)
    BY <2>1, <2>2, <2>4, PostKeeps
  <2> QED  BY <1>7, <2>3, <2>4 DEF Dispose
<1>8. CASE (\E k \in Creates : Created(k)) \/ FlagsSet \/ Connected \/ Transferred
  <2>1. resumed # <<>> /\ PostsNothing(Rest) /\ UNCHANGED <<asyncSrt, answers, startedToDispose>>
    BY <1>8 DEF Created, FlagsSet, Connected, Transferred, Resumes
  <2> QED  BY <2>1, NoPostKeeps
<1>9. CASE DisposeProceed
  <2>1. /\ resumed = <<>> /\ UNCHANGED <<calls, answers, resumed, startedToDispose>>
        /\ startedToDispose /\ asyncSrt' = "disposed"
    BY <1>9 DEF DisposeProceed, Idle, TypeOK
  <2>2. calls = <<>> /\ answers = <<>>
    <3>1. answers \o calls = <<>>
      BY <1>9 DEF DisposeProceed, InFlight
    <3>2. Len(answers) + Len(calls) = 0 /\ Len(answers) \in Nat /\ Len(calls) \in Nat
      <4>1. Len(answers \o calls) = Len(answers) + Len(calls)
        BY DEF LoopTypeOK
      <4> QED  BY <3>1, <4>1, EmptySeq, LenProperties DEF LoopTypeOK
    <3> QED  BY <3>2, EmptySeq DEF LoopTypeOK
  <2> QED  BY <2>1, <2>2, ShortKinds DEF LoopTypeOK, CloseInv
<1>10. CASE WorkerExited \/ UNCHANGED vars
  BY <1>1, <1>10 DEF WorkerExited, vars, objectVars
<1> QED  BY <1>3, <1>4, <1>5, <1>6, <1>7, <1>8, <1>9, <1>10, PerformKeeps, AnswerKeeps, CloseKeeps
         DEF Next, Continuations

-----------------------------------------------------------------------------
(* Types, and the order of the queues.                                      *)

\* A native call opens at most the socket that it answers, and may close its own.
LEMMA PerformNative ==
  ASSUME TypeOK, LoopTypeOK, calls # <<>>, NEW result, Perform(Head(calls), result)
  PROVE  /\ native' \in [Fds -> {"none", "open", "connected", "closed"}]
         /\ \A fd \in Fds : IsOpen(fd)' =>
              IsOpen(fd) \/ (Head(calls).op = "createSocket" /\ fd = result)
         /\ Head(calls).op = "createSocket" => result \in Fds \union {Failed}
         /\ Head(calls).op = "close" =>
              \A fd \in Fds : IsOpen(fd)' => fd # Head(calls).socket
<1> DEFINE c == Head(calls)
<1>1. c \in CallSet
  BY TakeKinds DEF LoopTypeOK
<1>2. c.op \in {"createSocket", "setSockFlag", "connect", "transfer", "close"}
  BY <1>1 DEF CallSet
<1>3. Perform(c, result)
  OBVIOUS
<1> HIDE DEF c
<1> USE DEF TypeOK, IsOpen
<1>4. CASE c.op = "createSocket"
  <2>1. CreateSocket(result)
    BY <1>3, <1>4 DEF Perform
  <2> QED  BY <1>4, <2>1 DEF CreateSocket, c
<1>5. CASE c.op = "connect"
  <2>1. Connect(c.socket, result)
    BY <1>3, <1>5 DEF Perform
  <2> QED  BY <1>5, <2>1 DEF Connect, IsConnected, c
<1>6. CASE c.op \in {"setSockFlag", "transfer"}
  <2>1. SetFlag(c.socket, result) \/ Use(c.socket, result)
    BY <1>3, <1>6 DEF Perform
  <2> QED  BY <1>6, <2>1 DEF SetFlag, Use, c
<1>7. CASE c.op = "close"
  <2>1. Close(c.socket, result)
    BY <1>3, <1>7 DEF Perform
  <2> QED  BY <1>7, <2>1 DEF Close, c
<1> QED  BY <1>2, <1>4, <1>5, <1>6, <1>7

\* The fields keep their types, whatever resumes.
LEMMA TypeNext == TypeOK /\ LoopTypeOK /\ CloseInv /\ [Next]_vars => TypeOK'
<1> SUFFICES ASSUME TypeOK, LoopTypeOK, CloseInv, [Next]_vars  PROVE TypeOK'
  OBVIOUS
<1> USE DEF TypeOK
<1>1. CASE WorkerPerforms
  <2>1. PICK result \in Fds \union {Success, Failed} : Perform(Head(calls), result)
    BY <1>1 DEF WorkerPerforms
  <2> HIDE DEF TypeOK
  <2>2. native' \in [Fds -> {"none", "open", "connected", "closed"}]
    BY <1>1, <2>1, PerformNative DEF WorkerPerforms
  <2> QED  BY <1>1, <2>2 DEF WorkerPerforms, objectVars, TypeOK
<1>2. ASSUME NEW k \in Creates, Create(k)  PROVE TypeOK'
  BY <1>2 DEF Create, UserCalls
<1>3. CASE SetSocketFlags \/ Open \/ Transfer
  <2>1. CASE SetSocketFlags
    BY <2>1 DEF SetSocketFlags, UserCalls
  <2>2. CASE Open
    BY <2>2 DEF Open, UserCalls
  <2>3. CASE Transfer
    BY <2>3 DEF Transfer, UserCalls
  <2> QED  BY <1>3, <2>1, <2>2, <2>3
<1>4. CASE Dispose
  BY <1>4 DEF Dispose, UserCalls
<1>5. ASSUME NEW k \in Creates, Created(k)  PROVE TypeOK'
  <2>1. Head(resumed) \in AnswerSet \union LateSet /\ Head(resumed).k = k
    BY <1>5, Resuming DEF Created, Resumes
  <2>2. Result \in Fds \union {Failed}
    BY <2>1, SocketAssumption DEF AnswerSet, LateSet, Result
  <2> QED  BY <1>5, <2>2 DEF Created
<1>6. CASE FlagsSet \/ Connected \/ Transferred
  BY <1>6 DEF FlagsSet, Connected, Transferred
<1>7. CASE SocketClosed
  <2>1. startedToDispose
    <3>1. resumed # <<>> /\ Head(resumed).k = "closed"
      BY <1>7 DEF SocketClosed, Resumes
    <3> QED  BY <3>1, Resuming DEF CloseInv
  <2> QED  BY <1>7, <2>1 DEF SocketClosed
<1>8. CASE MainThreadAnswered \/ DisposeProceed \/ WorkerExited \/ UNCHANGED vars
  BY <1>8 DEF MainThreadAnswered, DisposeProceed, WorkerExited, vars, objectVars
<1> QED  BY <1>1, <1>2, <1>3, <1>4, <1>5, <1>6, <1>7, <1>8 DEF Next, Continuations

\* The inductive invariant.
LEMMA SocketInvariant == Spec => [](TypeOK /\ LoopTypeOK /\ CloseInv)
<1>1. Init => TypeOK
  BY DEF Init, TypeOK
<1>2. TypeOK /\ LoopTypeOK /\ CloseInv /\ [Next]_vars => (TypeOK /\ LoopTypeOK /\ CloseInv)'
  BY TypeNext, LoopNext
<1> QED  BY <1>1, <1>2, CloseInvInit, PTL DEF Spec

(* Every field of the object keeps its type.                                *)
THEOREM TypeCorrect == Spec => []TypeOK
BY SocketInvariant, PTL

(* However the calls of the user overlap, transfers alone are behind the    *)
(* close() of dispose(), and they alone find the AsyncSRT disposed of.      *)
THEOREM OnlyTransfersBehindClose == Spec => []NothingBehindClose
<1>1. LoopTypeOK /\ CloseInv => NothingBehindClose
  <2> SUFFICES ASSUME LoopTypeOK, CloseInv  PROVE NothingBehindClose
    OBVIOUS
  <2>1. /\ Len(answers) \in Nat /\ Len(calls) \in Nat
        /\ Len(InFlight) = Len(answers) + Len(calls)
        /\ \A i \in 1..Len(InFlight) : i <= Len(answers) => InFlight[i] = answers[i]
        /\ \A i \in 1..Len(InFlight) : i > Len(answers) => InFlight[i] = calls[i - Len(answers)]
    BY LenProperties, ConcatProperties DEF LoopTypeOK, InFlight
  <2>2. ASSUME NEW i \in 1..Len(InFlight), NEW j \in 1..Len(InFlight), i < j,
               InFlight[i].k = "closed"
        PROVE  InFlight[j].k = "transferred"
    <3>1. CASE j <= Len(answers)
      <4>1. i \in 1..Len(answers) /\ j \in 1..Len(answers)
        BY <2>1, <2>2, <3>1
      <4> QED  BY <2>1, <2>2, <3>1, <4>1 DEF CloseInv, Ordered
    <3>2. CASE i <= Len(answers) /\ j > Len(answers)
      <4>1. i \in 1..Len(answers) /\ j - Len(answers) \in 1..Len(calls)
        BY <2>1, <2>2, <3>2
      <4>2. ~Without(answers)
        BY <2>1, <2>2, <3>2, <4>1 DEF Without
      <4> QED  BY <2>1, <3>2, <4>1, <4>2 DEF CloseInv, Transfers
    <3>3. CASE i > Len(answers)
      <4>1. i - Len(answers) \in 1..Len(calls) /\ j - Len(answers) \in 1..Len(calls)
            /\ i - Len(answers) < j - Len(answers) /\ j > Len(answers)
        BY <2>1, <2>2, <3>3
      <4> QED  BY <2>1, <2>2, <3>3, <4>1 DEF CloseInv, Ordered
    <3> QED  BY <2>1, <3>1, <3>2, <3>3
  <2>3. ASSUME NEW i \in 1..Len(resumed), resumed[i].result \in {Undefined, Rejected}
        PROVE  resumed[i].k = "transferred"
    <3>1. resumed[i] \in AnswerSet \union LateSet
      BY ElementOfSeq DEF LoopTypeOK
    <3> QED  BY <2>3, <3>1, SocketAssumption DEF AnswerSet, LateSet
  <2> QED  BY <2>2, <2>3 DEF NothingBehindClose
<1> QED  BY <1>1, SocketInvariant, PTL

-----------------------------------------------------------------------------
(* Who owns which native socket.                                            *)

USE DEF IsOpen

NoneCreating == \A k \in Creates : creator[k] # "awaiting"
NothingOpen == \A fd \in Fds : ~IsOpen(fd)
NoCreate(q) == \A i \in 1..Len(q) : q[i].k \notin Creates

\* A create() alone on its way, with the socket it has opened.
Alone(k) ==
    /\ socket = Null
    /\ ~startedToDispose
    /\ \/ /\ \E c \in CallSet : c.k = k /\ calls = <<c>>
          /\ answers = <<>> /\ resumed = <<>> /\ NothingOpen
       \/ /\ calls = <<>> /\ resumed = <<>>
          /\ \E a \in AnswerSet : /\ a.k = k /\ answers = <<a>>
                                  /\ \A fd \in Fds : IsOpen(fd) => fd = a.result
       \/ /\ calls = <<>> /\ answers = <<>>
          /\ \E a \in AnswerSet : /\ a.k = k /\ resumed = <<a>>
                                  /\ \A fd \in Fds : IsOpen(fd) => fd = a.result

(* Between the end of one method and the next the object names the socket   *)
(* it owns; this strengthening follows the socket while a method runs.      *)
OwnInv == ~overlapped =>
    /\ \A k \in Creates : creator[k] = "awaiting" => Alone(k)
    /\ NoneCreating => /\ NoCreate(calls) /\ NoCreate(answers) /\ NoCreate(resumed)
                       /\ \A fd \in Fds : IsOpen(fd) => socket = fd
                       /\ socket = Null /\ ~startedToDispose =>
                            calls = <<>> /\ answers = <<>> /\ resumed = <<>>
    /\ disposer = "closing" =>
         \A i \in 1..Len(calls) : calls[i].k = "closed" => calls[i].socket = socket
    /\ disposer \in {"waiting", "terminating", "done"} \/ ~Without(answers) \/ ~Without(resumed)
         => NothingOpen
    /\ disposer = "done" => socket = Null

\* Queues without a create().
LEMMA NoCreateQueues ==
  ASSUME NEW S, NEW q \in Seq(S)
  PROVE  /\ \A x \in S : NoCreate(q) /\ x.k \notin Creates => NoCreate(Append(q, x))
         /\ q # <<>> /\ NoCreate(q) => Head(q).k \notin Creates /\ NoCreate(Tail(q))
<1>1. ASSUME NEW x \in S, NoCreate(q), x.k \notin Creates  PROVE NoCreate(Append(q, x))
  <2> DEFINE a == Append(q, x)
  <2>1. /\ Len(q) \in Nat /\ Len(a) = Len(q) + 1 /\ a[Len(q) + 1] = x
        /\ \A i \in 1..Len(q) : a[i] = q[i]
    BY AppendProperties, LenProperties
  <2> HIDE DEF a
  <2>2. NoCreate(a)
    BY <1>1, <2>1 DEF NoCreate
  <2> QED  BY <2>2 DEF a
<1>2. ASSUME q # <<>>, NoCreate(q)  PROVE Head(q).k \notin Creates /\ NoCreate(Tail(q))
  <2> DEFINE t == Tail(q)
  <2>1. /\ Len(q) \in Nat \ {0} /\ Len(t) = Len(q) - 1 /\ Head(q) = q[1]
        /\ \A i \in 1..Len(t) : t[i] = q[i + 1]
    BY <1>2, HeadTailProperties, LenProperties, EmptySeq
  <2> HIDE DEF t
  <2>2. q[1].k \notin Creates /\ NoCreate(t)
    BY <1>2, <2>1 DEF NoCreate
  <2> QED  BY <2>1, <2>2 DEF t
<1> QED  BY <1>1, <1>2

\* Queues of no or one element.
LEMMA ShortNoCreate == NoCreate(<<>>) /\ \A x : x.k \notin Creates => NoCreate(<<x>>)
BY EmptySeq DEF NoCreate

\* A queue of one element.
LEMMA Singletons ==
  \A x : /\ Head(<<x>>) = x /\ Tail(<<x>>) = <<>> /\ <<x>> # <<>>
         /\ Append(<<>>, x) = <<x>> /\ <<x>>[1] = x /\ Len(<<x>>) = 1
OBVIOUS

\* Performing a call.
LEMMA OwnPerform ==
  ASSUME TypeOK, LoopTypeOK, CloseInv, OwnInv, WorkerPerforms
  PROVE  OwnInv'
<1> SUFFICES ASSUME ~overlapped  PROVE OwnInv'
  BY DEF WorkerPerforms, objectVars, OwnInv
<1> DEFINE c == Head(calls)
<1>1. PICK result \in Fds \union {Success, Failed} : Perform(c, result) /\ Performed(result)
  BY DEF WorkerPerforms
<1> DEFINE a == Resumption(c.k, c.socket, result)
<1>2. /\ calls # <<>> /\ UNCHANGED <<resumed, objectVars>>
      /\ calls' = Tail(calls) /\ answers' = Append(answers, a)
  BY <1>1 DEF WorkerPerforms, Performed
<1>3. UNCHANGED <<socket, startedToDispose, creator, disposer>>
  BY <1>2 DEF objectVars
<1>4. c \in CallSet /\ a.k = c.k /\ a.result = result
  BY <1>2, TakeKinds DEF LoopTypeOK, Resumption
<1>5. /\ \A fd \in Fds : IsOpen(fd)' =>
           IsOpen(fd) \/ (c.k \in Creates /\ fd = result)
      /\ c.k = "closed" => \A fd \in Fds : IsOpen(fd)' => fd # c.socket
      /\ c.k \in Creates => result \in Fds \union {Failed}
  BY <1>1, <1>2, <1>4, PerformNative DEF CallSet
<1>6. a \in AnswerSet
  BY <1>4, <1>5 DEF AnswerSet, CallSet, Resumption
<1> HIDE DEF c, a
<1>7. CASE NoneCreating
  <2>1. NoCreate(calls) /\ NoCreate(answers) /\ NoCreate(resumed)
    BY <1>7 DEF OwnInv
  <2>2. c.k \notin Creates /\ NoCreate(calls') /\ NoCreate(answers')
    BY <1>2, <1>4, <1>6, <2>1, NoCreateQueues DEF LoopTypeOK, c
  <2>3. \A fd \in Fds : IsOpen(fd)' => IsOpen(fd) /\ socket = fd
    BY <1>5, <1>7, <2>2 DEF OwnInv
  <2>4. ~(socket = Null /\ ~startedToDispose)
    BY <1>2, <1>7 DEF OwnInv
  <2>5. disposer = "closing" =>
          \A i \in 1..Len(calls') : calls'[i].k = "closed" => calls'[i].socket = socket
    <3>1. \A i \in 1..Len(calls') : i + 1 \in 1..Len(calls) /\ calls'[i] = calls[i + 1]
      BY <1>2, HeadTailProperties, LenProperties DEF LoopTypeOK
    <3> QED  BY <3>1 DEF OwnInv
  <2>6. ASSUME \/ disposer \in {"waiting", "terminating", "done"}
               \/ ~Without(answers) \/ ~Without(resumed)
        PROVE  NothingOpen'
    BY <2>3, <2>6 DEF OwnInv, NothingOpen
  <2>7. ASSUME c.k = "closed", disposer = "closing"  PROVE NothingOpen'
    <3>1. c = calls[1] /\ 1 \in 1..Len(calls)
      BY <1>2, HeadTailProperties, LenProperties, EmptySeq DEF LoopTypeOK, c
    <3>2. c.socket = socket
      BY <2>7, <3>1 DEF OwnInv
    <3> QED  BY <1>5, <2>3, <2>7, <3>2 DEF NothingOpen
  <2>8. c.k = "closed" => startedToDispose
    BY <1>2, TakeKinds DEF LoopTypeOK, CloseInv, c
  <2>9. ~Without(answers') => ~Without(answers) \/ c.k = "closed"
    BY <1>2, <1>4, <1>6, AppendKinds DEF LoopTypeOK
  <2>10. disposer \in {"waiting", "terminating", "done"} \/ ~Without(answers') \/ ~Without(resumed)
           => NothingOpen'
    BY <2>6, <2>7, <2>8, <2>9 DEF TypeOK
  <2> QED  BY <1>2, <1>3, <1>7, <2>1, <2>2, <2>3, <2>4, <2>5, <2>10 DEF OwnInv, NoneCreating
<1>8. CASE ~NoneCreating
  <2>1. PICK k \in Creates : creator[k] = "awaiting"
    BY <1>8 DEF NoneCreating
  <2>2. Alone(k)
    BY <2>1 DEF OwnInv
  <2>3. c.k = k /\ calls = <<c>> /\ answers = <<>> /\ resumed = <<>> /\ NothingOpen
    BY <1>2, <2>2, Singletons DEF Alone, c
  <2>4. calls' = <<>> /\ answers' = <<a>> /\ resumed' = <<>>
    BY <1>2, <2>3, Singletons
  <2>5. \A fd \in Fds : IsOpen(fd)' => fd = a.result
    BY <1>4, <1>5, <2>3 DEF NothingOpen
  <2>6. \A j \in Creates : creator[j] = "awaiting" => j = k
    BY <1>2, <2>3, Singletons DEF OwnInv, Alone
  <2>7. Alone(k)'
    BY <1>3, <1>4, <1>6, <2>2, <2>3, <2>4, <2>5 DEF Alone
  <2>8. disposer = "uncalled" /\ Without(answers') /\ Without(resumed')
    BY <1>4, <2>2, <2>3, <2>4, ShortKinds, SocketAssumption DEF Alone, TypeOK
  <2> QED  BY <1>3, <2>1, <2>6, <2>7, <2>8 DEF OwnInv, NoneCreating
<1> QED  BY <1>7, <1>8

\* The next answer.
LEMMA OwnAnswers ==
  ASSUME TypeOK, LoopTypeOK, CloseInv, OwnInv, MainThreadAnswered
  PROVE  OwnInv'
<1> SUFFICES ASSUME ~overlapped  PROVE OwnInv'
  BY DEF MainThreadAnswered, objectVars, OwnInv
<1> DEFINE a == Head(answers)
<1>1. /\ answers # <<>> /\ resumed = <<>> /\ resumed' = <<a>> /\ answers' = Tail(answers)
      /\ UNCHANGED <<native, calls, socket, startedToDispose, creator, disposer>>
  BY DEF MainThreadAnswered, AnswerArrives, Idle, objectVars
<1>2. a \in AnswerSet
  BY <1>1, TakeKinds DEF LoopTypeOK
<1>3. ~Without(answers') \/ ~Without(resumed') => ~Without(answers)
  BY <1>1, TakeKinds, ShortKinds DEF LoopTypeOK
<1> HIDE DEF a
<1>4. CASE NoneCreating
  <2>1. NoCreate(answers)
    BY <1>4 DEF OwnInv
  <2>2. a.k \notin Creates /\ NoCreate(answers') /\ NoCreate(resumed')
    BY <1>1, <2>1, NoCreateQueues, ShortNoCreate DEF LoopTypeOK, a
  <2>3. ~(socket = Null /\ ~startedToDispose)
    BY <1>1, <1>4 DEF OwnInv
  <2> QED  BY <1>1, <1>3, <1>4, <2>2, <2>3 DEF OwnInv, NoneCreating, NothingOpen
<1>5. CASE ~NoneCreating
  <2>1. PICK k \in Creates : creator[k] = "awaiting"
    BY <1>5 DEF NoneCreating
  <2>2. Alone(k)
    BY <2>1 DEF OwnInv
  <2>3. /\ calls = <<>> /\ answers = <<a>> /\ a.k = k
        /\ \A fd \in Fds : IsOpen(fd) => fd = a.result
    BY <1>1, <2>2, Singletons DEF Alone, a
  <2>4. answers' = <<>> /\ calls' = <<>>
    BY <1>1, <2>3, Singletons
  <2>5. \A j \in Creates : creator[j] = "awaiting" => j = k
    BY <1>1, <2>3, Singletons DEF OwnInv, Alone
  <2>6. Alone(k)'
    BY <1>1, <1>2, <2>2, <2>3, <2>4 DEF Alone
  <2>7. disposer = "uncalled" /\ Without(answers') /\ Without(resumed')
    BY <1>1, <2>2, <2>3, <2>4, ShortKinds, SocketAssumption DEF Alone, TypeOK
  <2> QED  BY <1>1, <2>1, <2>4, <2>5, <2>6, <2>7, EmptySeq DEF OwnInv, NoneCreating
<1> QED  BY <1>4, <1>5

\* What a method finds when no other is pending.
LEMMA OwnCalling ==
  ASSUME OwnInv, UserCalls, ~overlapped'
  PROVE  ~overlapped /\ ~Pending /\ NoneCreating /\ resumed = <<>>
BY DEF UserCalls, Idle, Pending, NoneCreating, OwnInv

\* create() makes its call alone.
LEMMA OwnCreate ==
  ASSUME TypeOK, LoopTypeOK, CloseInv, OwnInv, NEW k \in Creates, Create(k)
  PROVE  OwnInv'
<1> SUFFICES ASSUME ~overlapped'  PROVE OwnInv'
  BY DEF OwnInv
<1>1. ~overlapped /\ NoneCreating /\ resumed = <<>>
  BY OwnCalling DEF Create
<1>2. UNCHANGED <<native, asyncSrt, answers, socket, startedToDispose, disposer>>
  BY DEF Create
<1>3. ASSUME PostsNothing(resumed), NEW s \in {"threw", "null"},
             creator' = [creator EXCEPT ![k] = s]
      PROVE  OwnInv'
  <2>1. UNCHANGED <<calls, resumed>>
    BY <1>3 DEF PostsNothing
  <2>2. NoneCreating'
    BY <1>1, <1>3 DEF NoneCreating, TypeOK
  <2> QED  BY <1>1, <1>2, <2>1, <2>2 DEF OwnInv, NoneCreating, NothingOpen
<1>4. CASE socket = Null /\ ~startedToDispose /\ Posts(<<Call("createSocket", Null, k)>>, resumed)
           /\ creator' = [creator EXCEPT ![k] = "awaiting"]
  <2> DEFINE c == Call("createSocket", Null, k)
  <2>1. c \in CallSet /\ c.k = k
    BY SocketAssumption DEF Call, CallSet, Kinds, Sockets
  <2> HIDE DEF c
  <2>2. asyncSrt = "live" /\ calls = <<>> /\ answers = <<>> /\ calls \in Seq(CallSet)
    BY <1>1, <1>4 DEF CloseInv, OwnInv, LoopTypeOK
  <2>3. calls' = <<c>> /\ resumed' = <<>>
    BY <1>1, <1>4, <2>1, <2>2, PostOne, Singletons DEF c
  <2>4. NothingOpen
    BY <1>1, <1>4, SocketAssumption DEF OwnInv, NothingOpen
  <2>5. Alone(k)'
    BY <1>2, <1>4, <2>1, <2>2, <2>3, <2>4 DEF Alone, NothingOpen
  <2>6. creator'[k] = "awaiting" /\ \A j \in Creates : creator'[j] = "awaiting" => j = k
    BY <1>1, <1>4 DEF NoneCreating, TypeOK
  <2>7. disposer = "uncalled" /\ Without(answers') /\ Without(resumed')
    BY <1>2, <1>4, <2>2, <2>3, ShortKinds DEF TypeOK
  <2> QED  BY <1>2, <2>5, <2>6, <2>7 DEF OwnInv, NoneCreating
<1> QED  BY <1>3, <1>4 DEF Create

\* The methods that make a call of the socket they find, or none.
LEMMA OwnCall ==
  ASSUME TypeOK, LoopTypeOK, CloseInv, OwnInv, ~overlapped', UserCalls,
         UNCHANGED <<native, asyncSrt, answers, socket, creator>>,
         UNCHANGED <<startedToDispose, disposer>> \/
           (~startedToDispose /\ startedToDispose' /\ disposer' = "closing"),
         NEW c \in CallSet, c.k \notin Creates,
         c.k = "closed" => disposer' = "closing" /\ c.socket = socket,
         \/ PostsNothing(resumed) /\ UNCHANGED <<startedToDispose, disposer>>
         \/ socket # Null /\ Posts(<<c>>, resumed) /\ (c.k = "transferred" \/ ~startedToDispose)
         \/ socket # Null /\ Posts(<<c, c>>, resumed) /\ c.k # "closed" /\ ~startedToDispose
  PROVE  OwnInv'
<1>1. ~overlapped /\ NoneCreating /\ resumed = <<>>
  BY OwnCalling
<1>2. NoneCreating' /\ NoCreate(calls) /\ NoCreate(answers') /\ calls \in Seq(CallSet)
  BY <1>1 DEF NoneCreating, OwnInv, LoopTypeOK
<1>3. CASE PostsNothing(resumed) /\ UNCHANGED <<startedToDispose, disposer>>
  BY <1>1, <1>2, <1>3 DEF PostsNothing, OwnInv, NothingOpen, NoneCreating
<1>4. ASSUME socket # Null, NoCreate(calls'), NoCreate(resumed'), Without(resumed'),
             disposer' = "closing" =>
               \A i \in 1..Len(calls') : calls'[i].k = "closed" => calls'[i].socket = socket'
      PROVE  OwnInv'
  <2>1. \A fd \in Fds : IsOpen(fd)' => socket' = fd
    BY <1>1 DEF OwnInv
  <2>2. disposer' \in {"waiting", "terminating", "done"} => disposer' = disposer
    OBVIOUS
  <2>3. ~Without(answers') => ~Without(answers)
    OBVIOUS
  <2>4. disposer' \in {"waiting", "terminating", "done"} \/ ~Without(answers') => NothingOpen'
    BY <1>1, <2>2, <2>3 DEF OwnInv, NothingOpen
  <2>5. disposer' = "done" => socket' = Null
    BY <1>1, <2>2 DEF OwnInv
  <2> QED  BY <1>2, <1>4, <2>1, <2>4, <2>5 DEF OwnInv, NoneCreating
<1>5. ASSUME NEW q \in Seq(CallSet), NoCreate(q),
             disposer' = "closing" => \A i \in 1..Len(q) : q[i].k = "closed" => q[i].socket = socket
      PROVE  /\ NoCreate(Append(q, c)) /\ Append(q, c) \in Seq(CallSet)
             /\ disposer' = "closing" =>
                  \A i \in 1..Len(Append(q, c)) :
                    Append(q, c)[i].k = "closed" => Append(q, c)[i].socket = socket
  <2>1. NoCreate(Append(q, c)) /\ Append(q, c) \in Seq(CallSet)
    BY <1>5, NoCreateQueues, AppendProperties
  <2>2. /\ Len(q) \in Nat /\ Len(Append(q, c)) = Len(q) + 1 /\ Append(q, c)[Len(q) + 1] = c
        /\ \A i \in 1..Len(q) : Append(q, c)[i] = q[i]
    BY <1>5, AppendProperties, LenProperties
  <2>3. \A i \in 1..Len(Append(q, c)) : i \in 1..Len(q) \/ i = Len(q) + 1
    BY <2>2
  <2> QED  BY <1>5, <2>1, <2>2, <2>3
<1>6. disposer' = "closing" =>
        \A i \in 1..Len(calls) : calls[i].k = "closed" => calls[i].socket = socket
  <2>1. CASE UNCHANGED <<startedToDispose, disposer>>
    BY <1>1, <2>1 DEF OwnInv
  <2>2. CASE ~startedToDispose
    BY <2>2 DEF CloseInv, Without
  <2> QED  BY <2>1, <2>2
<1>7. CASE socket # Null /\ Posts(<<c>>, resumed) /\ (c.k = "transferred" \/ ~startedToDispose)
  <2>1. CASE asyncSrt = "live"
    <3>1. calls' = Append(calls, c) /\ resumed' = <<>>
      BY <1>1, <1>2, <1>7, <2>1, PostOne
    <3> QED  BY <1>2, <1>4, <1>5, <1>6, <1>7, <3>1, ShortKinds, ShortNoCreate
  <2>2. CASE asyncSrt # "live"
    <3> DEFINE r == Resumption(c.k, c.socket,
                               IF asyncSrt = "disposing" THEN Undefined ELSE Rejected)
    <3>1. calls' = calls /\ resumed' = <<r>>
      BY <1>1, <1>2, <1>7, <2>2, PostOne
    <3>2. r.k = "transferred"
      BY <1>7, <2>2 DEF CloseInv, Resumption
    <3> HIDE DEF r
    <3>3. NoCreate(resumed') /\ Without(resumed')
      BY <3>1, <3>2, ShortKinds, ShortNoCreate, SocketAssumption
    <3> QED  BY <1>2, <1>4, <1>6, <1>7, <3>1, <3>3
  <2> QED  BY <2>1, <2>2
<1>8. CASE socket # Null /\ Posts(<<c, c>>, resumed) /\ c.k # "closed" /\ ~startedToDispose
  <2>1. asyncSrt = "live"
    BY <1>8 DEF CloseInv, LoopTypeOK
  <2>2. calls' = Append(Append(calls, c), c) /\ resumed' = <<>>
    BY <1>1, <1>2, <1>8, <2>1, PostTwo
  <2>3. /\ NoCreate(Append(calls, c)) /\ Append(calls, c) \in Seq(CallSet)
        /\ disposer' = "closing" =>
             \A i \in 1..Len(Append(calls, c)) :
               Append(calls, c)[i].k = "closed" => Append(calls, c)[i].socket = socket
    BY <1>2, <1>5, <1>6
  <2> QED  BY <1>4, <1>5, <1>8, <2>2, <2>3, ShortKinds, ShortNoCreate
<1> QED  BY <1>3, <1>7, <1>8

\* The answer of create(): the object names its socket.
LEMMA OwnCreated ==
  ASSUME TypeOK, LoopTypeOK, CloseInv, OwnInv, NEW k \in Creates, Created(k)
  PROVE  OwnInv'
<1> SUFFICES ASSUME ~overlapped  PROVE OwnInv'
  BY DEF Created, OwnInv
<1> DEFINE a == Head(resumed)
<1>1. /\ resumed # <<>> /\ a.k = k /\ socket' = a.result /\ resumed' = Tail(resumed)
      /\ creator' = [creator EXCEPT ![k] = "created"]
      /\ UNCHANGED <<native, calls, answers, startedToDispose, disposer>>
  BY DEF Created, Resumes, Result, Rest, PostsNothing
<1>2. ~NoneCreating
  BY <1>1, NoCreateQueues DEF OwnInv, LoopTypeOK
<1>3. \A j \in Creates : creator[j] = "awaiting" =>
        /\ j = k /\ calls = <<>> /\ answers = <<>> /\ resumed = <<a>> /\ ~startedToDispose
        /\ \A fd \in Fds : IsOpen(fd) => fd = a.result
  BY <1>1, Singletons DEF OwnInv, Alone
<1> HIDE DEF a
<1>4. /\ calls = <<>> /\ answers = <<>> /\ resumed = <<a>> /\ ~startedToDispose
      /\ \A fd \in Fds : IsOpen(fd) => fd = a.result
  BY <1>2, <1>3 DEF NoneCreating
<1>5. NoneCreating' /\ resumed' = <<>>
  BY <1>1, <1>3, <1>4, Singletons DEF NoneCreating, TypeOK
<1>6. disposer = "uncalled"
  BY <1>4 DEF TypeOK
<1> QED  BY <1>1, <1>4, <1>5, <1>6, ShortNoCreate, ShortKinds DEF OwnInv, NoneCreating

\* The other continuations run while no create() is on its way.
LEMMA OwnContinue ==
  ASSUME TypeOK, LoopTypeOK, CloseInv, OwnInv, FlagsSet \/ Connected \/ Transferred \/ SocketClosed
  PROVE  OwnInv'
<1> SUFFICES ASSUME ~overlapped  PROVE OwnInv'
  BY DEF FlagsSet, Connected, Transferred, SocketClosed, OwnInv
<1>1. /\ resumed # <<>> /\ resumed' = Tail(resumed)
      /\ Head(resumed).k \in {"flagged", "connected", "transferred", "closed"}
      /\ UNCHANGED <<native, calls, answers, socket, startedToDispose, creator>>
      /\ \/ UNCHANGED disposer
         \/ Head(resumed).k = "closed" /\ disposer' \in {"waiting", "terminating"}
  BY DEF FlagsSet, Connected, Transferred, SocketClosed, Resumes, Rest, PostsNothing
<1>2. NoneCreating
  <2>1. Head(resumed).k \notin Creates
    BY <1>1, SocketAssumption
  <2> QED  BY <1>1, <2>1, Singletons DEF OwnInv, Alone, NoneCreating
<1>3. resumed' = <<>>
  BY <1>1, Resuming
<1>4. Head(resumed).k = "closed" => NothingOpen
  BY <1>1, Resuming DEF OwnInv
<1> QED  BY <1>1, <1>2, <1>3, <1>4, ShortNoCreate, ShortKinds DEF OwnInv, NoneCreating, NothingOpen

\* The disposal goes on.
LEMMA OwnDisposing ==
  ASSUME TypeOK, LoopTypeOK, CloseInv, OwnInv, DisposeProceed \/ WorkerExited
  PROVE  OwnInv'
<1> SUFFICES ASSUME ~overlapped  PROVE OwnInv'
  BY DEF DisposeProceed, WorkerExited, OwnInv
<1>1. startedToDispose /\ UNCHANGED <<native, calls, answers, resumed, startedToDispose, creator>>
  BY DEF DisposeProceed, WorkerExited, TypeOK, loopVars
<1>2. NoneCreating
  BY <1>1 DEF OwnInv, Alone, NoneCreating
<1>3. NothingOpen
  BY DEF DisposeProceed, WorkerExited, OwnInv
<1>4. CASE DisposeProceed
  <2>1. disposer' = "terminating" /\ socket' = socket
    BY <1>4 DEF DisposeProceed
  <2> QED  BY <1>1, <1>2, <1>3, <2>1 DEF OwnInv, NoneCreating, NothingOpen
<1>5. CASE WorkerExited
  <2>1. disposer' = "done" /\ socket' = Null
    BY <1>5 DEF WorkerExited
  <2> QED  BY <1>1, <1>2, <1>3, <2>1 DEF OwnInv, NoneCreating, NothingOpen
<1> QED  BY <1>4, <1>5

\* Every step keeps the socket owned.
LEMMA OwnNext == TypeOK /\ LoopTypeOK /\ CloseInv /\ OwnInv /\ [Next]_vars => OwnInv'
<1> SUFFICES ASSUME TypeOK, LoopTypeOK, CloseInv, OwnInv, [Next]_vars  PROVE OwnInv'
  OBVIOUS
<1>1. CASE UNCHANGED vars
  BY <1>1 DEF vars, loopVars, objectVars, OwnInv, Alone, NoneCreating, NothingOpen
<1>2. socket \in Sockets /\ (overlapped' => OwnInv')
  BY DEF TypeOK, Sockets, OwnInv
<1>3. CASE SetSocketFlags
  <2>1. FlagCall \in CallSet /\ FlagCall.k = "flagged" /\ "flagged" \notin Creates
    BY <1>2, SocketAssumption DEF FlagCall, Call, CallSet, Kinds
  <2>2. /\ UserCalls
        /\ UNCHANGED <<native, asyncSrt, answers, socket, creator, startedToDispose, disposer>>
    BY <1>3 DEF SetSocketFlags
  <2>3. \/ PostsNothing(resumed)
        \/ socket # Null /\ ~startedToDispose /\ Posts(<<FlagCall, FlagCall>>, resumed)
        \/ socket # Null /\ ~startedToDispose /\ Posts(<<FlagCall>>, resumed)
    BY <1>3 DEF SetSocketFlags
  <2> QED  BY <1>2, <2>1, <2>2, <2>3, OwnCall
<1>4. CASE Open
  <2> DEFINE c == Call("connect", socket, "connected")
  <2>1. c \in CallSet /\ c.k = "connected" /\ "connected" \notin Creates
    BY <1>2, SocketAssumption DEF Call, CallSet, Kinds
  <2>2. /\ UserCalls
        /\ UNCHANGED <<native, asyncSrt, answers, socket, creator, startedToDispose, disposer>>
    BY <1>4 DEF Open
  <2>3. PostsNothing(resumed) \/ (socket # Null /\ ~startedToDispose /\ Posts(<<c>>, resumed))
    BY <1>4 DEF Open
  <2> HIDE DEF c
  <2> QED  BY <1>2, <2>1, <2>2, <2>3, OwnCall
<1>5. CASE Transfer
  <2> DEFINE c == Call("transfer", socket, "transferred")
  <2>1. c \in CallSet /\ c.k = "transferred" /\ "transferred" \notin Creates
    BY <1>2, SocketAssumption DEF Call, CallSet, Kinds
  <2>2. /\ UserCalls
        /\ UNCHANGED <<native, asyncSrt, answers, socket, creator, startedToDispose, disposer>>
    BY <1>5 DEF Transfer
  <2>3. PostsNothing(resumed) \/ (socket # Null /\ Posts(<<c>>, resumed))
    BY <1>5 DEF Transfer
  <2> HIDE DEF c
  <2> QED  BY <1>2, <2>1, <2>2, <2>3, OwnCall
<1>6. CASE Dispose
  <2> DEFINE c == Call("close", socket, "closed")
  <2>1. c \in CallSet /\ c.k = "closed" /\ c.socket = socket /\ "closed" \notin Creates
    BY <1>2, SocketAssumption DEF Call, CallSet, Kinds
  <2>2. /\ UserCalls /\ UNCHANGED <<native, asyncSrt, answers, socket, creator>>
        /\ ~startedToDispose /\ startedToDispose'
    BY <1>6 DEF Dispose
  <2>3. CASE socket = Null /\ ~overlapped'
    <3>1. ~overlapped /\ NoneCreating /\ resumed = <<>>
      BY <2>2, <2>3, OwnCalling
    <3>2. disposer' = "done" /\ UNCHANGED <<calls, resumed>>
      BY <1>6, <2>3 DEF Dispose, PostsNothing
    <3>3. NothingOpen
      BY <2>3, <3>1, SocketAssumption DEF OwnInv, NothingOpen
    <3> QED  BY <2>2, <2>3, <3>1, <3>2, <3>3 DEF OwnInv, NoneCreating, NothingOpen
  <2>4. CASE socket # Null /\ ~overlapped'
    <3>1. disposer' = "closing" /\ Posts(<<c>>, resumed)
      BY <1>6, <2>4 DEF Dispose
    <3> HIDE DEF c
    <3> QED  BY <2>1, <2>2, <2>4, <3>1, OwnCall
  <2> QED  BY <1>2, <2>3, <2>4
<1> QED  BY <1>1, <1>3, <1>4, <1>5, <1>6, OwnPerform, OwnAnswers, OwnCreate, OwnCreated,
            OwnContinue, OwnDisposing DEF Next, Continuations

(* An object whose methods are called one after the other owns no socket    *)
(* but the one it names, and none once it is disposed of, whatever fails.   *)
THEOREM NoSocketIsLost == Spec => []OwnsWhatItNames
<1>1. Init => OwnInv
  BY ShortNoCreate, ShortKinds, EmptySeq DEF Init, LoopInit, OwnInv, NoneCreating, NothingOpen
<1>2. OwnInv => OwnsWhatItNames
  BY DEF OwnInv, OwnsWhatItNames, Pending, NoneCreating
<1> QED  BY <1>1, <1>2, OwnNext, SocketInvariant, PTL DEF Spec

=============================================================================
