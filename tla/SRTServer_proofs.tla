--------------------------- MODULE SRTServer_proofs ---------------------------
(***************************************************************************)
(* What the SRTServer guarantees for any number of peers and of open()     *)
(* calls: no event is about a connection it has not mapped, and nothing    *)
(* calls into its AsyncSRT after the disposal.                             *)
(***************************************************************************)
EXTENDS SRTServer, SequenceTheorems, FiniteSetTheorems, TLAPS

-----------------------------------------------------------------------------
(* What the queues of the loop hold.                                        *)

\* A handler finds these: "mapped" is Mapped, of which the map only grows.
Mapped == {Listener} \union connectionMap

Names == {"polled", "state", "accepted", "added", "closed", "disposing"}
Kinds == {<<n>> : n \in Names} \union ({"bound", "listening", "created", "watching"} \X Opens)
Ops == {"bind", "listen", "epollCreate", "epollAddUsock", "epollUWait", "getSockState",
        "accept", "close"}
Outcomes == (SUBSET Sockets) \union SockStatus \union Clients \union {Success, Failed, Undefined}

\* A call of the server, when these sockets are mapped.
CallSet(mapped) ==
    {c \in [op : Ops, socket : Sockets \union Fds, k : Kinds] :
        /\ c.k = <<"polled">> => c.op = "epollUWait"
        /\ c.k = <<"accepted">> => c.op = "accept"
        /\ c.k = <<"state">> => c.socket \in mapped
        /\ c.k = <<"added">> => c.socket \in Fds
        /\ c.k # <<"closed">>
        /\ c.op = "epollAddUsock" => c.k = <<"added">> \/ c.socket = Listener}

\* A continuation of the server and what its await gave.
ResumptionSet(mapped, known) ==
    {r \in [k : Kinds, socket : Sockets \union Fds, result : Outcomes] :
        /\ r.k = <<"polled">> => r.result \in SUBSET Sockets
        /\ r.k = <<"accepted">> => r.result \in Fds
        /\ r.k = <<"state">> => r.socket \in mapped
        /\ r.k = <<"added">> => r.socket \in Fds
        /\ r.k = <<"closed">> => r.socket \in known}

\* Those of which many may be resumed at once.
HandlerSet(mapped, known) ==
    {r \in ResumptionSet(mapped, known) : r.k \notin {<<"polled">>, <<"disposing">>}}

\* What runs on the main thread: continuations of handlers, or one other
\* that is alone.
ResumedOK ==
    \/ resumed \in Seq(HandlerSet(Mapped, announced))
    \/ \E r \in ResumptionSet(Mapped, announced) :
         /\ resumed = <<r>>
         /\ r.k = <<"polled">> => r.result \subseteq Mapped

LoopTypeOK ==
    /\ calls \in Seq(CallSet(Mapped))
    /\ answers \in Seq(ResumptionSet(Mapped, announced))
    /\ ResumedOK

\* The disposal of the AsyncSRT, and what the fields never hold.
FieldInv ==
    /\ asyncSrt = "live" <=> disposer \in {"idle", "closing"}
    /\ asyncSrt = "disposing" <=> disposer = "waiting"
    /\ asyncSrt = "disposed" => calls = <<>> /\ answers = <<>> /\ resumed = <<>>
    /\ connectionMap \subseteq announced
    /\ attached = {}
    /\ unmapped = {}

\* Mapped, or the handler of the connection is about to map it.
Known == Mapped \union (IF Resumes(<<"added">>) THEN {Socket} ELSE {})

AddedBefore(q, n, s) == \E j \in 1..Len(q) : j < n /\ q[j].k = <<"added">> /\ q[j].socket = s

(* A socket is watched before it is mapped.  The answer by which it gets    *)
(* mapped is then ahead of every poll that reports it.                      *)
Ahead(q, known) ==
    \A i \in 1..Len(q) : q[i].k = <<"polled">> =>
        \A s \in q[i].result : s \in known \/ AddedBefore(q, i, s)

MapInv ==
    /\ \A s \in watched : s \in Known \/ AddedBefore(answers, Len(answers) + 1, s)
    /\ Ahead(answers, Known)

ServerInv == TypeOK /\ LoopTypeOK /\ FieldInv /\ MapInv

-----------------------------------------------------------------------------
(* Lemmas about the queues.                                                 *)

\* Continuations are told apart by their names.
LEMMA KindsDiffer ==
  /\ \A m, n \in Names : <<m>> = <<n>> => m = n
  /\ \A m, n, o : <<m>> # <<n, o>>
<1>1. \A m, n \in Names : <<m>> = <<n>> => m = n
  OBVIOUS
<1>2. ASSUME NEW m, NEW n, NEW o  PROVE <<m>> # <<n, o>>
  <2>1. Len(<<m>>) = 1 /\ Len(<<n, o>>) = 2
    OBVIOUS
  <2> QED  BY <2>1
<1> QED  BY <1>1, <1>2

\* A queue of elements of one set holds elements of a larger one.
LEMMA LargerSet ==
  ASSUME NEW S, NEW T, S \subseteq T, NEW q \in Seq(S)
  PROVE  q \in Seq(T)
<1>1. q \in [1..Len(q) -> S] /\ Len(q) \in Nat
  BY LenProperties
<1>2. q \in [1..Len(q) -> T]
  BY <1>1
<1> QED  BY <1>1, <1>2, SeqDef

\* A larger map allows no less.
LEMMA SetsGrow ==
  ASSUME NEW M, NEW N, NEW A, NEW B, M \subseteq N, A \subseteq B
  PROVE  /\ CallSet(M) \subseteq CallSet(N)
         /\ ResumptionSet(M, A) \subseteq ResumptionSet(N, B)
         /\ HandlerSet(M, A) \subseteq HandlerSet(N, B)
<1>1. CallSet(M) \subseteq CallSet(N)
  BY DEF CallSet
<1>2. ResumptionSet(M, A) \subseteq ResumptionSet(N, B)
  BY DEF ResumptionSet
<1> QED  BY <1>1, <1>2 DEF HandlerSet

\* Appending to the answers.
LEMMA AheadAppend ==
  ASSUME NEW S, NEW q \in Seq(S), NEW x \in S, NEW K, Ahead(q, K),
         x.k = <<"polled">> => \A s \in x.result : s \in K \/ AddedBefore(q, Len(q) + 1, s)
  PROVE  /\ Ahead(Append(q, x), K)
         /\ \A s : AddedBefore(q, Len(q) + 1, s) =>
              AddedBefore(Append(q, x), Len(Append(q, x)) + 1, s)
         /\ x.k = <<"added">> => AddedBefore(Append(q, x), Len(Append(q, x)) + 1, x.socket)
<1> DEFINE a == Append(q, x)
<1>1. /\ Len(q) \in Nat /\ Len(a) = Len(q) + 1 /\ a[Len(q) + 1] = x
      /\ \A i \in 1..Len(q) : a[i] = q[i]
  BY AppendProperties, LenProperties
<1> HIDE DEF a
<1>2. \A n \in 1..(Len(q) + 1) : \A s : AddedBefore(q, n, s) => AddedBefore(a, n, s)
  BY <1>1 DEF AddedBefore
<1>3. Ahead(a, K)
  <2> SUFFICES ASSUME NEW i \in 1..Len(a), a[i].k = <<"polled">>, NEW s \in a[i].result
               PROVE  s \in K \/ AddedBefore(a, i, s)
    BY DEF Ahead
  <2>1. CASE i \in 1..Len(q)
    BY <1>1, <1>2, <2>1 DEF Ahead
  <2>2. CASE i = Len(q) + 1
    BY <1>1, <1>2, <2>2
  <2> QED  BY <1>1, <2>1, <2>2
<1>4. ASSUME NEW s, AddedBefore(q, Len(q) + 1, s)  PROVE AddedBefore(a, Len(a) + 1, s)
  BY <1>1, <1>4 DEF AddedBefore
<1>5. ASSUME x.k = <<"added">>  PROVE AddedBefore(a, Len(a) + 1, x.socket)
  BY <1>1, <1>5 DEF AddedBefore
<1> QED  BY <1>3, <1>4, <1>5 DEF a

\* Taking the first of the answers.
LEMMA AheadTail ==
  ASSUME NEW S, NEW q \in Seq(S), q # <<>>, NEW K, NEW L, K \subseteq L, Ahead(q, K),
         Head(q).k = <<"added">> => Head(q).socket \in L
  PROVE  /\ Ahead(Tail(q), L)
         /\ Head(q).k = <<"polled">> => \A s \in Head(q).result : s \in K
         /\ \A s : AddedBefore(q, Len(q) + 1, s) =>
              s \in L \/ AddedBefore(Tail(q), Len(Tail(q)) + 1, s)
<1> DEFINE t == Tail(q)
<1>1. /\ Len(q) \in Nat \ {0} /\ Len(t) = Len(q) - 1 /\ Head(q) = q[1]
      /\ \A i \in 1..Len(t) : t[i] = q[i + 1]
  BY HeadTailProperties, LenProperties, EmptySeq
<1> HIDE DEF t
<1>2. ASSUME NEW n \in 1..(Len(q) + 1), n > 1, NEW s, AddedBefore(q, n, s)
      PROVE  s \in L \/ AddedBefore(t, n - 1, s)
  <2>1. PICK j \in 1..Len(q) : j < n /\ q[j].k = <<"added">> /\ q[j].socket = s
    BY <1>2 DEF AddedBefore
  <2>2. CASE j = 1
    BY <1>1, <2>1, <2>2
  <2>3. CASE j > 1
    <3>1. j - 1 \in 1..Len(t) /\ j - 1 < n - 1 /\ t[j - 1] = q[j]
      BY <1>1, <2>1, <2>3
    <3> QED  BY <2>1, <3>1 DEF AddedBefore
  <2> QED  BY <2>2, <2>3
<1>3. Ahead(t, L)
  <2> SUFFICES ASSUME NEW i \in 1..Len(t), t[i].k = <<"polled">>, NEW s \in t[i].result
               PROVE  s \in L \/ AddedBefore(t, i, s)
    BY DEF Ahead
  <2>1. i + 1 \in 1..Len(q) /\ t[i] = q[i + 1] /\ i + 1 > 1 /\ (i + 1) - 1 = i
    BY <1>1
  <2>2. s \in K \/ AddedBefore(q, i + 1, s)
    BY <2>1 DEF Ahead
  <2> QED  BY <1>1, <1>2, <2>1, <2>2
<1>4. ASSUME q[1].k = <<"polled">>, NEW s \in q[1].result  PROVE s \in K
  <2>1. ~AddedBefore(q, 1, s) /\ 1 \in 1..Len(q)
    BY <1>1 DEF AddedBefore
  <2> QED  BY <1>4, <2>1 DEF Ahead
<1>5. ASSUME NEW s, AddedBefore(q, Len(q) + 1, s)  PROVE s \in L \/ AddedBefore(t, Len(t) + 1, s)
  <2>1. Len(q) + 1 > 1 /\ (Len(q) + 1) - 1 = Len(t) + 1 /\ Len(q) + 1 \in 1..(Len(q) + 1)
    BY <1>1
  <2> QED  BY <1>2, <1>5, <2>1
<1> QED  BY <1>1, <1>3, <1>4, <1>5 DEF t

-----------------------------------------------------------------------------
(* Lemmas about the main thread.                                            *)

\* Elements and short queues.
LEMMA ShortQueues ==
  ASSUME NEW S
  PROVE  /\ <<>> \in Seq(S)
         /\ \A x \in S : <<x>> \in Seq(S) /\ Append(<<>>, x) = <<x>>
         /\ \A x : Head(<<x>>) = x /\ Tail(<<x>>) = <<>> /\ <<x>> # <<>> /\ Len(<<x>>) = 1
OBVIOUS

\* What resumes, and what is left behind it.
LEMMA Taking ==
  ASSUME ResumedOK, resumed # <<>>
  PROVE  /\ Head(resumed) \in ResumptionSet(Mapped, announced)
         /\ Rest \in Seq(HandlerSet(Mapped, announced))
         /\ Len(Rest) \in Nat /\ Len(resumed) = Len(Rest) + 1
         /\ Head(resumed).k = <<"polled">> => Rest = <<>> /\ Result \subseteq Mapped
         /\ Head(resumed).k = <<"disposing">> => Rest = <<>>
<1>1. CASE resumed \in Seq(HandlerSet(Mapped, announced))
  <2>1. /\ Head(resumed) \in HandlerSet(Mapped, announced)
        /\ Rest \in Seq(HandlerSet(Mapped, announced))
        /\ Len(resumed) \in Nat /\ Len(Rest) \in Nat /\ Len(resumed) = Len(Rest) + 1
    BY <1>1, HeadTailProperties, LenProperties DEF Rest
  <2> QED  BY <2>1 DEF HandlerSet
<1>2. ASSUME NEW r \in ResumptionSet(Mapped, announced), resumed = <<r>>,
             r.k = <<"polled">> => r.result \subseteq Mapped
      PROVE  /\ Head(resumed) = r /\ Rest = <<>> /\ Len(resumed) = Len(Rest) + 1
             /\ Rest \in Seq(HandlerSet(Mapped, announced)) /\ Len(Rest) \in Nat
  BY <1>2, ShortQueues DEF Rest
<1> QED  BY <1>1, <1>2 DEF ResumedOK, Result

\* A call made by a handler: queued, or answered by AsyncSRT itself during its disposal.
LEMMA PostOne ==
  ASSUME NEW M, NEW A, NEW c \in CallSet(M), calls \in Seq(CallSet(M)),
         NEW rest \in Seq(HandlerSet(M, A)), Posts(<<c>>, rest),
         asyncSrt # "live" => asyncSrt = "disposing" /\ c.k \notin {<<"polled">>, <<"disposing">>}
  PROVE  /\ calls' \in Seq(CallSet(M))
         /\ resumed' \in Seq(HandlerSet(M, A))
         /\ asyncSrt = "live" => resumed' = rest
         /\ Len(resumed') <= Len(rest) + 1
<1>1. CASE asyncSrt = "live"
  <2>1. calls' = Append(calls, c) /\ resumed' = rest
    BY <1>1, AppendIsConcat DEF Posts
  <2> QED  BY <2>1, AppendProperties, LenProperties
<1>2. CASE asyncSrt # "live"
  <2> DEFINE r == Resumption(c.k, c.socket, Undefined)
             f == [i \in 1..Len(<<c>>) |-> Resumption(<<c>>[i].k, <<c>>[i].socket, Undefined)]
  <2>1. f = <<r>>
    OBVIOUS
  <2>2. Undefined \in Fds /\ Undefined \in Outcomes
    BY DEF Fds, Outcomes
  <2>3. r \in HandlerSet(M, A)
    BY <1>2, <2>2 DEF Resumption, CallSet, ResumptionSet, HandlerSet
  <2>4. calls' = calls /\ resumed' = rest \o f
    BY <1>2 DEF Posts
  <2> HIDE DEF f, r
  <2>5. resumed' = Append(rest, r)
    BY <2>1, <2>3, <2>4, AppendIsConcat
  <2> QED  BY <1>2, <2>3, <2>4, <2>5, AppendProperties, LenProperties
<1> QED  BY <1>1, <1>2

\* The handlers of a poll each make a call.
LEMMA PostMany ==
  ASSUME NEW M, NEW A, NEW f \in Seq(CallSet(M)), calls \in Seq(CallSet(M)), Posts(f, <<>>),
         \A i \in 1..Len(f) : f[i].k = <<"state">>,
         asyncSrt # "live" => asyncSrt = "disposing"
  PROVE  /\ calls' \in Seq(CallSet(M))
         /\ resumed' \in Seq(HandlerSet(M, A))
         /\ Len(resumed') <= Len(f)
<1>0. Len(f) \in Nat
  BY LenProperties
<1>1. CASE asyncSrt = "live"
  <2>1. calls' = calls \o f /\ resumed' = <<>>
    BY <1>1 DEF Posts
  <2>2. Len(<<>>) = 0 /\ <<>> \in Seq(HandlerSet(M, A))
    OBVIOUS
  <2> QED  BY <1>0, <2>1, <2>2, ConcatProperties
<1>2. CASE asyncSrt # "live"
  <2> DEFINE g == [i \in 1..Len(f) |-> Resumption(f[i].k, f[i].socket, Undefined)]
  <2>1. calls' = calls /\ resumed' = <<>> \o g
    BY <1>2 DEF Posts
  <2>2. ASSUME NEW i \in 1..Len(f)
        PROVE  Resumption(f[i].k, f[i].socket, Undefined) \in HandlerSet(M, A)
    <3>1. f[i] \in CallSet(M) /\ f[i].k = <<"state">> /\ Undefined \in Fds /\ Undefined \in Outcomes
      BY ElementOfSeq DEF Fds, Outcomes
    <3> QED  BY <3>1, KindsDiffer DEF Resumption, CallSet, ResumptionSet, HandlerSet, Names
  <2>3. g \in [1..Len(f) -> HandlerSet(M, A)]
    BY <2>2
  <2>4. g \in Seq(HandlerSet(M, A)) /\ Len(g) = Len(f)
    BY <1>0, <2>3, SeqDef, LenProperties
  <2> HIDE DEF g
  <2> QED  BY <1>0, <2>1, <2>4, ConcatEmptySeq
<1> QED  BY <1>1, <1>2

-----------------------------------------------------------------------------
(* The worker, the network and the event loop.                              *)

\* What a native operation does to the epoll, and what it answers.
LEMMA PerformNative ==
  ASSUME NativeTypeOK, NEW M, NEW A, NEW c \in CallSet(M), NEW result \in Results(c.op),
         Perform(c, result)
  PROVE  /\ NativeTypeOK'
         /\ \A s \in watched' : s \in watched \/ (c.k = <<"added">> /\ s = c.socket) \/ s = Listener
         /\ c.k = <<"polled">> => result \subseteq watched
         /\ Resumption(c.k, c.socket, result) \in ResumptionSet(M, A)
<1>1. /\ c.op \in Ops
      /\ c.op = "epollAddUsock" => c.k = <<"added">> \/ c.socket = Listener
      /\ c.k = <<"polled">> => c.op = "epollUWait"
  BY DEF CallSet
<1>2. ASSUME SrtClose(Listener) \/ SrtClose(c.socket)
      PROVE  NativeTypeOK' /\ watched' \subseteq watched
  BY <1>2 DEF SrtClose, NativeTypeOK, SockStatus
<1>3. ASSUME UNCHANGED nativeVars  PROVE NativeTypeOK' /\ watched' = watched
  BY <1>3 DEF nativeVars, NativeTypeOK
<1>4. NativeTypeOK' /\ (c.op # "epollAddUsock" => watched' \subseteq watched)
      /\ (c.op = "epollAddUsock" => watched' \subseteq watched \union {c.socket})
  <2>1. CASE c.op = "bind"
    <3>1. Bind(result)
      BY <2>1 DEF Perform
    <3> QED  BY <1>2, <1>3, <2>1, <3>1 DEF Bind, OpenStep, NativeTypeOK, SockStatus
  <2>2. CASE c.op = "listen"
    <3>1. Listen(result)
      BY <2>2 DEF Perform
    <3> QED  BY <1>2, <2>2, <3>1 DEF Listen, OpenStep, NativeTypeOK, SockStatus
  <2>3. CASE c.op = "epollCreate"
    BY <1>3, <2>3 DEF Perform, nativeVars
  <2>4. CASE c.op = "epollAddUsock"
    <3>1. EpollAddUsock(c.socket, result)
      BY <2>4 DEF Perform
    <3> QED  BY <1>3, <2>4, <3>1 DEF EpollAddUsock, Alive, NativeTypeOK, nativeVars
  <2>5. CASE c.op = "epollUWait"
    <3>1. EpollUWait(result)
      BY <2>5 DEF Perform
    <3> QED  BY <1>3, <2>5, <3>1 DEF EpollUWait, nativeVars
  <2>6. CASE c.op = "getSockState"
    <3>1. GetSockState(c.socket, result)
      BY <2>6 DEF Perform
    <3> QED  BY <1>3, <2>6, <3>1 DEF GetSockState, nativeVars
  <2>7. CASE c.op = "accept"
    <3>1. PICK waits \in BOOLEAN : Accept(result, waits)
      BY <2>7 DEF Perform
    <3> QED  BY <1>2, <2>7, <3>1 DEF Accept, NativeTypeOK, SockStatus
  <2>8. CASE c.op = "close"
    <3>1. Close(c.socket, result)
      BY <2>8 DEF Perform
    <3> QED  BY <1>2, <1>3, <2>8, <3>1 DEF Close, nativeVars
  <2> QED  BY <1>1, <2>1, <2>2, <2>3, <2>4, <2>5, <2>6, <2>7, <2>8 DEF Ops
<1>5. c.op = "epollUWait" => result \subseteq watched
  BY DEF Perform, EpollUWait
<1>6. Resumption(c.k, c.socket, result) \in ResumptionSet(M, A)
  <2>1. result \in Outcomes
    BY <1>1 DEF Results, Outcomes, Ops
  <2>2. c.op = "accept" => result \in Fds
    BY <1>1 DEF Perform, Accept, NativeTypeOK, Fds
  <2>3. c.op = "epollUWait" => result \in SUBSET Sockets
    BY DEF Results
  <2> QED  BY <2>1, <2>2, <2>3 DEF Resumption, CallSet, ResumptionSet
<1> QED  BY <1>1, <1>4, <1>5, <1>6

\* The worker performs a call.
LEMMA WorkerStep ==
  ASSUME ServerInv, WorkerPerforms
  PROVE  ServerInv'
<1> DEFINE c == Head(calls)
<1>1. PICK result \in Results(c.op) : Perform(c, result) /\ Performed(result)
  BY DEF WorkerPerforms
<1> DEFINE a == Resumption(c.k, c.socket, result)
<1>2. /\ calls # <<>> /\ calls' = Tail(calls) /\ answers' = Append(answers, a)
      /\ UNCHANGED <<asyncSrt, resumed, opener, disposer, pollTimer, connectionMap, attached,
                     announced, disconnected, unmapped>>
  BY <1>1 DEF WorkerPerforms, Performed, eventVars
<1>3. c \in CallSet(Mapped) /\ calls' \in Seq(CallSet(Mapped))
  BY <1>2, HeadTailProperties DEF ServerInv, LoopTypeOK
<1>4. /\ NativeTypeOK'
      /\ \A s \in watched' : s \in watched \/ (c.k = <<"added">> /\ s = c.socket) \/ s = Listener
      /\ c.k = <<"polled">> => result \subseteq watched
      /\ a \in ResumptionSet(Mapped, announced)
  BY <1>1, <1>3, PerformNative DEF ServerInv, TypeOK
<1>5. a.k = c.k /\ a.socket = c.socket /\ a.result = result
  BY DEF Resumption
<1>6. asyncSrt # "disposed"
  BY <1>2 DEF ServerInv, FieldInv
<1> HIDE DEF a, c
<1>7. Mapped' = Mapped /\ Known' = Known
  BY <1>2 DEF Mapped, Known, Resumes, Socket
<1>8. LoopTypeOK'
  <2>1. answers' \in Seq(ResumptionSet(Mapped, announced))
    BY <1>2, <1>4, AppendProperties DEF ServerInv, LoopTypeOK
  <2>2. ResumedOK'
    BY <1>2, <1>7 DEF ServerInv, LoopTypeOK, ResumedOK
  <2> QED  BY <1>2, <1>3, <1>7, <2>1, <2>2 DEF LoopTypeOK
<1>9. MapInv'
  <2>1. answers \in Seq(ResumptionSet(Mapped, announced)) /\ Ahead(answers, Known)
    BY DEF ServerInv, LoopTypeOK, MapInv
  <2>2. \A s \in watched : s \in Known \/ AddedBefore(answers, Len(answers) + 1, s)
    BY DEF ServerInv, MapInv
  <2>3. a.k = <<"polled">> =>
          \A s \in a.result : s \in Known \/ AddedBefore(answers, Len(answers) + 1, s)
    BY <1>4, <1>5, <2>2
  <2>4. /\ Ahead(answers', Known)
        /\ \A s : AddedBefore(answers, Len(answers) + 1, s) =>
             AddedBefore(answers', Len(answers') + 1, s)
        /\ a.k = <<"added">> => AddedBefore(answers', Len(answers') + 1, a.socket)
    BY <1>2, <1>4, <2>1, <2>3, AheadAppend
  <2>5. Listener \in Known
    BY DEF Known, Mapped
  <2> QED  BY <1>4, <1>5, <1>7, <2>2, <2>4, <2>5 DEF MapInv
<1>10. TypeOK'
  BY <1>2, <1>4 DEF ServerInv, TypeOK
<1>11. FieldInv'
  BY <1>2, <1>6 DEF ServerInv, FieldInv
<1> QED  BY <1>8, <1>9, <1>10, <1>11 DEF ServerInv

\* There is a listener at least.
LEMMA SocketsAreFinite ==
  /\ IsFiniteSet(Sockets) /\ Cardinality(Sockets) \in Nat /\ Cardinality(Sockets) >= 1
<1>1. IsFiniteSet(Clients) /\ Listener \notin Clients /\ Cardinality(Clients) \in Nat
  BY NodeSRTAssumption, FS_CardinalityType
<1>2. IsFiniteSet(Sockets) /\ Cardinality(Sockets) = Cardinality(Clients) + 1
  BY <1>1, FS_AddElement DEF Sockets
<1> QED  BY <1>1, <1>2

\* The peers touch nothing but the native sockets.
LEMMA PeersStep ==
  ASSUME ServerInv, Peers
  PROVE  ServerInv'
<1>1. /\ NativeTypeOK' /\ watched' \subseteq watched
      /\ UNCHANGED <<loopVars, opener, disposer, pollTimer, eventVars>>
  BY DEF Peers, Network, PeerConnects, PeerLeavesBacklog, DataArrives, PeerBreaks, Library,
         LibraryCloses, LibraryForgets, ServerInv, TypeOK, NativeTypeOK, SockStatus
<1> QED  BY <1>1 DEF ServerInv, TypeOK, LoopTypeOK, FieldInv, MapInv, loopVars, eventVars, Mapped,
                     Known, Resumes, Socket, ResumedOK

\* The next answer arrives.
LEMMA AnswerStep ==
  ASSUME ServerInv, MainThreadAnswered
  PROVE  ServerInv'
<1> DEFINE a == Head(answers)
<1>1. /\ answers # <<>> /\ resumed = <<>> /\ resumed' = <<a>> /\ answers' = Tail(answers)
      /\ UNCHANGED <<nativeVars, asyncSrt, calls, opener, disposer, pollTimer, connectionMap,
                     attached, announced, disconnected, unmapped>>
  BY DEF MainThreadAnswered, AnswerArrives, Idle, eventVars
<1>2. a \in ResumptionSet(Mapped, announced) /\ answers' \in Seq(ResumptionSet(Mapped, announced))
  BY <1>1, HeadTailProperties DEF ServerInv, LoopTypeOK
<1>3. Known = Mapped /\ Mapped' = Mapped
      /\ Known' = Mapped \union (IF a.k = <<"added">> THEN {a.socket} ELSE {})
  <2>1. Head(resumed') = a /\ resumed' # <<>>
    BY <1>1, ShortQueues
  <2> QED  BY <1>1, <2>1 DEF Known, Mapped, Resumes, Socket
<1>4. /\ Ahead(Tail(answers), Known')
      /\ a.k = <<"polled">> => \A s \in a.result : s \in Mapped
      /\ \A s : AddedBefore(answers, Len(answers) + 1, s) =>
           s \in Known' \/ AddedBefore(Tail(answers), Len(Tail(answers)) + 1, s)
  <2>1. answers \in Seq(ResumptionSet(Mapped, announced)) /\ Ahead(answers, Mapped)
    BY <1>3 DEF ServerInv, LoopTypeOK, MapInv
  <2>2. Mapped \subseteq Known' /\ (a.k = <<"added">> => a.socket \in Known')
    BY <1>3
  <2> QED  BY <1>1, <1>3, <2>1, <2>2, AheadTail
<1> HIDE DEF a
<1>5. MapInv'
  BY <1>1, <1>3, <1>4 DEF ServerInv, MapInv, nativeVars
<1>6. LoopTypeOK'
  <2>1. ResumedOK'
    BY <1>1, <1>2, <1>3, <1>4 DEF ResumedOK
  <2> QED  BY <1>1, <1>2, <1>3, <2>1 DEF ServerInv, LoopTypeOK
<1>7. FieldInv'
  BY <1>1 DEF ServerInv, FieldInv
<1>8. Len(resumed') <= Cardinality(Sockets)
  <2> QED  BY <1>1, SocketsAreFinite, ShortQueues
<1>9. TypeOK'
  BY <1>1, <1>8 DEF ServerInv, TypeOK, NativeTypeOK, nativeVars
<1> QED  BY <1>5, <1>6, <1>7, <1>9 DEF ServerInv

-----------------------------------------------------------------------------
(* The handlers on the main thread.                                         *)

\* Code that runs on the main thread disturbs no answer, and forgets no connection.
LEMMA MainKeeps ==
  ASSUME ServerInv, UNCHANGED <<nativeVars, answers>>,
         connectionMap \subseteq connectionMap', announced \subseteq announced',
         calls' \in Seq(CallSet(Mapped')), resumed' \in Seq(HandlerSet(Mapped', announced')),
         Resumes(<<"added">>) => Socket \in connectionMap'
  PROVE  LoopTypeOK' /\ MapInv'
<1>1. Mapped \subseteq Mapped' /\ Known \subseteq Known'
  BY DEF Mapped, Known
<1>2. LoopTypeOK'
  <2>1. answers' \in Seq(ResumptionSet(Mapped', announced'))
    BY <1>1, SetsGrow, LargerSet DEF ServerInv, LoopTypeOK
  <2> QED  BY <2>1 DEF LoopTypeOK, ResumedOK
<1>3. MapInv'
  <2>1. Ahead(answers, Known')
    BY <1>1 DEF ServerInv, MapInv, Ahead
  <2> QED  BY <1>1, <2>1 DEF ServerInv, MapInv, nativeVars
<1> QED  BY <1>2, <1>3

\* While something resumes, the AsyncSRT is not disposed of.
LEMMA Running ==
  ASSUME ServerInv, resumed # <<>>
  PROVE  /\ asyncSrt \in {"live", "disposing"}
         /\ Head(resumed) \in ResumptionSet(Mapped, announced)
         /\ Rest \in Seq(HandlerSet(Mapped, announced))
         /\ Len(Rest) \in Nat /\ Len(Rest) + 1 <= Cardinality(Sockets)
         /\ Head(resumed).k = <<"polled">> => Rest = <<>> /\ Result \subseteq Mapped
         /\ Head(resumed).k = <<"disposing">> => Rest = <<>>
<1>1. asyncSrt \in {"live", "disposing"} /\ Len(resumed) <= Cardinality(Sockets) /\ ResumedOK
  BY DEF ServerInv, TypeOK, FieldInv, LoopTypeOK
<1> QED  BY <1>1, Taking

\* A method or a continuation makes a call or none.
LEMMA OneCall ==
  ASSUME ServerInv, NEW c \in CallSet(Mapped), NEW rest,
         UNCHANGED <<nativeVars, answers, asyncSrt, eventVars>>,
         \/ disposer' = disposer
         \/ disposer = "idle" /\ disposer' = "closing",
         opener' \in [Opens -> {"idle", "running", "opened", "failed"}],
         pollTimer' \in BOOLEAN,
         \/ resumed # <<>> /\ Head(resumed).k # <<"added">> /\ rest = Rest
         \/ resumed = <<>> /\ rest = resumed,
         \/ PostsNothing(rest)
         \/ /\ Posts(<<c>>, rest)
            /\ \/ asyncSrt = "live"
               \/ resumed # <<>> /\ c.k \notin {<<"polled">>, <<"disposing">>}
  PROVE  ServerInv'
<1>1. /\ rest \in Seq(HandlerSet(Mapped, announced)) /\ Len(rest) \in Nat
      /\ Len(rest) + 1 <= Cardinality(Sockets)
      /\ asyncSrt = "disposed" => rest = <<>>
  <2>1. CASE resumed # <<>> /\ rest = Rest
    BY <2>1, Running
  <2>2. CASE resumed = <<>> /\ rest = resumed
    <3>1. Len(<<>>) = 0 /\ <<>> \in Seq(HandlerSet(Mapped, announced))
      OBVIOUS
    <3> QED  BY <2>2, <3>1, SocketsAreFinite
  <2> QED  BY <2>1, <2>2
<1>2. calls \in Seq(CallSet(Mapped)) /\ Mapped' = Mapped /\ announced' = announced
  BY DEF ServerInv, LoopTypeOK, Mapped, eventVars
<1>3. asyncSrt \in {"live", "disposing", "disposed"} /\ (resumed # <<>> => asyncSrt # "disposed")
  BY DEF ServerInv, TypeOK, FieldInv
<1>4. /\ calls' \in Seq(CallSet(Mapped)) /\ resumed' \in Seq(HandlerSet(Mapped, announced))
      /\ Len(resumed') <= Cardinality(Sockets)
      /\ asyncSrt = "disposed" => calls' = calls /\ resumed' = <<>>
  <2>1. CASE PostsNothing(rest)
    <3>1. calls' = calls /\ resumed' = rest
      BY <2>1 DEF PostsNothing
    <3> QED  BY <1>1, <1>2, <3>1, SocketsAreFinite
  <2>2. CASE /\ Posts(<<c>>, rest)
             /\ \/ asyncSrt = "live"
                \/ resumed # <<>> /\ c.k \notin {<<"polled">>, <<"disposing">>}
    <3>1. /\ calls' \in Seq(CallSet(Mapped)) /\ resumed' \in Seq(HandlerSet(Mapped, announced))
          /\ Len(resumed') <= Len(rest) + 1
      BY <1>1, <1>2, <1>3, <2>2, PostOne
    <3>2. Len(resumed') \in Nat
      BY <3>1, LenProperties
    <3> QED  BY <1>1, <1>3, <2>2, <3>1, <3>2, SocketsAreFinite
  <2> QED  BY <2>1, <2>2
<1>5. LoopTypeOK' /\ MapInv'
  <2>1. ~Resumes(<<"added">>)
    BY DEF Resumes
  <2> QED  BY <1>2, <1>4, <2>1, MainKeeps DEF eventVars
<1>6. TypeOK'
  BY <1>4 DEF ServerInv, TypeOK, NativeTypeOK, nativeVars, eventVars
<1>7. FieldInv'
  BY <1>4 DEF ServerInv, FieldInv, eventVars
<1> QED  BY <1>5, <1>6, <1>7 DEF ServerInv

\* The calls that the methods and the continuations make.
LEMMA CallsOfServer ==
  /\ \A n \in {"bound", "listening", "created", "watching"}, o \in Opens :
       /\ Call("bind", Listener, <<n, o>>) \in CallSet(Mapped)
       /\ Call("listen", Listener, <<n, o>>) \in CallSet(Mapped)
       /\ Call("epollCreate", Listener, <<n, o>>) \in CallSet(Mapped)
       /\ Call("epollAddUsock", Listener, <<n, o>>) \in CallSet(Mapped)
       /\ <<n, o>> \notin {<<"polled">>, <<"disposing">>, <<"added">>}
  /\ Call("epollUWait", Listener, <<"polled">>) \in CallSet(Mapped)
  /\ Call("accept", Listener, <<"accepted">>) \in CallSet(Mapped)
  /\ Call("close", Listener, <<"disposing">>) \in CallSet(Mapped)
  /\ \A s \in Fds : Call("epollAddUsock", s, <<"added">>) \in CallSet(Mapped)
  /\ \A s \in Mapped \intersect Sockets :
       Call("getSockState", s, <<"state">>) \in CallSet(Mapped)
<1>1. Listener \in Sockets
  BY DEF Sockets
<1>2. ASSUME NEW n \in {"bound", "listening", "created", "watching"}, NEW o \in Opens
      PROVE  /\ <<n, o>> \in Kinds /\ \A m : <<n, o>> # <<m>>
  BY KindsDiffer DEF Kinds
<1>3. \A n \in Names : <<n>> \in Kinds
  BY DEF Kinds
<1>4. \A n \in {"bound", "listening", "created", "watching"}, o \in Opens,
         op \in {"bind", "listen", "epollCreate", "epollAddUsock"} :
        Call(op, Listener, <<n, o>>) \in CallSet(Mapped)
  BY <1>1, <1>2 DEF Call, CallSet, Ops
<1>5. /\ Call("epollUWait", Listener, <<"polled">>) \in CallSet(Mapped)
      /\ Call("accept", Listener, <<"accepted">>) \in CallSet(Mapped)
      /\ Call("close", Listener, <<"disposing">>) \in CallSet(Mapped)
  BY <1>1, <1>3, KindsDiffer DEF Call, CallSet, Ops, Names
<1>6. \A s \in Fds : Call("epollAddUsock", s, <<"added">>) \in CallSet(Mapped)
  BY <1>3, KindsDiffer DEF Call, CallSet, Ops, Names
<1>7. \A s \in Mapped \intersect Sockets :
        Call("getSockState", s, <<"state">>) \in CallSet(Mapped)
  BY <1>3, KindsDiffer DEF Call, CallSet, Ops, Names
<1> QED  BY <1>2, <1>4, <1>5, <1>6, <1>7

\* open() and the continuations of _open().
LEMMA OpeningStep ==
  ASSUME ServerInv, NEW o \in Opens,
         Open(o) \/ Bound(o) \/ Listening(o) \/ EpollCreated(o) \/ Watching(o)
  PROVE  ServerInv'
<1> USE CallsOfServer
<1>1. opener \in [Opens -> {"idle", "running", "opened", "failed"}] /\ pollTimer \in BOOLEAN
  BY DEF ServerInv, TypeOK
<1>2. CASE Open(o)
  <2>1. asyncSrt = "live"
    BY <1>2 DEF Open, ServerInv, FieldInv
  <2>2. opener' \in [Opens -> {"idle", "running", "opened", "failed"}]
    BY <1>1, <1>2 DEF Open
  <2> QED  BY <1>1, <1>2, <2>1, <2>2, OneCall DEF Open, Idle
<1>3. ASSUME NEW k \in {"bound", "listening", "created"}, NEW next \in CallSet(Mapped),
             next.k \notin {<<"polled">>, <<"disposing">>}, OpenGoesOn(o, k, next)
      PROVE  ServerInv'
  <2>1. opener' \in [Opens -> {"idle", "running", "opened", "failed"}]
    BY <1>1, <1>3 DEF OpenGoesOn
  <2>2. resumed # <<>> /\ Head(resumed).k # <<"added">>
    BY <1>3 DEF OpenGoesOn, Resumes
  <2> QED  BY <1>1, <1>3, <2>1, <2>2, OneCall DEF OpenGoesOn
<1>4. CASE Bound(o) \/ Listening(o) \/ EpollCreated(o)
  <2>1. \A op : Call(op, Listener, <<"listening", o>>).k = <<"listening", o>>
              /\ Call(op, Listener, <<"created", o>>).k = <<"created", o>>
              /\ Call(op, Listener, <<"watching", o>>).k = <<"watching", o>>
    BY DEF Call
  <2> QED  BY <1>3, <1>4, <2>1 DEF Bound, Listening, EpollCreated
<1>5. CASE Watching(o)
  <2>1. opener' \in [Opens -> {"idle", "running", "opened", "failed"}]
    BY <1>1, <1>5 DEF Watching
  <2>2. resumed # <<>> /\ Head(resumed).k # <<"added">>
    BY <1>5 DEF Watching, Resumes
  <2>3. /\ pollTimer' \in BOOLEAN
        /\ \/ PostsNothing(Rest)
           \/ asyncSrt = "live" /\ Posts(<<Call("epollUWait", Listener, <<"polled">>)>>, Rest)
    BY <1>1, <1>5 DEF Watching, PollEvents
  <2> QED  BY <1>5, <2>1, <2>2, <2>3, OneCall DEF Watching
<1> QED  BY <1>2, <1>4, <1>5

\* The timer, the listener's handler up to its last await, and dispose().
LEMMA OneCallStep ==
  ASSUME ServerInv, PollTimer \/ ListenerEvent \/ Accepted \/ Dispose
  PROVE  ServerInv'
<1> USE CallsOfServer
<1>1. opener \in [Opens -> {"idle", "running", "opened", "failed"}] /\ pollTimer \in BOOLEAN
  BY DEF ServerInv, TypeOK
<1>2. CASE PollTimer
  BY <1>1, <1>2, OneCall DEF PollTimer, Idle
<1>3. CASE ListenerEvent
  <2> DEFINE c == Call("accept", Listener, <<"accepted">>)
  <2>1. /\ resumed # <<>> /\ Head(resumed).k # <<"added">>
        /\ c.k \notin {<<"polled">>, <<"disposing">>} /\ c \in CallSet(Mapped)
    BY <1>3, KindsDiffer DEF ListenerEvent, Resumes, Names, Call
  <2>2. PostsNothing(Rest) \/ Posts(<<c>>, Rest)
    BY <1>3 DEF ListenerEvent
  <2> HIDE DEF c
  <2> QED  BY <1>1, <1>3, <2>1, <2>2, OneCall DEF ListenerEvent
<1>4. CASE Accepted
  <2> DEFINE c == Call("epollAddUsock", Result, <<"added">>)
  <2>1. /\ resumed # <<>> /\ Head(resumed).k = <<"accepted">> /\ Head(resumed).k # <<"added">>
        /\ c.k \notin {<<"polled">>, <<"disposing">>}
    BY <1>4, KindsDiffer DEF Accepted, Resumes, Names, Call
  <2>2. Result \in Fds
    BY <2>1, Running DEF ResumptionSet, Result
  <2>3. c \in CallSet(Mapped) /\ Posts(<<c>>, Rest)
    BY <1>4, <2>2 DEF Accepted
  <2> HIDE DEF c
  <2> QED  BY <1>1, <1>4, <2>1, <2>3, OneCall DEF Accepted
<1>5. CASE Dispose
  <2>1. asyncSrt = "live"
    BY <1>5 DEF Dispose, ServerInv, FieldInv
  <2> QED  BY <1>1, <1>5, <2>1, OneCall DEF Dispose, Idle
<1> QED  BY <1>2, <1>3, <1>4, <1>5

\* A poll starts a handler for each socket it reports, which is mapped.
LEMMA PolledStep ==
  ASSUME ServerInv, Polled
  PROVE  ServerInv'
<1>1. PICK order \in Orders(Result) :
        Posts([i \in DOMAIN order |-> Call("getSockState", order[i], <<"state">>)], Rest)
  BY DEF Polled
<1> DEFINE f == [i \in DOMAIN order |-> Call("getSockState", order[i], <<"state">>)]
<1>2. resumed # <<>> /\ Head(resumed).k = <<"polled">> /\ ~Resumes(<<"added">>)
  BY KindsDiffer DEF Polled, Resumes, Names
<1>3. Rest = <<>> /\ Result \subseteq Mapped /\ Result \subseteq Sockets
  BY <1>2, Running DEF ResumptionSet, Result
<1>4. Cardinality(Result) \in Nat /\ Cardinality(Result) <= Cardinality(Sockets)
  BY <1>3, SocketsAreFinite, FS_Subset, FS_CardinalityType
<1>5. order \in [1..Cardinality(Result) -> Result]
  BY DEF Orders
<1>6. /\ f \in [1..Cardinality(Result) -> CallSet(Mapped)]
      /\ \A i \in 1..Cardinality(Result) : f[i].k = <<"state">>
  <2>1. \A i \in 1..Cardinality(Result) :
          /\ Call("getSockState", order[i], <<"state">>) \in CallSet(Mapped)
          /\ Call("getSockState", order[i], <<"state">>).k = <<"state">>
    BY <1>3, <1>5, CallsOfServer DEF Call
  <2> QED  BY <1>5, <2>1
<1>7. Posts(f, <<>>)
  BY <1>1, <1>3
<1> HIDE DEF f
<1>8. f \in Seq(CallSet(Mapped)) /\ Len(f) = Cardinality(Result)
  BY <1>4, <1>6, SeqDef, LenProperties
<1>9. /\ calls' \in Seq(CallSet(Mapped)) /\ resumed' \in Seq(HandlerSet(Mapped, announced))
      /\ Len(resumed') <= Len(f)
  <2>1. calls \in Seq(CallSet(Mapped)) /\ asyncSrt \in {"live", "disposing"}
    BY <1>2, Running DEF ServerInv, LoopTypeOK
  <2> QED  BY <1>6, <1>7, <1>8, <2>1, PostMany
<1>10. Mapped' = Mapped
       /\ UNCHANGED <<nativeVars, answers, asyncSrt, opener, disposer, eventVars>> /\ pollTimer'
  BY DEF Polled, Mapped, eventVars
<1>11. LoopTypeOK' /\ MapInv'
  BY <1>2, <1>9, <1>10, MainKeeps DEF eventVars
<1>12. Len(resumed') <= Cardinality(Sockets)
  <2>1. Len(resumed') \in Nat
    BY <1>9, LenProperties
  <2> QED  BY <1>4, <1>8, <1>9, <2>1, SocketsAreFinite
<1>13. TypeOK'
  <2>1. pollTimer' \in BOOLEAN
    BY DEF Polled
  <2> QED  BY <1>10, <1>12, <2>1 DEF ServerInv, TypeOK, NativeTypeOK, nativeVars, eventVars
<1>14. FieldInv'
  BY <1>2, <1>10 DEF ServerInv, FieldInv, eventVars
<1> QED  BY <1>11, <1>13, <1>14 DEF ServerInv

\* The end of a handler: what it does to the map and what it emits.
LEMMA HandlerStep ==
  ASSUME ServerInv, Added \/ BrokenEvent \/ ConnectionClosed \/ DataEvent
  PROVE  ServerInv'
<1>1. /\ resumed # <<>>
      /\ UNCHANGED <<nativeVars, answers, asyncSrt, calls, opener, disposer, pollTimer>>
  BY DEF Added, BrokenEvent, ConnectionClosed, DataEvent, Resumes, CloseConnection, ServerInv,
         FieldInv
<1>2. /\ asyncSrt \in {"live", "disposing"}
      /\ Head(resumed) \in ResumptionSet(Mapped, announced)
      /\ Rest \in Seq(HandlerSet(Mapped, announced))
      /\ Len(Rest) \in Nat /\ Len(Rest) + 1 <= Cardinality(Sockets)
  BY <1>1, Running
<1>3. /\ calls \in Seq(CallSet(Mapped)) /\ connectionMap \subseteq announced
      /\ attached = {} /\ unmapped = {}
      /\ announced \subseteq Fds /\ disconnected \subseteq announced
  BY DEF ServerInv, LoopTypeOK, FieldInv, TypeOK
<1>4. ASSUME connectionMap \subseteq connectionMap', announced \subseteq announced',
             connectionMap' \subseteq announced', announced' \subseteq Fds,
             disconnected' \subseteq announced', attached' = {}, unmapped' = {},
             \/ resumed' = Rest
             \/ \E r \in HandlerSet(Mapped, announced) : resumed' = Append(Rest, r),
             Resumes(<<"added">>) => Socket \in connectionMap'
      PROVE  ServerInv'
  <2>1. /\ resumed' \in Seq(HandlerSet(Mapped, announced))
        /\ Len(resumed') <= Cardinality(Sockets)
    <3>1. CASE resumed' = Rest
      BY <1>2, <3>1, SocketsAreFinite
    <3>2. ASSUME NEW r \in HandlerSet(Mapped, announced), resumed' = Append(Rest, r)
          PROVE  /\ resumed' \in Seq(HandlerSet(Mapped, announced))
                 /\ Len(resumed') = Len(Rest) + 1
      BY <1>2, <3>2, AppendProperties
    <3> QED  BY <1>2, <1>4, <3>1, <3>2
  <2>2. Mapped \subseteq Mapped'
    BY <1>4 DEF Mapped
  <2>3. /\ calls' \in Seq(CallSet(Mapped'))
        /\ resumed' \in Seq(HandlerSet(Mapped', announced'))
    <3>1. /\ CallSet(Mapped) \subseteq CallSet(Mapped')
          /\ HandlerSet(Mapped, announced) \subseteq HandlerSet(Mapped', announced')
      BY <1>4, <2>2, SetsGrow
    <3>2. calls' \in Seq(CallSet(Mapped))
      BY <1>1, <1>3
    <3> QED  BY <2>1, <3>1, <3>2, LargerSet
  <2>4. LoopTypeOK' /\ MapInv'
    BY <1>1, <1>4, <2>3, MainKeeps
  <2>5. TypeOK'
    BY <1>1, <1>4, <2>1 DEF ServerInv, TypeOK, NativeTypeOK, nativeVars
  <2>6. FieldInv'
    BY <1>1, <1>2, <1>4 DEF ServerInv, FieldInv
  <2> QED  BY <2>4, <2>5, <2>6 DEF ServerInv
<1>5. CASE Added
  <2>1. Socket \in Fds
    BY <1>2, <1>5 DEF Added, Resumes, ResumptionSet, Socket
  <2> QED  BY <1>3, <1>4, <1>5, <2>1 DEF Added, NewConnection
<1>6. CASE BrokenEvent
  <2>1. ~Resumes(<<"added">>)
    BY <1>6, KindsDiffer DEF BrokenEvent, Resumes, Names
  <2>2. UNCHANGED <<connectionMap, attached, announced, disconnected, unmapped>>
    BY <1>3, <1>6 DEF BrokenEvent, CloseConnection
  <2>3. CASE Socket \in connectionMap
    <3>1. resumed' = Append(Rest, Resumption(<<"closed">>, Socket, Success))
      BY <1>3, <1>6, <2>3 DEF BrokenEvent, CloseConnection
    <3>2. Resumption(<<"closed">>, Socket, Success) \in HandlerSet(Mapped, announced)
      <4>1. Socket \in announced /\ Socket \in Fds /\ Success \in Outcomes /\ <<"closed">> \in Kinds
        BY <1>3, <2>3 DEF Outcomes, Kinds, Names
      <4> QED  BY <4>1, KindsDiffer DEF Resumption, ResumptionSet, HandlerSet, Names
    <3> QED  BY <1>3, <1>4, <2>1, <2>2, <3>1, <3>2
  <2>4. CASE Socket \notin connectionMap
    <3>1. resumed' = Rest
      BY <1>6, <2>4 DEF BrokenEvent
    <3> QED  BY <1>3, <1>4, <2>1, <2>2, <3>1
  <2> QED  BY <2>3, <2>4
<1>7. CASE ConnectionClosed
  <2>1. Socket \in announced /\ ~Resumes(<<"added">>)
    BY <1>2, <1>7, KindsDiffer DEF ConnectionClosed, Resumes, ResumptionSet, Socket, Names
  <2> QED  BY <1>3, <1>4, <1>7, <2>1 DEF ConnectionClosed
<1>8. CASE DataEvent
  <2>1. Socket \in Mapped /\ ~Resumes(<<"added">>)
    BY <1>2, <1>8, KindsDiffer DEF DataEvent, Resumes, ResumptionSet, Socket, Names
  <2>2. disposer # "done"
    BY <1>2 DEF ServerInv, FieldInv
  <2>3. Socket \in connectionMap
    BY <1>8, <2>1, <2>2 DEF DataEvent, IsListener, Mapped
  <2> QED  BY <1>3, <1>4, <1>8, <2>1, <2>3 DEF DataEvent
<1> QED  BY <1>5, <1>6, <1>7, <1>8

\* The disposal goes on.
LEMMA DisposalStep ==
  ASSUME ServerInv, ListenerClosed \/ DisposeProceed \/ WorkerExited
  PROVE  ServerInv'
<1>1. /\ resumed' = <<>>
      /\ UNCHANGED <<nativeVars, calls, answers, opener, pollTimer, eventVars>>
      /\ ~Resumes(<<"added">>)
  <2>1. CASE ListenerClosed
    <3>1. resumed # <<>> /\ Head(resumed).k = <<"disposing">>
      BY <2>1 DEF ListenerClosed, Resumes
    <3> QED  BY <2>1, <3>1, Running, KindsDiffer DEF ListenerClosed, Resumes, Names
  <2>2. CASE DisposeProceed \/ WorkerExited
    BY <2>2 DEF DisposeProceed, WorkerExited, Idle, Resumes, loopVars
  <2> QED  BY <2>1, <2>2
<1>2. InFlight = <<>> => calls = <<>> /\ answers = <<>>
  <2> SUFFICES ASSUME InFlight = <<>>  PROVE calls = <<>> /\ answers = <<>>
    OBVIOUS
  <2>1. /\ answers \in Seq(ResumptionSet(Mapped, announced)) /\ calls \in Seq(CallSet(Mapped))
        /\ Len(answers) \in Nat /\ Len(calls) \in Nat
    BY LenProperties DEF ServerInv, LoopTypeOK
  <2>2. Len(answers \o calls) = Len(answers) + Len(calls)
    BY <2>1
  <2>3. Len(answers) = 0 /\ Len(calls) = 0
    BY <2>1, <2>2 DEF InFlight
  <2> QED  BY <2>1, <2>3, EmptySeq
<1>3. /\ asyncSrt' = "live" <=> disposer' \in {"idle", "closing"}
      /\ asyncSrt' = "disposing" <=> disposer' = "waiting"
      /\ asyncSrt' \in {"live", "disposing", "disposed"}
      /\ disposer' \in {"waiting", "terminating", "done"}
      /\ asyncSrt' = "disposed" => calls = <<>> /\ answers = <<>>
  <2>1. CASE ListenerClosed
    BY <1>2, <2>1 DEF ListenerClosed
  <2>2. CASE DisposeProceed
    BY <1>2, <2>2 DEF DisposeProceed
  <2>3. CASE WorkerExited
    BY <2>3 DEF WorkerExited, ServerInv, FieldInv, TypeOK, loopVars
  <2> QED  BY <2>1, <2>2, <2>3
<1>4. /\ <<>> \in Seq(HandlerSet(Mapped, announced)) /\ Len(<<>>) = 0
      /\ calls \in Seq(CallSet(Mapped)) /\ Mapped' = Mapped
  BY <1>1, ShortQueues DEF ServerInv, LoopTypeOK, Mapped, eventVars
<1>5. LoopTypeOK' /\ MapInv'
  BY <1>1, <1>4, MainKeeps DEF eventVars
<1>6. TypeOK'
  BY <1>1, <1>3, <1>4, SocketsAreFinite
     DEF ServerInv, TypeOK, NativeTypeOK, nativeVars, eventVars
<1>7. FieldInv'
  BY <1>1, <1>3 DEF ServerInv, FieldInv, eventVars
<1> QED  BY <1>5, <1>6, <1>7 DEF ServerInv

-----------------------------------------------------------------------------
(* The theorems.                                                            *)

\* Nothing happens.
LEMMA Stutter == ServerInv /\ UNCHANGED vars => ServerInv'
BY DEF ServerInv, TypeOK, NativeTypeOK, LoopTypeOK, FieldInv, MapInv, vars, nativeVars, loopVars,
       eventVars, Mapped, Known, Resumes, Socket, ResumedOK

\* The inductive invariant.
LEMMA ServerInvariant == Spec => []ServerInv
<1>1. Init => ServerInv
  <2> SUFFICES ASSUME Init  PROVE ServerInv
    OBVIOUS
  <2>1. \A S : <<>> \in Seq(S) /\ Len(<<>>) = 0
    OBVIOUS
  <2>2. TypeOK
    <3>1. Len(resumed) <= Cardinality(Sockets)
      BY <2>1, SocketsAreFinite DEF Init, LoopInit
    <3>2. NativeTypeOK
      BY DEF Init, NativeInit, NativeTypeOK, SockStatus
    <3> QED  BY <3>1, <3>2 DEF Init, LoopInit, TypeOK
  <2>3. LoopTypeOK
    BY <2>1 DEF Init, LoopInit, LoopTypeOK, ResumedOK
  <2>4. FieldInv
    BY DEF Init, LoopInit, FieldInv
  <2>5. MapInv
    BY <2>1 DEF Init, NativeInit, LoopInit, MapInv, Ahead
  <2> QED  BY <2>2, <2>3, <2>4, <2>5 DEF ServerInv
<1>2. ServerInv /\ [Next]_vars => ServerInv'
  BY WorkerStep, AnswerStep, PeersStep, OpeningStep, OneCallStep, PolledStep, HandlerStep,
     DisposalStep, Stutter DEF Next, MainThread, UserOpens, Continuations
<1> QED  BY <1>1, <1>2, PTL DEF Spec

(* Every field of the server keeps its type, and no more handlers run at    *)
(* once than there are sockets.                                             *)
THEOREM TypeCorrect == Spec => []TypeOK
BY ServerInvariant, PTL DEF ServerInv

(* However many peers there are and however the handlers interleave, no     *)
(* handler finds the connection of its event missing from the map.          *)
THEOREM EveryEventIsMapped == Spec => []EventsAreMapped
<1>1. ServerInv => EventsAreMapped
  BY DEF ServerInv, FieldInv, EventsAreMapped
<1> QED  BY <1>1, ServerInvariant, PTL

(* Nothing of the server calls into its AsyncSRT after the disposal,        *)
(* whatever handlers were running when it began.                            *)
THEOREM NothingIsRejected == Spec => []NeverRejected
<1>1. ServerInv => NeverRejected
  <2> SUFFICES ASSUME ServerInv  PROVE NeverRejected
    OBVIOUS
  <2>1. asyncSrt = "disposed" => InFlight \o resumed = <<>>
    BY ConcatEmptySeq, ShortQueues DEF ServerInv, FieldInv, InFlight
  <2>2. ASSUME NEW i \in 1..Len(resumed)  PROVE resumed[i].result # Rejected
    <3>1. resumed[i] \in ResumptionSet(Mapped, announced)
      <4>1. CASE resumed \in Seq(HandlerSet(Mapped, announced))
        BY <4>1, ElementOfSeq DEF HandlerSet
      <4>2. ASSUME NEW r \in ResumptionSet(Mapped, announced), resumed = <<r>>
            PROVE  resumed[i] = r
        BY <4>2
      <4> QED  BY <4>1, <4>2 DEF ServerInv, LoopTypeOK, ResumedOK
    <3>2. Rejected \notin Outcomes
      BY SRTServerAssumption DEF Outcomes, Sockets
    <3> QED  BY <3>1, <3>2 DEF ResumptionSet
  <2> QED  BY <2>1, <2>2 DEF NeverRejected
<1> QED  BY <1>1, ServerInvariant, PTL

=============================================================================
