----------------------- MODULE SRTServerAccept_proofs -----------------------
(***************************************************************************)
(* Why an SRTServer has one poll loop, why its worker does not wait in     *)
(* accept() for a peer nobody has reported, and why every 'connection' is  *)
(* that of a socket that was accepted, or of the failure of accept() after *)
(* the peer has left, for any number of peers and of open() calls.         *)
(***************************************************************************)
EXTENDS SRTServer_proofs

-----------------------------------------------------------------------------
(* What is in the queues.                                                   *)

Named(n) == {n} \X Opens
Starting == {"listening", "created", "watching"} \X Opens

ServerCalls ==
    {c \in [op : Ops, socket : Sockets \union Fds, k : Kinds] :
        /\ c.op = "bind" <=> c.k \in Named("bound")
        /\ c.op = "listen" <=> c.k \in Named("listening")
        /\ c.op = "epollUWait" <=> c.k = <<"polled">>
        /\ c.op = "getSockState" <=> c.k = <<"state">>
        /\ c.op = "accept" <=> c.k = <<"accepted">>
        /\ c.op = "close" <=> c.k = <<"disposing">>
        /\ c.op = "epollAddUsock" /\ c.k # <<"added">> => c.socket = Listener
        /\ c.op = "close" => c.socket = Listener}
ServerAnswers == [k : Kinds, socket : Sockets \union Fds, result : Outcomes]

\* What drives the poll loop or will start it, and is not refused.
PollCalls == {c \in ServerCalls : c.k = <<"polled">>}
PollAnswers == {r \in ServerAnswers : r.k = <<"polled">>}
BoundAnswers == {r \in ServerAnswers : r.k \in Named("bound") /\ r.result # Failed}
DriveCalls == PollCalls \union {c \in ServerCalls : c.k \in Starting}
DriveAnswers == PollAnswers \union BoundAnswers \union {r \in ServerAnswers : r.k \in Starting}

BindCalls(o) == {c \in ServerCalls : c.k = <<"bound", o>>}
ListenCalls == {c \in ServerCalls : c.op = "listen"}
CloseCalls == {c \in ServerCalls : c.op = "close"}

\* The handler of the listener, from the report of a poll to accept().
Reports == {r \in PollAnswers : Listener \in r.result}
CheckCalls == {c \in ServerCalls : c.k = <<"state">> /\ c.socket = Listener}
Found == {r \in ServerAnswers : r.k = <<"state">> /\ r.socket = Listener /\ r.result = "LISTENING"}
AcceptCalls == {c \in ServerCalls : c.k = <<"accepted">>}

None(q, S) == \A i \in 1..Len(q) : q[i] \notin S
AtMostOne(q, S) == \A i, j \in 1..Len(q) : q[i] \in S /\ q[j] \in S => i = j
Before(q, S, T) == \A i, j \in 1..Len(q) : q[i] \in S /\ q[j] \in T => i < j

-----------------------------------------------------------------------------
(* The inductive invariant.                                                 *)

QueueInv ==
    /\ calls \in Seq(ServerCalls)
    /\ answers \in Seq(ServerAnswers)
    /\ resumed \in Seq(ServerAnswers)

\* The listener of a server is never connected, only a listening one has a backlog,
\* and a closed one is not watched.
NativeInv ==
    /\ status[Listener] \in {"INIT", "OPENED", "LISTENING", "CLOSED"}
    /\ backlog # {} => status[Listener] = "LISTENING"
    /\ Listener \notin readable
    /\ Listener \in watched => status[Listener] # "CLOSED"

\* There is one poll loop at most, however often open() is called.
NoDriver == None(resumed, DriveAnswers) /\ None(answers, DriveAnswers) /\ None(calls, DriveCalls)

LoopInv ==
    /\ AtMostOne(resumed, DriveAnswers)
    /\ AtMostOne(answers, DriveAnswers)
    /\ AtMostOne(calls, DriveCalls)
    /\ None(resumed, DriveAnswers) \/ (None(answers, DriveAnswers) /\ None(calls, DriveCalls))
    /\ None(answers, DriveAnswers) \/ None(calls, DriveCalls)
    /\ status[Listener] = "INIT" => NoDriver /\ ~pollTimer
    /\ pollTimer => NoDriver
    /\ status[Listener] = "LISTENING" =>
         None(calls, ListenCalls) /\ None(answers, BoundAnswers) /\ None(resumed, BoundAnswers)

\* The listener was reported while it listened, for a peer that is there or has left.
WasReported ==
    /\ status[Listener] \in {"LISTENING", "CLOSED"}
    /\ status[Listener] = "LISTENING" => backlog \union gone # {}

ReportedInv ==
    \/ WasReported
    \/ /\ None(resumed, Reports) /\ None(answers, Reports)
       /\ None(calls, CheckCalls)
       /\ None(resumed, Found) /\ None(answers, Found)
       /\ None(calls, AcceptCalls)

\* One handler of the listener at most makes it to accept().
AcceptInv ==
    /\ AtMostOne(resumed, Found) /\ AtMostOne(answers, Found) /\ AtMostOne(calls, AcceptCalls)
    /\ None(resumed, Found) \/ (None(answers, Found) /\ None(calls, AcceptCalls))
    /\ None(answers, Found) \/ None(calls, AcceptCalls)

\* Any other is behind that accept(); before it there is one at most, ahead of the poll.
NoHandler == None(resumed, Found) /\ None(answers, Found) /\ None(calls, CheckCalls)

CheckInv == status[Listener] = "LISTENING" =>
    /\ Before(calls, AcceptCalls, CheckCalls)
    /\ None(calls, AcceptCalls) =>
         /\ AtMostOne(calls, CheckCalls)
         /\ None(calls, CheckCalls) \/ (None(resumed, Found) /\ None(answers, Found))
         /\ None(resumed, PollAnswers) \/ NoHandler
         /\ None(answers, PollAnswers) \/ None(calls, CheckCalls)
         /\ Before(answers, Found, PollAnswers)
         /\ Before(calls, CheckCalls, PollCalls)

\* Each open() calls bind() once, which is what first changes the listener.
BindInv ==
    /\ \A o \in Opens : /\ AtMostOne(calls, BindCalls(o))
                        /\ opener[o] = "idle" => None(calls, BindCalls(o))
    /\ disposer = "idle" =>
         /\ status[Listener] # "INIT" =>
              \E o \in Opens : opener[o] # "idle" /\ None(calls, BindCalls(o))
         /\ None(calls, CloseCalls)

\* With one open() and no disposal nobody closes the listener under its handler.
Undisturbed == disposer = "idle" /\ ~Reopened

OpenInv == Undisturbed =>
    \/ status[Listener] = "LISTENING"
    \/ None(resumed, Found) /\ None(answers, Found) /\ None(calls, AcceptCalls)

HandlerInv ==
    LoopInv /\ ReportedInv /\ AcceptInv /\ CheckInv /\ BindInv /\ OpenInv

ListenerInv == QueueInv /\ NativeInv /\ HandlerInv

-----------------------------------------------------------------------------
(* Lemmas about the queues.                                                 *)

\* Taking the first element.
LEMMA NoneTail ==
  ASSUME NEW X, NEW q \in Seq(X), q # <<>>
  PROVE  /\ Head(q) \in X /\ Tail(q) \in Seq(X)
         /\ \A S : None(q, S) <=> Head(q) \notin S /\ None(Tail(q), S)
         /\ \A S : AtMostOne(q, S) =>
              AtMostOne(Tail(q), S) /\ (Head(q) \in S => None(Tail(q), S))
         /\ \A S, T : Before(q, S, T) => Before(Tail(q), S, T) /\ (Head(q) \in T => None(q, S))
<1> DEFINE t == Tail(q)
<1>1. /\ Len(q) \in Nat \ {0} /\ Len(t) = Len(q) - 1 /\ Head(q) = q[1]
      /\ \A i \in 1..Len(t) : t[i] = q[i + 1]
      /\ Head(q) \in X /\ t \in Seq(X)
  BY HeadTailProperties, LenProperties, EmptySeq
<1> HIDE DEF t
<1>2. \A i \in 1..Len(q) : i = 1 \/ (i - 1 \in 1..Len(t) /\ q[i] = t[i - 1])
  BY <1>1
<1>3. \A i \in 1..Len(t) : i + 1 \in 1..Len(q) /\ t[i] = q[i + 1] /\ i + 1 # 1
  BY <1>1
<1>4. 1 \in 1..Len(q)
  BY <1>1
<1>5. ASSUME NEW S  PROVE None(q, S) <=> q[1] \notin S /\ None(t, S)
  <2>1. None(q, S) => q[1] \notin S /\ None(t, S)
    BY <1>3, <1>4 DEF None
  <2>2. q[1] \notin S /\ None(t, S) => None(q, S)
    BY <1>2 DEF None
  <2> QED  BY <2>1, <2>2
<1>6. ASSUME NEW S, AtMostOne(q, S)
      PROVE  AtMostOne(t, S) /\ (q[1] \in S => None(t, S))
  <2>1. ASSUME NEW i \in 1..Len(t), NEW j \in 1..Len(t), t[i] \in S, t[j] \in S  PROVE i = j
    <3>1. i + 1 = j + 1
      BY <1>3, <1>6, <2>1 DEF AtMostOne
    <3> QED  BY <3>1
  <2>2. ASSUME q[1] \in S, NEW i \in 1..Len(t), t[i] \in S  PROVE FALSE
    BY <1>3, <1>4, <1>6, <2>2 DEF AtMostOne
  <2> QED  BY <2>1, <2>2 DEF AtMostOne, None
<1>7. ASSUME NEW S, NEW T, Before(q, S, T)
      PROVE  Before(t, S, T) /\ (q[1] \in T => None(q, S))
  <2>1. ASSUME NEW i \in 1..Len(t), NEW j \in 1..Len(t), t[i] \in S, t[j] \in T  PROVE i < j
    <3>1. i + 1 < j + 1
      BY <1>3, <1>7, <2>1 DEF Before
    <3> QED  BY <3>1
  <2>2. ASSUME q[1] \in T, NEW i \in 1..Len(q), q[i] \in S  PROVE FALSE
    BY <1>4, <1>7, <2>2 DEF Before
  <2> QED  BY <2>1, <2>2 DEF Before, None
<1> QED  BY <1>1, <1>5, <1>6, <1>7 DEF t

\* Adding a queue behind another.
LEMMA NoneConcat ==
  ASSUME NEW X, NEW q \in Seq(X), NEW f \in Seq(X)
  PROVE  /\ q \o f \in Seq(X)
         /\ \A S : None(q \o f, S) <=> None(q, S) /\ None(f, S)
         /\ \A S : AtMostOne(q, S) /\ AtMostOne(f, S) /\ (None(q, S) \/ None(f, S)) =>
              AtMostOne(q \o f, S)
         /\ \A S, T : Before(q, S, T) /\ Before(f, S, T) /\ (None(f, S) \/ None(q, T)) =>
              Before(q \o f, S, T)
<1> DEFINE a == q \o f
<1>1. /\ Len(q) \in Nat /\ Len(f) \in Nat /\ Len(a) = Len(q) + Len(f) /\ a \in Seq(X)
      /\ \A i \in 1..Len(a) : i <= Len(q) => a[i] = q[i]
      /\ \A i \in 1..Len(a) : i > Len(q) => a[i] = f[i - Len(q)]
  BY ConcatProperties, LenProperties
<1> HIDE DEF a
<1>2. \A i \in 1..Len(a) : \/ i \in 1..Len(q) /\ a[i] = q[i]
                           \/ i - Len(q) \in 1..Len(f) /\ a[i] = f[i - Len(q)]
  BY <1>1
<1>3. \A i \in 1..Len(q) : i \in 1..Len(a) /\ a[i] = q[i]
  BY <1>1
<1>4. ASSUME NEW i \in 1..Len(f)  PROVE i + Len(q) \in 1..Len(a) /\ a[i + Len(q)] = f[i]
  <2>1. i + Len(q) \in 1..Len(a) /\ i + Len(q) > Len(q) /\ (i + Len(q)) - Len(q) = i
    BY <1>1
  <2>2. a[i + Len(q)] = f[(i + Len(q)) - Len(q)]
    BY <1>1, <2>1
  <2> QED  BY <2>1, <2>2
<1>5. ASSUME NEW S  PROVE None(a, S) <=> None(q, S) /\ None(f, S)
  <2>1. None(q, S) /\ None(f, S) => None(a, S)
    BY <1>2 DEF None
  <2>2. None(a, S) => None(q, S)
    BY <1>3 DEF None
  <2>3. None(a, S) => None(f, S)
    BY <1>4 DEF None
  <2> QED  BY <2>1, <2>2, <2>3
<1>6. ASSUME NEW S, AtMostOne(q, S), AtMostOne(f, S), None(q, S) \/ None(f, S)
      PROVE  AtMostOne(a, S)
  <2> SUFFICES ASSUME NEW i \in 1..Len(a), NEW j \in 1..Len(a), a[i] \in S, a[j] \in S
               PROVE  i = j
    BY DEF AtMostOne
  <2>1. CASE i \in 1..Len(q) /\ a[i] = q[i] /\ j \in 1..Len(q) /\ a[j] = q[j]
    BY <1>6, <2>1 DEF AtMostOne
  <2>2. CASE /\ i - Len(q) \in 1..Len(f) /\ a[i] = f[i - Len(q)]
             /\ j - Len(q) \in 1..Len(f) /\ a[j] = f[j - Len(q)]
    <3>1. i - Len(q) = j - Len(q)
      BY <1>6, <2>2 DEF AtMostOne
    <3> QED  BY <1>1, <3>1
  <2>3. CASE \/ /\ i \in 1..Len(q) /\ a[i] = q[i]
                /\ j - Len(q) \in 1..Len(f) /\ a[j] = f[j - Len(q)]
             \/ /\ j \in 1..Len(q) /\ a[j] = q[j]
                /\ i - Len(q) \in 1..Len(f) /\ a[i] = f[i - Len(q)]
    BY <1>6, <2>3 DEF None
  <2> QED  BY <1>2, <2>1, <2>2, <2>3
<1>7. ASSUME NEW S, NEW T, Before(q, S, T), Before(f, S, T), None(f, S) \/ None(q, T)
      PROVE  Before(a, S, T)
  <2> SUFFICES ASSUME NEW i \in 1..Len(a), NEW j \in 1..Len(a), a[i] \in S, a[j] \in T
               PROVE  i < j
    BY DEF Before
  <2>1. CASE i \in 1..Len(q) /\ a[i] = q[i] /\ j \in 1..Len(q) /\ a[j] = q[j]
    BY <1>7, <2>1 DEF Before
  <2>2. CASE /\ i - Len(q) \in 1..Len(f) /\ a[i] = f[i - Len(q)]
             /\ j - Len(q) \in 1..Len(f) /\ a[j] = f[j - Len(q)]
    <3>1. i - Len(q) < j - Len(q)
      BY <1>7, <2>2 DEF Before
    <3> QED  BY <1>1, <3>1
  <2>3. CASE i \in 1..Len(q) /\ j - Len(q) \in 1..Len(f)
    BY <1>1, <2>3
  <2>4. CASE /\ j \in 1..Len(q) /\ a[j] = q[j]
             /\ i - Len(q) \in 1..Len(f) /\ a[i] = f[i - Len(q)]
    BY <1>7, <2>4 DEF None
  <2> QED  BY <1>2, <2>1, <2>2, <2>3, <2>4
<1> QED  BY <1>1, <1>5, <1>6, <1>7 DEF a

\* The empty queue and that of one element.
LEMMA NoneShort ==
  /\ \A S : None(<<>>, S) /\ AtMostOne(<<>>, S)
  /\ \A S, T : Before(<<>>, S, T)
  /\ \A S, x : None(<<x>>, S) <=> x \notin S
  /\ \A S, x : AtMostOne(<<x>>, S)
  /\ \A S, T, x : x \notin S \/ x \notin T => Before(<<x>>, S, T)
<1>1. Len(<<>>) = 0 /\ \A x : Len(<<x>>) = 1 /\ <<x>>[1] = x
  OBVIOUS
<1> QED  BY <1>1 DEF None, AtMostOne, Before

\* Adding one element.
LEMMA NoneAppend ==
  ASSUME NEW X, NEW q \in Seq(X), NEW x \in X
  PROVE  /\ Append(q, x) \in Seq(X)
         /\ \A S : None(Append(q, x), S) <=> None(q, S) /\ x \notin S
         /\ \A S : AtMostOne(q, S) /\ (None(q, S) \/ x \notin S) => AtMostOne(Append(q, x), S)
         /\ \A S, T : Before(q, S, T) /\ (x \notin S \/ (None(q, T) /\ x \notin T)) =>
              Before(Append(q, x), S, T)
<1> DEFINE f == <<x>>
<1>1. f \in Seq(X) /\ Append(q, x) = q \o f
  BY AppendIsConcat
<1>2. \A S : (None(f, S) <=> x \notin S) /\ AtMostOne(f, S)
  BY NoneShort
<1>3. \A S, T : x \notin S \/ x \notin T => Before(f, S, T)
  BY NoneShort
<1> HIDE DEF f
<1>4. /\ q \o f \in Seq(X)
      /\ \A S : None(q \o f, S) <=> None(q, S) /\ None(f, S)
      /\ \A S : AtMostOne(q, S) /\ AtMostOne(f, S) /\ (None(q, S) \/ None(f, S)) =>
           AtMostOne(q \o f, S)
      /\ \A S, T : Before(q, S, T) /\ Before(f, S, T) /\ (None(f, S) \/ None(q, T)) =>
           Before(q \o f, S, T)
  BY <1>1, NoneConcat
<1> QED  BY <1>1, <1>2, <1>3, <1>4

\* No element of a set is one of a smaller set either.
LEMMA NoneSmaller ==
  ASSUME NEW q, NEW S, NEW T, S \subseteq T, None(q, T)
  PROVE  None(q, S)
BY DEF None

\* Of what is not there, there is one at most, and it is in any order.
LEMMA NoneOrdered ==
  ASSUME NEW q, NEW S, None(q, S)
  PROVE  /\ AtMostOne(q, S)
         /\ \A T : Before(q, S, T) /\ Before(q, T, S)
BY DEF None, AtMostOne, Before

-----------------------------------------------------------------------------
(* Calls and answers by kind.                                               *)

\* The continuations of _open() are not those of the handlers.
LEMMA KindClasses ==
  /\ \A o, p \in Opens : <<"bound", o>> = <<"bound", p>> => o = p
  /\ \A n : n \in Named("bound") => n \notin Starting /\ \A m : n # <<m>>
  /\ \A n : n \in Starting => \A m : n # <<m>>
  /\ \A o \in Opens : <<"listening", o>> \in Starting /\ <<"created", o>> \in Starting
                        /\ <<"watching", o>> \in Starting
  /\ Named("listening") \subseteq Starting
  /\ \A o : <<"bound", o>> \notin Starting
  /\ \A m, n \in Names : <<m>> = <<n>> => m = n
<1> USE DEF Named, Starting
<1>1. \A o, p : <<"bound", o>> = <<"bound", p>> => o = p
  OBVIOUS
<1>2. \A n : n \in Named("bound") => n \notin Starting
  OBVIOUS
<1>3. \A n : n \in Named("bound") => \E o \in Opens : n = <<"bound", o>>
  OBVIOUS
<1>4. \A n : n \in Starting => \E x, o : n = <<x, o>>
  OBVIOUS
<1>5. /\ \A o \in Opens : <<"listening", o>> \in Starting /\ <<"created", o>> \in Starting
                        /\ <<"watching", o>> \in Starting
      /\ Named("listening") \subseteq Starting
      /\ \A o : <<"bound", o>> \notin Starting
  OBVIOUS
<1> HIDE DEF Named, Starting
<1> QED  BY <1>1, <1>2, <1>3, <1>4, <1>5, KindsDiffer

\* The calls of each class, by their operation.
LEMMA CallClasses ==
  ASSUME NEW c \in ServerCalls
  PROVE  /\ c \in ListenCalls <=> c.op = "listen"
         /\ c \in PollCalls <=> c.op = "epollUWait"
         /\ c \in AcceptCalls <=> c.op = "accept"
         /\ c \in CloseCalls <=> c.op = "close"
         /\ c \in CheckCalls <=> c.op = "getSockState" /\ c.socket = Listener
         /\ c \in DriveCalls <=> c.op = "epollUWait" \/ c.k \in Starting
         /\ c \in ListenCalls \/ c \in PollCalls => c \in DriveCalls
         /\ c \in DriveCalls => c.op \notin {"bind", "getSockState", "accept", "close"}
         /\ \A o \in Opens : c \in BindCalls(o) => c.op = "bind"
         /\ c.op = "bind" => \E o \in Opens : c \in BindCalls(o)
         /\ \A o, p \in Opens : c \in BindCalls(o) /\ c \in BindCalls(p) => o = p
         /\ c.op = "close" => c.socket = Listener
<1>1. /\ c.op = "bind" <=> c.k \in Named("bound")
      /\ c.op = "listen" <=> c.k \in Named("listening")
      /\ c.op = "epollUWait" <=> c.k = <<"polled">>
      /\ c.op = "getSockState" <=> c.k = <<"state">>
      /\ c.op = "accept" <=> c.k = <<"accepted">>
      /\ c.op = "close" <=> c.k = <<"disposing">>
      /\ c.op = "close" => c.socket = Listener
  BY DEF ServerCalls
<1>2. /\ c \in ListenCalls <=> c.op = "listen"
      /\ c \in PollCalls <=> c.op = "epollUWait"
      /\ c \in AcceptCalls <=> c.op = "accept"
      /\ c \in CloseCalls <=> c.op = "close"
      /\ c \in CheckCalls <=> c.op = "getSockState" /\ c.socket = Listener
      /\ c \in DriveCalls <=> c.op = "epollUWait" \/ c.k \in Starting
  BY <1>1 DEF ListenCalls, PollCalls, AcceptCalls, CloseCalls, CheckCalls, DriveCalls
<1>3. /\ \A o \in Opens : c \in BindCalls(o) <=> c.k = <<"bound", o>>
      /\ c.k \in Named("bound") <=> \E o \in Opens : c.k = <<"bound", o>>
  BY DEF BindCalls, Named
<1>4. c.k \in Starting => c.op \notin {"bind", "getSockState", "accept", "close"}
  BY <1>1, KindClasses
<1>5. c.op = "listen" => c.k \in Starting
  BY <1>1, KindClasses
<1>6. \A o \in Opens : c \in BindCalls(o) => c.op = "bind"
  BY <1>1, <1>3
<1>7. \A o, p \in Opens : c \in BindCalls(o) /\ c \in BindCalls(p) => o = p
  BY <1>3, KindClasses
<1> QED  BY <1>1, <1>2, <1>3, <1>4, <1>5, <1>6, <1>7

\* The answers of each class, by their kind.
LEMMA AnswerClasses ==
  ASSUME NEW r \in ServerAnswers
  PROVE  /\ r \in PollAnswers <=> r.k = <<"polled">>
         /\ r \in BoundAnswers <=> r.k \in Named("bound") /\ r.result # Failed
         /\ r \in DriveAnswers <=> r.k = <<"polled">> \/ r.k \in Starting \/ r \in BoundAnswers
         /\ r \in Found <=> r.k = <<"state">> /\ r.socket = Listener /\ r.result = "LISTENING"
         /\ r \in Reports <=> r.k = <<"polled">> /\ Listener \in r.result
         /\ r \in Found => r \notin DriveAnswers
         /\ r \in BoundAnswers => r \notin PollAnswers
<1>1. /\ r \in PollAnswers <=> r.k = <<"polled">>
      /\ r \in BoundAnswers <=> r.k \in Named("bound") /\ r.result # Failed
      /\ r \in DriveAnswers <=> r.k = <<"polled">> \/ r.k \in Starting \/ r \in BoundAnswers
      /\ r \in Found <=> r.k = <<"state">> /\ r.socket = Listener /\ r.result = "LISTENING"
      /\ r \in Reports <=> r.k = <<"polled">> /\ Listener \in r.result
  BY DEF PollAnswers, BoundAnswers, DriveAnswers, Found, Reports
<1> QED  BY <1>1, KindClasses DEF Names

\* An answer is of the kind that its call is of.
LEMMA AnswerOfCall ==
  ASSUME NEW c \in ServerCalls, NEW result, NEW r \in ServerAnswers,
         r = Resumption(c.k, c.socket, result)
  PROVE  /\ r \in PollAnswers <=> c \in PollCalls
         /\ r \in BoundAnswers <=> c.op = "bind" /\ result # Failed
         /\ r \in DriveAnswers <=> c \in DriveCalls \/ r \in BoundAnswers
         /\ r \in Found <=> c \in CheckCalls /\ result = "LISTENING"
         /\ r \in Reports <=> c \in PollCalls /\ Listener \in result
<1>1. r.k = c.k /\ r.socket = c.socket /\ r.result = result
  BY DEF Resumption
<1>2. /\ c.op = "bind" <=> c.k \in Named("bound")
      /\ c.op = "epollUWait" <=> c.k = <<"polled">>
      /\ c.op = "getSockState" <=> c.k = <<"state">>
  BY DEF ServerCalls
<1> QED  BY <1>1, <1>2, AnswerClasses, CallClasses

-----------------------------------------------------------------------------
(* The worker and the peers.                                                *)

Advances(from, to) == status[Listener] = from /\ status'[Listener] = to
Closes == status'[Listener] = "CLOSED"

\* What a call does to the listener, and what it answers.
LEMMA ListenerPerforms ==
  ASSUME NativeTypeOK, NativeInv, NEW c \in ServerCalls, NEW result, Perform(c, result)
  PROVE  /\ NativeInv'
         /\ gone' = gone
         /\ status'[Listener] = "CLOSED" \/ backlog' = backlog
         /\ c.op = "bind" => \/ Advances("INIT", "OPENED") /\ result # Failed
                             \/ (Closes \/ status' = status) /\ result = Failed
         /\ c.op = "listen" => Advances("OPENED", "LISTENING") \/ Closes
         /\ c.op = "accept" =>
              /\ Closes
              /\ status[Listener] = "LISTENING" =>
                   \/ result \in Clients /\ status'[result] # "NONEXIST"
                   \/ result = Failed /\ backlog = {}
         /\ c.op = "close" => Closes
         /\ c.op \notin {"bind", "listen", "accept", "close"} => status' = status
         /\ c.op = "getSockState" => result = status[c.socket]
         /\ c.op = "epollUWait" /\ Listener \in result =>
              status[Listener] = "LISTENING" /\ backlog # {}
         /\ \A s \in Clients : status[s] # "NONEXIST" => status'[s] # "NONEXIST"
<1> USE DEF NativeTypeOK
<1>0. /\ Listener \in Sockets /\ Listener \notin Clients /\ Clients \subseteq Sockets
      /\ Success # Failed /\ c.op \in Ops
      /\ c.op = "close" => c.socket = Listener
  BY NodeSRTAssumption DEF Sockets, ServerCalls
<1>1. ASSUME SrtClose(Listener)
      PROVE  /\ NativeInv' /\ gone' = gone /\ Closes
             /\ \A s \in Clients : status'[s] = status[s]
  BY <1>0, <1>1 DEF SrtClose, NativeInv, Closes
<1>2. ASSUME UNCHANGED nativeVars
      PROVE  NativeInv' /\ gone' = gone /\ backlog' = backlog /\ status' = status
  BY <1>2 DEF nativeVars, NativeInv
<1>3. ASSUME NEW before \in {"INIT", "OPENED"}, NEW after \in {"OPENED", "LISTENING"},
             OpenStep(before, after, result)
      PROVE  /\ NativeInv' /\ gone' = gone /\ (Closes \/ backlog' = backlog)
             /\ \/ Advances(before, after) /\ result # Failed
                \/ Closes /\ result = Failed
             /\ \A s \in Clients : status'[s] = status[s]
  <2>1. CASE SrtClose(Listener) /\ result = Failed
    BY <1>1, <2>1
  <2>2. CASE /\ status[Listener] = before
             /\ result = Success
             /\ status' = [status EXCEPT ![Listener] = after]
             /\ UNCHANGED <<backlog, watched, readable, gone>>
    <3>1. status'[Listener] = after /\ \A s \in Clients : status'[s] = status[s]
      BY <1>0, <2>2
    <3>2. backlog = {}
      BY <1>3, <2>2 DEF NativeInv
    <3> QED  BY <1>0, <1>3, <2>2, <3>1, <3>2 DEF NativeInv, Advances
  <2> QED  BY <1>3, <2>1, <2>2 DEF OpenStep
<1>4. CASE c.op = "bind"
  <2>1. Bind(result)
    BY <1>4 DEF Perform
  <2>2. /\ NativeInv' /\ gone' = gone /\ (Closes \/ backlog' = backlog)
        /\ \/ Advances("INIT", "OPENED") /\ result # Failed
           \/ (Closes \/ status' = status) /\ result = Failed
        /\ \A s \in Clients : status'[s] = status[s]
    BY <1>2, <1>3, <2>1 DEF Bind
  <2> QED  BY <1>4, <2>2 DEF Closes
<1>5. CASE c.op = "listen"
  <2>1. Listen(result)
    BY <1>5 DEF Perform
  <2>2. /\ NativeInv' /\ gone' = gone /\ (Closes \/ backlog' = backlog)
        /\ \/ Advances("OPENED", "LISTENING") /\ result # Failed
           \/ Closes /\ result = Failed
        /\ \A s \in Clients : status'[s] = status[s]
    BY <1>3, <2>1 DEF Listen
  <2> QED  BY <1>5, <2>2 DEF Closes
<1>6. CASE c.op = "accept"
  <2>1. PICK waits \in BOOLEAN : Accept(result, waits)
    BY <1>6 DEF Perform
  <2>2. CASE /\ SrtClose(Listener) /\ result = Failed
             /\ status[Listener] = "LISTENING" => backlog = {}
    BY <1>1, <1>6, <2>2 DEF Closes
  <2>3. CASE /\ result \in backlog
             /\ status' = [status EXCEPT ![result] = "CONNECTED", ![Listener] = "CLOSED"]
             /\ backlog' = {}
             /\ watched' = watched \ {Listener}
             /\ UNCHANGED <<readable, gone>>
    <3>1. result \in Clients /\ result # Listener /\ result \in Sockets
      BY <1>0, <2>3
    <3>2. /\ status'[Listener] = "CLOSED" /\ status'[result] = "CONNECTED"
          /\ \A s \in Clients : s # result => status'[s] = status[s]
      BY <1>0, <2>3, <3>1
    <3>3. NativeInv'
      BY <2>3, <3>2 DEF NativeInv
    <3> QED  BY <1>6, <2>3, <3>1, <3>2, <3>3 DEF Closes
  <2> QED  BY <2>1, <2>2, <2>3 DEF Accept
<1>7. CASE c.op = "close"
  <2>1. Close(Listener, result)
    BY <1>0, <1>7 DEF Perform
  <2>2. CASE SrtClose(Listener)
    BY <1>1, <1>7, <2>2 DEF Closes
  <2>3. CASE ~Alive(Listener) /\ UNCHANGED nativeVars
    <3>1. status[Listener] = "CLOSED"
      BY <1>0, <2>3 DEF Alive, NativeInv
    <3> QED  BY <1>2, <1>7, <2>3, <3>1 DEF Closes
  <2> QED  BY <2>1, <2>2, <2>3 DEF Close
<1>8. CASE c.op \in {"epollCreate", "getSockState"}
  <2>1. UNCHANGED nativeVars /\ (c.op = "getSockState" => result = status[c.socket])
    BY <1>8 DEF Perform, GetSockState
  <2> QED  BY <1>2, <1>8, <2>1
<1>9. CASE c.op = "epollUWait"
  <2>1. UNCHANGED nativeVars /\ result = {s \in watched : Reported(s)}
    BY <1>9 DEF Perform, EpollUWait
  <2>2. Listener \in result => status[Listener] = "LISTENING" /\ backlog # {}
    BY <1>0, <2>1 DEF Reported, HasData, NativeInv
  <2> QED  BY <1>2, <1>9, <2>1, <2>2
<1>10. CASE c.op = "epollAddUsock"
  <2>1. /\ UNCHANGED <<status, backlog, readable, gone>>
        /\ watched' # watched => Alive(c.socket) /\ watched' = watched \union {c.socket}
    BY <1>10 DEF Perform, EpollAddUsock, nativeVars
  <2>2. NativeInv'
    BY <2>1 DEF NativeInv, Alive
  <2> QED  BY <1>10, <2>1, <2>2
<1> QED  BY <1>0, <1>4, <1>5, <1>6, <1>7, <1>8, <1>9, <1>10 DEF Ops

\* A listener that was reported once stays so, or is closed.
LEMMA ReportedForGood ==
  ASSUME WasReported,
         \/ status'[Listener] = "CLOSED"
         \/ /\ status'[Listener] = status[Listener]
            /\ backlog \union gone \subseteq backlog' \union gone'
  PROVE  WasReported'
BY DEF WasReported

\* The peers do nothing to the listener but fill and empty its backlog.
LEMMA PeersOnly ==
  ASSUME NativeTypeOK, NativeInv, Network
  PROVE  /\ NativeInv'
         /\ status'[Listener] = status[Listener]
         /\ backlog \union gone \subseteq backlog' \union gone'
         /\ gone \subseteq gone'
         /\ \A s \in Clients : status[s] # "NONEXIST" => status'[s] # "NONEXIST"
<1> USE DEF NativeTypeOK, NativeInv
<1>0. Listener \in Sockets /\ Listener \notin Clients /\ Clients \subseteq Sockets
  BY NodeSRTAssumption DEF Sockets
<1>1. ASSUME NEW c \in Clients, PeerConnects(c) \/ PeerLeavesBacklog(c)
      PROVE  /\ NativeInv' /\ status' = status
             /\ backlog \union gone \subseteq backlog' \union gone'
             /\ gone \subseteq gone'
  BY <1>1 DEF PeerConnects, PeerLeavesBacklog
<1>2. ASSUME NEW s \in Sockets, DataArrives(s)
      PROVE  NativeInv' /\ status' = status /\ backlog' = backlog /\ gone' = gone
  BY <1>0, <1>2 DEF DataArrives
<1>3. ASSUME NEW s \in Sockets, PeerBreaks(s)
      PROVE  /\ NativeInv' /\ status'[Listener] = status[Listener]
             /\ backlog' = backlog /\ gone' = gone
             /\ \A t \in Clients : status[t] # "NONEXIST" => status'[t] # "NONEXIST"
  BY <1>0, <1>3 DEF PeerBreaks
<1>4. ASSUME NEW s \in Sockets, LibraryCloses(s) \/ LibraryForgets(s)
      PROVE  /\ NativeInv' /\ status'[Listener] = status[Listener]
             /\ backlog' = backlog /\ gone' = gone
             /\ \A t \in Clients : status[t] # "NONEXIST" => status'[t] # "NONEXIST"
  <2>1. CASE LibraryCloses(s)
    <3>1. s # Listener
      BY <2>1 DEF LibraryCloses
    <3> QED  BY <1>0, <2>1, <3>1 DEF LibraryCloses
  <2>2. CASE LibraryForgets(s)
    BY <1>0, <2>2 DEF LibraryForgets
  <2> QED  BY <1>4, <2>1, <2>2
<1> QED  BY <1>1, <1>2, <1>3, <1>4 DEF Network, Library

\* The queues hold calls and answers of the server.
LEMMA QueuesTyped ==
  ServerInv => answers \in Seq(ServerAnswers) /\ resumed \in Seq(ServerAnswers)
<1> SUFFICES ASSUME ServerInv
             PROVE  answers \in Seq(ServerAnswers) /\ resumed \in Seq(ServerAnswers)
  OBVIOUS
<1>1. ResumptionSet(Mapped, announced) \subseteq ServerAnswers
      /\ HandlerSet(Mapped, announced) \subseteq ServerAnswers
  BY DEF ResumptionSet, HandlerSet, ServerAnswers
<1>2. answers \in Seq(ServerAnswers)
  BY <1>1, LargerSet DEF ServerInv, LoopTypeOK
<1>3. CASE resumed \in Seq(HandlerSet(Mapped, announced))
  BY <1>1, <1>2, <1>3, LargerSet
<1>4. CASE \E r \in ResumptionSet(Mapped, announced) : resumed = <<r>>
  BY <1>1, <1>2, <1>4, ShortQueues
<1> QED  BY <1>3, <1>4 DEF ServerInv, LoopTypeOK, ResumedOK

\* The same of the next state.
LEMMA QueuesTypedNext ==
  (ServerInv => answers \in Seq(ServerAnswers) /\ resumed \in Seq(ServerAnswers))'
BY QueuesTyped, PTL

\* The worker performs a call.
LEMMA WorkerKeeps ==
  ASSUME ServerInv, ServerInv', ListenerInv, WorkerPerforms
  PROVE  ListenerInv'
<1> DEFINE c == Head(calls)
           L == status[Listener]
<1>1. PICK result \in Results(c.op) : Perform(c, result) /\ Performed(result)
  BY DEF WorkerPerforms
<1> DEFINE r == Resumption(c.k, c.socket, result)
<1>2. /\ calls # <<>> /\ calls' = Tail(calls) /\ answers' = Append(answers, r)
      /\ UNCHANGED <<resumed, opener, disposer, pollTimer>>
  BY <1>1 DEF WorkerPerforms, Performed
<1>3. /\ c \in ServerCalls /\ calls' \in Seq(ServerCalls)
      /\ \A S : None(calls, S) <=> c \notin S /\ None(calls', S)
      /\ \A S : AtMostOne(calls, S) =>
           AtMostOne(calls', S) /\ (c \in S => None(calls', S))
      /\ \A S, T : Before(calls, S, T) => Before(calls', S, T) /\ (c \in T => None(calls, S))
  BY <1>2, NoneTail DEF ListenerInv, QueueInv
<1>4. r \in ServerAnswers
  <2>1. answers' \in Seq(ServerAnswers) /\ answers \in Seq(ServerAnswers)
    BY QueuesTypedNext DEF ListenerInv, QueueInv
  <2>2. Len(answers) + 1 \in 1..Len(answers') /\ answers'[Len(answers) + 1] = r
    BY <1>2, <2>1, LenProperties
  <2> QED  BY <2>1, <2>2, ElementOfSeq
<1> HIDE DEF r
<1>5. /\ answers' \in Seq(ServerAnswers)
      /\ \A S : None(answers', S) <=> None(answers, S) /\ r \notin S
      /\ \A S : AtMostOne(answers, S) /\ (None(answers, S) \/ r \notin S) => AtMostOne(answers', S)
      /\ \A S, T : Before(answers, S, T) /\ (r \notin S \/ (None(answers, T) /\ r \notin T)) =>
           Before(answers', S, T)
  BY <1>2, <1>4, NoneAppend DEF ListenerInv, QueueInv
<1>6. /\ r \in PollAnswers <=> c \in PollCalls
      /\ r \in BoundAnswers <=> c.op = "bind" /\ result # Failed
      /\ r \in DriveAnswers <=> c \in DriveCalls \/ r \in BoundAnswers
      /\ r \in Found <=> c \in CheckCalls /\ result = "LISTENING"
      /\ r \in Reports <=> c \in PollCalls /\ Listener \in result
  BY <1>3, <1>4, AnswerOfCall DEF r
<1> HIDE DEF c
<1>7. /\ NativeInv'
      /\ gone' = gone
      /\ status'[Listener] = "CLOSED" \/ backlog' = backlog
      /\ c.op = "bind" => \/ Advances("INIT", "OPENED") /\ result # Failed
                          \/ (Closes \/ status' = status) /\ result = Failed
      /\ c.op = "listen" => Advances("OPENED", "LISTENING") \/ Closes
      /\ c.op = "accept" => Closes
      /\ c.op = "close" => Closes
      /\ c.op \notin {"bind", "listen", "accept", "close"} => status' = status
      /\ c.op = "getSockState" => result = status[c.socket]
      /\ c.op = "epollUWait" /\ Listener \in result => L = "LISTENING" /\ backlog # {}
  BY <1>1, <1>3, ListenerPerforms DEF ListenerInv, ServerInv, TypeOK
<1>8. /\ c \in ListenCalls <=> c.op = "listen"
      /\ c \in PollCalls <=> c.op = "epollUWait"
      /\ c \in AcceptCalls <=> c.op = "accept"
      /\ c \in CloseCalls <=> c.op = "close"
      /\ c \in CheckCalls <=> c.op = "getSockState" /\ c.socket = Listener
      /\ c \in ListenCalls \/ c \in PollCalls => c \in DriveCalls
      /\ c \in DriveCalls => c.op \notin {"bind", "getSockState", "accept", "close"}
      /\ \A o \in Opens : c \in BindCalls(o) => c.op = "bind"
      /\ c.op = "bind" => \E o \in Opens : c \in BindCalls(o)
      /\ \A o, p \in Opens : c \in BindCalls(o) /\ c \in BindCalls(p) => o = p
  BY <1>3, CallClasses
<1>9. LoopInv /\ ReportedInv /\ AcceptInv /\ CheckInv /\ BindInv /\ OpenInv
  BY DEF ListenerInv, HandlerInv
<1>10. L \in {"INIT", "OPENED", "LISTENING", "CLOSED"}
  BY DEF ListenerInv, NativeInv
<1> HIDE DEF L
<1>11. LoopInv'
  <2>1. r \in BoundAnswers => L = "INIT" /\ status'[Listener] = "OPENED"
    BY <1>6, <1>7 DEF Advances, Closes, L
  <2>2. r \in BoundAnswers => NoDriver /\ ~pollTimer /\ c \notin DriveCalls
    BY <1>6, <1>8, <1>9, <2>1 DEF LoopInv, L
  <2>3. /\ AtMostOne(resumed', DriveAnswers)
        /\ AtMostOne(answers', DriveAnswers)
        /\ AtMostOne(calls', DriveCalls)
        /\ \/ None(resumed', DriveAnswers)
           \/ None(answers', DriveAnswers) /\ None(calls', DriveCalls)
        /\ None(answers', DriveAnswers) \/ None(calls', DriveCalls)
    BY <1>2, <1>3, <1>5, <1>6, <1>9, <2>2 DEF LoopInv, NoDriver
  <2>4. /\ NoDriver /\ r \notin BoundAnswers => NoDriver'
        /\ pollTimer' => NoDriver'
    BY <1>2, <1>3, <1>5, <1>6, <1>9, <2>2 DEF LoopInv, NoDriver
  <2>5. status'[Listener] = "INIT" => NoDriver' /\ ~pollTimer'
    <3>1. status'[Listener] = "INIT" => L = "INIT"
      BY <1>7, <1>10 DEF Advances, Closes, L
    <3> QED  BY <1>2, <1>9, <2>1, <2>4, <3>1 DEF LoopInv, L
  <2>6. ASSUME status'[Listener] = "LISTENING"
        PROVE  /\ None(calls', ListenCalls)
               /\ None(answers', BoundAnswers) /\ None(resumed', BoundAnswers)
    <3>1. CASE c.op = "listen"
      <4>1. /\ None(calls', DriveCalls) /\ None(answers, DriveAnswers)
            /\ None(resumed, DriveAnswers)
        BY <1>3, <1>8, <1>9, <3>1 DEF LoopInv
      <4>2. ListenCalls \subseteq DriveCalls /\ BoundAnswers \subseteq DriveAnswers
        BY CallClasses DEF ListenCalls, DriveAnswers
      <4>3. r \notin BoundAnswers
        BY <1>6, <3>1
      <4> QED  BY <1>2, <1>5, <4>1, <4>2, <4>3, NoneSmaller
    <3>2. CASE c.op # "listen"
      <4>1. L = "LISTENING" /\ r \notin BoundAnswers
        BY <1>7, <2>1, <2>6, <3>2 DEF Advances, Closes, L
      <4> QED  BY <1>2, <1>3, <1>5, <1>9, <4>1 DEF LoopInv, L
    <3> QED  BY <3>1, <3>2
  <2> QED  BY <2>3, <2>4, <2>5, <2>6 DEF LoopInv
<1>12. WasReported => WasReported'
  <2>1. WasReported => \/ status'[Listener] = "CLOSED"
                       \/ status'[Listener] = status[Listener] /\ backlog' = backlog
    BY <1>7 DEF WasReported, Advances, Closes
  <2> QED  BY <1>7, <2>1, ReportedForGood
<1>13. r \in Reports => WasReported
  BY <1>6, <1>7, <1>8 DEF WasReported, L
<1>14. ReportedInv'
  BY <1>2, <1>3, <1>5, <1>6, <1>9, <1>12, <1>13 DEF ReportedInv
<1>15. L # "LISTENING" => c \notin CheckCalls \/ result # "LISTENING"
  BY <1>7, <1>8 DEF L
<1>16. r \in Found => /\ L = "LISTENING" /\ c \in CheckCalls
                      /\ None(calls, AcceptCalls) /\ None(resumed, Found) /\ None(answers, Found)
  BY <1>3, <1>6, <1>9, <1>15 DEF CheckInv, L
<1>17. AcceptInv'
  BY <1>2, <1>3, <1>5, <1>6, <1>9, <1>16 DEF AcceptInv
<1>18. CheckInv'
  <2> SUFFICES ASSUME status'[Listener] = "LISTENING"
               PROVE  /\ Before(calls', AcceptCalls, CheckCalls)
                      /\ None(calls', AcceptCalls) =>
                           /\ AtMostOne(calls', CheckCalls)
                           /\ None(calls', CheckCalls)
                                \/ (None(resumed', Found) /\ None(answers', Found))
                           /\ None(resumed', PollAnswers) \/ NoHandler'
                           /\ None(answers', PollAnswers) \/ None(calls', CheckCalls)
                           /\ Before(answers', Found, PollAnswers)
                           /\ Before(calls', CheckCalls, PollCalls)
    BY DEF CheckInv
  <2>1. CASE L # "LISTENING"
    <3>1. L = "OPENED" /\ c.op = "listen"
      BY <1>7, <2>1 DEF Advances, Closes, L
    <3>2. /\ None(calls, CheckCalls) /\ None(calls, AcceptCalls)
          /\ None(resumed, Found) /\ None(answers, Found)
      BY <1>9, <3>1 DEF ReportedInv, WasReported, L
    <3>3. /\ None(calls', CheckCalls) /\ None(calls', AcceptCalls)
          /\ None(resumed', Found) /\ None(answers', Found)
      BY <1>2, <1>3, <1>5, <1>6, <1>8, <3>1, <3>2
    <3> QED  BY <3>3, NoneOrdered DEF NoHandler
  <2>2. CASE L = "LISTENING"
    <3>1. c \notin AcceptCalls
      BY <1>7, <1>8 DEF Closes
    <3>2. None(calls', AcceptCalls) => None(calls, AcceptCalls)
      BY <1>3, <3>1
    <3>3. Before(calls', AcceptCalls, CheckCalls)
      BY <1>3, <1>9, <2>2 DEF CheckInv, L
    <3> SUFFICES ASSUME None(calls, AcceptCalls)
                 PROVE  /\ AtMostOne(calls', CheckCalls)
                        /\ None(calls', CheckCalls)
                             \/ (None(resumed', Found) /\ None(answers', Found))
                        /\ None(resumed', PollAnswers) \/ NoHandler'
                        /\ None(answers', PollAnswers) \/ None(calls', CheckCalls)
                        /\ Before(answers', Found, PollAnswers)
                        /\ Before(calls', CheckCalls, PollCalls)
      BY <3>2, <3>3
    <3>4. /\ AtMostOne(calls, CheckCalls)
          /\ None(calls, CheckCalls) \/ (None(resumed, Found) /\ None(answers, Found))
          /\ None(resumed, PollAnswers) \/ NoHandler
          /\ None(answers, PollAnswers) \/ None(calls, CheckCalls)
          /\ Before(answers, Found, PollAnswers)
          /\ Before(calls, CheckCalls, PollCalls)
      BY <1>9, <2>2 DEF CheckInv, L
    <3>5. CASE c \in CheckCalls
      <4>1. /\ None(calls', CheckCalls) /\ None(resumed', PollAnswers)
            /\ None(answers, PollAnswers) /\ r \notin PollAnswers
        BY <1>2, <1>3, <1>6, <1>8, <3>4, <3>5 DEF NoHandler
      <4> QED  BY <1>3, <1>5, <3>4, <4>1, NoneOrdered
    <3>6. CASE c \in PollCalls
      <4>1. None(calls', CheckCalls) /\ r \notin Found
        BY <1>3, <1>6, <1>8, <3>4, <3>6
      <4> QED  BY <1>2, <1>3, <1>5, <3>4, <4>1, NoneOrdered DEF NoHandler
    <3>7. CASE c \notin CheckCalls /\ c \notin PollCalls
      <4>1. r \notin Found /\ r \notin PollAnswers
        BY <1>6, <3>7
      <4> QED  BY <1>2, <1>3, <1>5, <3>4, <4>1 DEF NoHandler
    <3> QED  BY <3>5, <3>6, <3>7
  <2> QED  BY <2>1, <2>2
<1>19. BindInv'
  <2>1. ASSUME NEW o \in Opens
        PROVE  /\ AtMostOne(calls', BindCalls(o))
               /\ opener[o] = "idle" => None(calls', BindCalls(o))
    BY <1>3, <1>9 DEF BindInv
  <2>2. ASSUME disposer = "idle"  PROVE None(calls', CloseCalls) /\ c.op # "close"
    BY <1>3, <1>8, <1>9, <2>2 DEF BindInv
  <2>3. ASSUME disposer = "idle", status'[Listener] # "INIT"
        PROVE  \E o \in Opens : opener[o] # "idle" /\ None(calls', BindCalls(o))
    <3>1. CASE c.op = "bind"
      <4>1. PICK o \in Opens : c \in BindCalls(o)
        BY <1>8, <3>1
      <4> QED  BY <1>3, <1>9, <4>1 DEF BindInv
    <3>2. CASE c.op # "bind"
      <4>1. L # "INIT"
        <5> SUFFICES ASSUME L = "INIT"  PROVE FALSE
          OBVIOUS
        <5>1. None(calls, DriveCalls) /\ None(calls, AcceptCalls)
          BY <1>9 DEF LoopInv, NoDriver, ReportedInv, WasReported, L
        <5>2. c.op \notin {"listen", "accept"}
          BY <1>3, <1>8, <5>1
        <5> QED  BY <1>7, <2>2, <2>3, <3>2, <5>2 DEF L
      <4>2. PICK o \in Opens : opener[o] # "idle" /\ None(calls, BindCalls(o))
        BY <1>9, <2>3, <4>1 DEF BindInv, L
      <4> QED  BY <1>3, <4>2
    <3> QED  BY <3>1, <3>2
  <2> QED  BY <1>2, <2>1, <2>2, <2>3 DEF BindInv
<1>20. OpenInv'
  <2> SUFFICES ASSUME Undisturbed', status'[Listener] # "LISTENING"
               PROVE  None(resumed', Found) /\ None(answers', Found) /\ None(calls', AcceptCalls)
    BY DEF OpenInv
  <2>1. Undisturbed
    BY <1>2 DEF Undisturbed, Reopened
  <2>2. CASE None(resumed, Found) /\ None(answers, Found) /\ None(calls, AcceptCalls)
    <3>1. r \notin Found
      BY <1>7, <1>8, <1>16 DEF L
    <3> QED  BY <1>2, <1>3, <1>5, <2>2, <3>1
  <2>3. CASE L = "LISTENING"
    <3>1. c.op # "close"
      BY <1>3, <1>8, <1>9, <2>1 DEF BindInv, Undisturbed
    <3>2. c.op # "listen"
      BY <1>3, <1>8, <1>9, <2>3 DEF LoopInv, L
    <3>3. c.op # "bind"
      <4> SUFFICES ASSUME c.op = "bind"  PROVE FALSE
        OBVIOUS
      <4>1. PICK p \in Opens : c \in BindCalls(p)
        BY <1>8
      <4>2. PICK o \in Opens : opener[o] # "idle" /\ None(calls, BindCalls(o))
        BY <1>9, <2>1, <2>3 DEF BindInv, Undisturbed, L
      <4>3. o # p /\ opener[p] # "idle"
        BY <1>3, <1>9, <4>1, <4>2 DEF BindInv
      <4> QED  BY <2>1, <4>2, <4>3 DEF Undisturbed, Reopened
    <3>4. c \in AcceptCalls
      BY <1>7, <1>8, <2>3, <3>1, <3>2, <3>3 DEF L
    <3>5. r \notin Found
      BY <1>6, <1>8, <3>4
    <3> QED  BY <1>2, <1>3, <1>5, <1>9, <3>4, <3>5 DEF AcceptInv
  <2> QED  BY <1>9, <2>1, <2>2, <2>3 DEF OpenInv, L
<1>21. QueueInv'
  BY <1>3, QueuesTypedNext DEF QueueInv
<1> QED  BY <1>7, <1>11, <1>14, <1>17, <1>18, <1>19, <1>20, <1>21 DEF ListenerInv, HandlerInv

\* The next answer arrives.
LEMMA AnswerKeeps ==
  ASSUME ServerInv, ServerInv', ListenerInv, MainThreadAnswered
  PROVE  ListenerInv'
<1> DEFINE h == Head(answers)
<1>1. /\ answers # <<>> /\ resumed = <<>> /\ resumed' = <<h>> /\ answers' = Tail(answers)
      /\ UNCHANGED <<calls, status, backlog, watched, gone, readable, opener, disposer, pollTimer>>
  BY DEF MainThreadAnswered, AnswerArrives, Idle, nativeVars
<1>2. /\ h \in ServerAnswers
      /\ \A S : None(answers, S) <=> h \notin S /\ None(answers', S)
      /\ \A S : AtMostOne(answers, S) =>
           AtMostOne(answers', S) /\ (h \in S => None(answers', S))
      /\ \A S, T : Before(answers, S, T) =>
           Before(answers', S, T) /\ (h \in T => None(answers, S))
  BY <1>1, NoneTail DEF ListenerInv, QueueInv
<1>3. /\ \A S : None(resumed, S)
      /\ \A S : None(resumed', S) <=> h \notin S
      /\ \A S : AtMostOne(resumed', S)
  BY <1>1, NoneShort
<1>4. /\ h \in Found => h \notin DriveAnswers
      /\ h \in PollAnswers => h \in DriveAnswers
  BY <1>2, AnswerClasses
<1>5. LoopInv /\ ReportedInv /\ AcceptInv /\ CheckInv /\ BindInv /\ OpenInv
  BY DEF ListenerInv, HandlerInv
<1> HIDE DEF h
<1>6. LoopInv'
  BY <1>1, <1>2, <1>3, <1>5 DEF LoopInv, NoDriver
<1>7. ReportedInv'
  BY <1>1, <1>2, <1>3, <1>5 DEF ReportedInv, WasReported
<1>8. AcceptInv'
  BY <1>1, <1>2, <1>3, <1>5 DEF AcceptInv
<1>9. CheckInv'
  BY <1>1, <1>2, <1>3, <1>4, <1>5 DEF CheckInv, NoHandler
<1>10. BindInv' /\ OpenInv'
  BY <1>1, <1>2, <1>3, <1>5 DEF BindInv, OpenInv, Undisturbed, Reopened
<1>11. NativeInv' /\ QueueInv'
  BY <1>1, QueuesTypedNext DEF ListenerInv, NativeInv, QueueInv
<1> QED  BY <1>6, <1>7, <1>8, <1>9, <1>10, <1>11 DEF ListenerInv, HandlerInv

\* The peers.
LEMMA PeersKeep ==
  ASSUME ServerInv, ListenerInv, Peers
  PROVE  ListenerInv'
<1>1. /\ NativeInv'
      /\ status'[Listener] = status[Listener]
      /\ backlog \union gone \subseteq backlog' \union gone'
      /\ UNCHANGED <<calls, answers, resumed, opener, disposer, pollTimer>>
  BY PeersOnly DEF Peers, loopVars, ListenerInv, ServerInv, TypeOK
<1>2. WasReported => WasReported'
  BY <1>1, ReportedForGood
<1> QED  BY <1>1, <1>2 DEF ListenerInv, QueueInv, HandlerInv, LoopInv, NoDriver, ReportedInv,
                           AcceptInv, CheckInv, NoHandler, BindInv, OpenInv, Undisturbed, Reopened

-----------------------------------------------------------------------------
(* The main thread.                                                         *)

\* What is resumed next is one of these.
Taken(S) == resumed # <<>> /\ Head(resumed) \in S

Left == IF resumed = <<>> THEN <<>> ELSE Rest

\* A step of the main thread makes the calls f, and resumes g at once.
Makes(f, g) ==
    /\ calls' = calls \o f
    /\ resumed' = Left \o g
    /\ UNCHANGED <<nativeVars, answers>>

\* What is in the queues after such a step.
LEMMA QueuesMade ==
  ASSUME QueueInv, NEW f \in Seq(ServerCalls), NEW g \in Seq(ServerAnswers), Makes(f, g)
  PROVE  /\ calls' \in Seq(ServerCalls) /\ resumed' \in Seq(ServerAnswers)
         /\ \A S : None(calls', S) <=> None(calls, S) /\ None(f, S)
         /\ \A S : AtMostOne(calls, S) /\ AtMostOne(f, S) /\ (None(calls, S) \/ None(f, S)) =>
              AtMostOne(calls', S)
         /\ \A S, T : Before(calls, S, T) /\ Before(f, S, T) /\ (None(f, S) \/ None(calls, T)) =>
              Before(calls', S, T)
         /\ \A S : None(resumed', S) <=> None(Left, S) /\ None(g, S)
         /\ \A S : None(resumed, S) => None(Left, S) /\ ~Taken(S)
         /\ \A S : AtMostOne(resumed, S) =>
              AtMostOne(Left, S) /\ (Taken(S) => None(Left, S))
         /\ \A S : AtMostOne(Left, S) /\ AtMostOne(g, S) /\ (None(Left, S) \/ None(g, S)) =>
              AtMostOne(resumed', S)
<1>1. /\ calls' \in Seq(ServerCalls)
      /\ \A S : None(calls', S) <=> None(calls, S) /\ None(f, S)
      /\ \A S : AtMostOne(calls, S) /\ AtMostOne(f, S) /\ (None(calls, S) \/ None(f, S)) =>
           AtMostOne(calls', S)
      /\ \A S, T : Before(calls, S, T) /\ Before(f, S, T) /\ (None(f, S) \/ None(calls, T)) =>
           Before(calls', S, T)
  BY NoneConcat DEF Makes, QueueInv
<1>2. /\ Left \in Seq(ServerAnswers)
      /\ \A S : None(resumed, S) => None(Left, S) /\ ~Taken(S)
      /\ \A S : AtMostOne(resumed, S) =>
           AtMostOne(Left, S) /\ (Taken(S) => None(Left, S))
  <2>1. CASE resumed = <<>>
    BY <2>1, NoneShort, ShortQueues DEF Left, Taken
  <2>2. CASE resumed # <<>>
    <3>1. Left = Tail(resumed)
      BY <2>2 DEF Left, Rest
    <3>2. /\ Head(resumed) \in ServerAnswers /\ Left \in Seq(ServerAnswers)
          /\ \A S : None(resumed, S) <=> Head(resumed) \notin S /\ None(Left, S)
          /\ \A S : AtMostOne(resumed, S) =>
               AtMostOne(Left, S) /\ (Head(resumed) \in S => None(Left, S))
      BY <2>2, <3>1, NoneTail DEF QueueInv
    <3> QED  BY <3>2 DEF Taken
  <2> QED  BY <2>1, <2>2
<1>3. /\ resumed' \in Seq(ServerAnswers)
      /\ \A S : None(resumed', S) <=> None(Left, S) /\ None(g, S)
      /\ \A S : AtMostOne(Left, S) /\ AtMostOne(g, S) /\ (None(Left, S) \/ None(g, S)) =>
           AtMostOne(resumed', S)
  BY <1>2, NoneConcat DEF Makes
<1> QED  BY <1>1, <1>2, <1>3

\* When a step of the main thread may make them:
\* a poll or what leads to one, in exchange for another or for the timer,
MayDrive(f, g) ==
    \/ /\ None(f, DriveCalls) /\ None(g, DriveAnswers)
       /\ pollTimer' => pollTimer \/ Taken(PollAnswers)
    \/ /\ \/ Taken(DriveAnswers) /\ (pollTimer' => pollTimer)
          \/ pollTimer /\ ~pollTimer'
       /\ AtMostOne(f, DriveCalls) /\ AtMostOne(g, DriveAnswers)
       /\ None(f, DriveCalls) \/ None(g, DriveAnswers)
       /\ None(f, ListenCalls) \/ Taken(BoundAnswers)
       /\ None(g, BoundAnswers)

\* a handler of the listener, for a poll that reports it,
MayCheck(f) ==
    \/ None(f, CheckCalls)
    \/ Taken(Reports) /\ AtMostOne(f, CheckCalls) /\ None(f, PollCalls)

\* accept(), when the handler has found the listener listening,
MayAccept(f) ==
    \/ None(f, AcceptCalls)
    \/ Taken(Found) /\ AtMostOne(f, AcceptCalls) /\ None(f, CheckCalls)

\* and bind() and close(), in open() and in dispose().
MayBind(f) ==
    /\ \A o \in Opens :
         /\ opener'[o] = "idle" => opener[o] = "idle"
         /\ \/ None(f, BindCalls(o))
            \/ opener[o] = "idle" /\ opener'[o] # "idle" /\ AtMostOne(f, BindCalls(o))
    /\ disposer' = "idle" => disposer = "idle" /\ None(f, CloseCalls)

\* Such a step of the main thread keeps the invariant.
LEMMA MainThreadKeeps ==
  ASSUME ServerInv', ListenerInv, NEW f \in Seq(ServerCalls), NEW g \in Seq(ServerAnswers),
         Makes(f, g), MayDrive(f, g), MayCheck(f), MayAccept(f), MayBind(f),
         None(g, Found), None(g, PollAnswers)
  PROVE  ListenerInv'
<1>1. /\ UNCHANGED <<status, backlog, gone, readable, watched, answers>>
      /\ LoopInv /\ ReportedInv /\ AcceptInv /\ CheckInv /\ BindInv /\ OpenInv
  BY DEF Makes, nativeVars, ListenerInv, HandlerInv
<1>2. /\ \A S : None(calls', S) <=> None(calls, S) /\ None(f, S)
      /\ \A S : AtMostOne(calls, S) /\ AtMostOne(f, S) /\ (None(calls, S) \/ None(f, S)) =>
           AtMostOne(calls', S)
      /\ \A S, T : Before(calls, S, T) /\ Before(f, S, T) /\ (None(f, S) \/ None(calls, T)) =>
           Before(calls', S, T)
      /\ calls' \in Seq(ServerCalls)
  BY QueuesMade DEF ListenerInv
<1>3. /\ \A S : None(resumed', S) <=> None(Left, S) /\ None(g, S)
      /\ \A S : None(resumed, S) => None(Left, S) /\ ~Taken(S)
      /\ \A S : AtMostOne(resumed, S) =>
           AtMostOne(Left, S) /\ (Taken(S) => None(Left, S))
      /\ \A S : AtMostOne(Left, S) /\ AtMostOne(g, S) /\ (None(Left, S) \/ None(g, S)) =>
           AtMostOne(resumed', S)
  BY QueuesMade DEF ListenerInv
<1>4. /\ PollAnswers \subseteq DriveAnswers /\ BoundAnswers \subseteq DriveAnswers
      /\ Reports \subseteq PollAnswers /\ PollCalls \subseteq DriveCalls
      /\ ListenCalls \subseteq DriveCalls
  BY CallClasses DEF DriveAnswers, DriveCalls, Reports, ListenCalls
<1>5. /\ \A q : None(q, DriveAnswers) => None(q, PollAnswers) /\ None(q, BoundAnswers)
      /\ \A q : None(q, PollAnswers) => None(q, Reports)
      /\ \A q : None(q, DriveCalls) => None(q, PollCalls) /\ None(q, ListenCalls)
      /\ Taken(Reports) => Taken(PollAnswers)
      /\ Taken(PollAnswers) \/ Taken(BoundAnswers) => Taken(DriveAnswers)
  BY <1>4, NoneSmaller DEF Taken
<1>6. \A q, S : None(q, S) => AtMostOne(q, S) /\ \A T : Before(q, S, T) /\ Before(q, T, S)
  BY NoneOrdered
<1>7. LoopInv'
  <2>1. CASE /\ None(f, DriveCalls) /\ None(g, DriveAnswers)
             /\ pollTimer' => pollTimer \/ Taken(PollAnswers)
    BY <1>1, <1>2, <1>3, <1>5, <1>6, <2>1 DEF LoopInv, NoDriver
  <2>2. CASE /\ \/ Taken(DriveAnswers) /\ (pollTimer' => pollTimer)
                \/ pollTimer /\ ~pollTimer'
             /\ AtMostOne(f, DriveCalls) /\ AtMostOne(g, DriveAnswers)
             /\ None(f, DriveCalls) \/ None(g, DriveAnswers)
             /\ None(f, ListenCalls) \/ Taken(BoundAnswers)
             /\ None(g, BoundAnswers)
    <3>1. /\ None(Left, DriveAnswers) /\ None(answers, DriveAnswers) /\ None(calls, DriveCalls)
          /\ ~pollTimer' /\ status[Listener] # "INIT"
      BY <1>1, <1>3, <2>2 DEF LoopInv, NoDriver
    <3>2. status[Listener] = "LISTENING" => None(f, ListenCalls)
      BY <1>1, <1>3, <2>2 DEF LoopInv
    <3>3. /\ AtMostOne(resumed', DriveAnswers)
          /\ AtMostOne(answers', DriveAnswers)
          /\ AtMostOne(calls', DriveCalls)
          /\ None(resumed', DriveAnswers) \/ None(calls', DriveCalls)
          /\ None(answers', DriveAnswers)
      BY <1>1, <1>2, <1>3, <1>6, <2>2, <3>1
    <3>4. status'[Listener] = "LISTENING" =>
            /\ None(calls', ListenCalls) /\ None(answers', BoundAnswers)
            /\ None(resumed', BoundAnswers)
      BY <1>1, <1>2, <1>3, <1>5, <2>2, <3>1, <3>2
    <3> QED  BY <1>1, <3>1, <3>3, <3>4 DEF LoopInv
  <2> QED  BY <2>1, <2>2 DEF MayDrive
<1>8. None(g, Reports) /\ (None(f, CheckCalls) \/ Taken(Reports))
      /\ (None(f, AcceptCalls) \/ Taken(Found))
  BY <1>5 DEF MayCheck, MayAccept
<1>9. ReportedInv'
  BY <1>1, <1>2, <1>3, <1>8 DEF ReportedInv, WasReported
<1>10. AcceptInv'
  <2>1. CASE None(f, AcceptCalls)
    BY <1>1, <1>2, <1>3, <1>6, <2>1 DEF AcceptInv
  <2>2. CASE Taken(Found) /\ AtMostOne(f, AcceptCalls) /\ None(f, CheckCalls)
    BY <1>1, <1>2, <1>3, <1>6, <2>2 DEF AcceptInv
  <2> QED  BY <2>1, <2>2 DEF MayAccept
<1>11. CheckInv'
  <2> SUFFICES ASSUME status[Listener] = "LISTENING"
               PROVE  /\ Before(calls', AcceptCalls, CheckCalls)
                      /\ None(calls', AcceptCalls) =>
                           /\ AtMostOne(calls', CheckCalls)
                           /\ None(calls', CheckCalls)
                                \/ (None(resumed', Found) /\ None(answers', Found))
                           /\ None(resumed', PollAnswers) \/ NoHandler'
                           /\ None(answers', PollAnswers) \/ None(calls', CheckCalls)
                           /\ Before(answers', Found, PollAnswers)
                           /\ Before(calls', CheckCalls, PollCalls)
    BY <1>1 DEF CheckInv
  <2>1. Before(calls', AcceptCalls, CheckCalls)
    <3>1. CASE None(f, AcceptCalls)
      BY <1>1, <1>2, <1>6, <3>1 DEF CheckInv
    <3>2. CASE Taken(Found) /\ AtMostOne(f, AcceptCalls) /\ None(f, CheckCalls)
      <4>1. None(calls, AcceptCalls)
        BY <1>1, <1>3, <3>2 DEF AcceptInv
      <4>2. None(calls, CheckCalls)
        BY <1>1, <1>3, <3>2, <4>1 DEF CheckInv
      <4> QED  BY <1>2, <1>6, <3>2, <4>2
    <3> QED  BY <3>1, <3>2 DEF MayAccept
  <2> SUFFICES ASSUME None(calls, AcceptCalls)
               PROVE  /\ AtMostOne(calls', CheckCalls)
                      /\ None(calls', CheckCalls)
                           \/ (None(resumed', Found) /\ None(answers', Found))
                      /\ None(resumed', PollAnswers) \/ NoHandler'
                      /\ None(answers', PollAnswers) \/ None(calls', CheckCalls)
                      /\ Before(answers', Found, PollAnswers)
                      /\ Before(calls', CheckCalls, PollCalls)
    BY <1>2, <2>1
  <2>2. /\ AtMostOne(calls, CheckCalls)
        /\ None(calls, CheckCalls) \/ (None(resumed, Found) /\ None(answers, Found))
        /\ None(resumed, PollAnswers) \/ NoHandler
        /\ None(answers, PollAnswers) \/ None(calls, CheckCalls)
        /\ Before(answers, Found, PollAnswers)
        /\ Before(calls, CheckCalls, PollCalls)
    BY <1>1 DEF CheckInv
  <2>3. CASE None(f, CheckCalls)
    BY <1>1, <1>2, <1>3, <1>6, <2>2, <2>3 DEF NoHandler
  <2>4. CASE Taken(Reports) /\ AtMostOne(f, CheckCalls) /\ None(f, PollCalls)
    <3>1. NoHandler
      BY <1>3, <1>5, <2>2, <2>4
    <3>2. /\ None(Left, DriveAnswers) /\ None(answers, DriveAnswers) /\ None(calls, DriveCalls)
      BY <1>1, <1>3, <1>5, <2>4 DEF LoopInv
    <3>3. None(Left, PollAnswers) /\ None(answers, PollAnswers) /\ None(calls, PollCalls)
      BY <1>5, <3>2
    <3> QED  BY <1>1, <1>2, <1>3, <1>6, <2>2, <2>4, <3>1, <3>3 DEF NoHandler
  <2> QED  BY <2>3, <2>4 DEF MayCheck
<1>12. BindInv'
  <2>1. ASSUME NEW o \in Opens
        PROVE  /\ AtMostOne(calls', BindCalls(o))
               /\ opener'[o] = "idle" => None(calls', BindCalls(o))
               /\ opener[o] # "idle" /\ None(calls, BindCalls(o)) =>
                    opener'[o] # "idle" /\ None(calls', BindCalls(o))
    BY <1>1, <1>2, <1>6 DEF BindInv, MayBind
  <2> QED  BY <1>1, <1>2, <2>1 DEF BindInv, MayBind
<1>13. OpenInv'
  <2>1. Undisturbed' => Undisturbed
    BY DEF Undisturbed, Reopened, MayBind
  <2> QED  BY <1>1, <1>2, <1>3, <1>8, <2>1 DEF OpenInv
<1>14. NativeInv' /\ QueueInv'
  BY <1>1, <1>2, QueuesTypedNext DEF ListenerInv, NativeInv, QueueInv
<1> QED  BY <1>7, <1>9, <1>10, <1>11, <1>12, <1>13, <1>14 DEF ListenerInv, HandlerInv

-----------------------------------------------------------------------------
(* The methods and the continuations.                                       *)

\* The calls that the methods and the continuations make are among these.
LEMMA CallsMade ==
  /\ \A o \in Opens :
       /\ Call("bind", Listener, <<"bound", o>>) \in ServerCalls
       /\ Call("listen", Listener, <<"listening", o>>) \in ServerCalls
       /\ Call("epollCreate", Listener, <<"created", o>>) \in ServerCalls
       /\ Call("epollAddUsock", Listener, <<"watching", o>>) \in ServerCalls
  /\ Call("epollUWait", Listener, <<"polled">>) \in ServerCalls
  /\ Call("accept", Listener, <<"accepted">>) \in ServerCalls
  /\ Call("close", Listener, <<"disposing">>) \in ServerCalls
  /\ \A s \in Fds : Call("epollAddUsock", s, <<"added">>) \in ServerCalls
  /\ \A s \in Sockets : Call("getSockState", s, <<"state">>) \in ServerCalls
<1>1. Listener \in Sockets
  BY DEF Sockets
<1>2. ASSUME NEW o \in Opens
      PROVE  /\ \A n \in {"bound", "listening", "created", "watching"} : <<n, o>> \in Kinds
             /\ \A n, m : <<n, o>> # <<m>>
             /\ \A n : <<n, o>> \in Named("bound") <=> n = "bound"
             /\ \A n : <<n, o>> \in Named("listening") <=> n = "listening"
  BY KindsDiffer DEF Kinds, Named
<1>3. /\ \A n \in Names : <<n>> \in Kinds
      /\ \A m : <<m>> \notin Named("bound") /\ <<m>> \notin Named("listening")
  <2>1. \A n \in Names : <<n>> \in Kinds
    BY DEF Kinds
  <2>2. Named("listening") \subseteq Starting
    BY KindClasses
  <2> QED  BY <2>1, <2>2, KindClasses
<1>4. ASSUME NEW o \in Opens
      PROVE  /\ Call("bind", Listener, <<"bound", o>>) \in ServerCalls
             /\ Call("listen", Listener, <<"listening", o>>) \in ServerCalls
             /\ Call("epollCreate", Listener, <<"created", o>>) \in ServerCalls
             /\ Call("epollAddUsock", Listener, <<"watching", o>>) \in ServerCalls
  <2>1. ASSUME NEW op \in {"bind", "listen", "epollCreate", "epollAddUsock"}, NEW k \in Kinds,
               \A n \in Names : k # <<n>>,
               op = "bind" <=> k \in Named("bound"),
               op = "listen" <=> k \in Named("listening")
        PROVE  Call(op, Listener, k) \in ServerCalls
    BY <1>1, <2>1 DEF Call, ServerCalls, Ops, Names
  <2>2. ASSUME NEW n \in {"bound", "listening", "created", "watching"}
        PROVE  /\ <<n, o>> \in Kinds /\ \A m : <<n, o>> # <<m>>
               /\ <<n, o>> \in Named("bound") <=> n = "bound"
               /\ <<n, o>> \in Named("listening") <=> n = "listening"
    BY <1>2
  <2>3. ASSUME NEW op \in {"bind", "listen", "epollCreate", "epollAddUsock"},
               NEW n \in {"bound", "listening", "created", "watching"},
               op = "bind" <=> n = "bound", op = "listen" <=> n = "listening"
        PROVE  Call(op, Listener, <<n, o>>) \in ServerCalls
    BY <2>1, <2>2, <2>3
  <2> QED  BY <2>3
<1>5. /\ Call("epollUWait", Listener, <<"polled">>) \in ServerCalls
      /\ Call("accept", Listener, <<"accepted">>) \in ServerCalls
      /\ Call("close", Listener, <<"disposing">>) \in ServerCalls
  BY <1>1, <1>3, KindsDiffer DEF Call, ServerCalls, Ops, Names
<1>6. \A s \in Fds : Call("epollAddUsock", s, <<"added">>) \in ServerCalls
  BY <1>3, KindsDiffer DEF Call, ServerCalls, Ops, Names
<1>7. \A s \in Sockets : Call("getSockState", s, <<"state">>) \in ServerCalls
  BY <1>3, KindsDiffer DEF Call, ServerCalls, Ops, Names
<1> QED  BY <1>4, <1>5, <1>6, <1>7

\* What stays as it is when nothing is called but what "f" says.
KeepsOpening ==
    /\ \A o \in Opens : opener'[o] = "idle" => opener[o] = "idle"
    /\ disposer' = "idle" => disposer = "idle"

\* A step that makes no call, but may resume an answer to what the map holds.
LEMMA QuietKeeps ==
  ASSUME ServerInv', ListenerInv, UNCHANGED <<nativeVars, calls, answers>>,
         KeepsOpening, pollTimer' => pollTimer,
         \/ resumed' = Left
         \/ \E r \in ServerAnswers : /\ resumed' = Append(Left, r)
                                     /\ r \notin DriveAnswers /\ r \notin Found
  PROVE  ListenerInv'
<1>1. ASSUME NEW g \in Seq(ServerAnswers), resumed' = Left \o g,
             None(g, DriveAnswers), None(g, Found)
      PROVE  ListenerInv'
  <2>1. calls \in Seq(ServerCalls) /\ <<>> \in Seq(ServerCalls) /\ calls \o <<>> = calls
    BY ConcatEmptySeq, ShortQueues DEF ListenerInv, QueueInv
  <2>2. Makes(<<>>, g)
    BY <1>1, <2>1 DEF Makes
  <2>3. None(g, PollAnswers)
    BY <1>1, NoneSmaller DEF DriveAnswers
  <2>4. MayDrive(<<>>, g) /\ MayCheck(<<>>) /\ MayAccept(<<>>) /\ MayBind(<<>>)
    BY <1>1, NoneShort DEF MayDrive, MayCheck, MayAccept, MayBind, KeepsOpening
  <2> QED  BY <1>1, <2>1, <2>2, <2>3, <2>4, MainThreadKeeps
<1>2. Left \in Seq(ServerAnswers)
  <2>1. resumed # <<>> => Left \in Seq(ServerAnswers)
    BY NoneTail DEF Left, Rest, ListenerInv, QueueInv
  <2> QED  BY <2>1, ShortQueues DEF Left
<1>3. CASE resumed' = Left
  <2>1. <<>> \in Seq(ServerAnswers) /\ Left \o <<>> = Left
    BY <1>2, ConcatEmptySeq, ShortQueues
  <2> QED  BY <1>1, <1>3, <2>1, NoneShort
<1>4. ASSUME NEW r \in ServerAnswers, resumed' = Append(Left, r),
             r \notin DriveAnswers, r \notin Found
      PROVE  ListenerInv'
  <2>1. <<r>> \in Seq(ServerAnswers) /\ Append(Left, r) = Left \o <<r>>
    BY <1>2, ShortQueues, AppendIsConcat
  <2>2. None(<<r>>, DriveAnswers) /\ None(<<r>>, Found)
    BY <1>4, NoneShort
  <2> QED  BY <1>1, <1>4, <2>1, <2>2
<1> QED  BY <1>3, <1>4

\* A step that makes one call, which AsyncSRT answers itself during its disposal.
LEMMA OneCallKeeps ==
  ASSUME ServerInv', ListenerInv, NEW c \in ServerCalls, Posts(<<c>>, Left),
         UNCHANGED <<nativeVars, answers>>,
         asyncSrt # "live" => asyncSrt = "disposing" /\ c.op \notin {"epollUWait", "bind"},
         IF c \in DriveCalls
           THEN \/ Taken(DriveAnswers) /\ (pollTimer' => pollTimer)
                \/ pollTimer /\ ~pollTimer'
           ELSE pollTimer' => pollTimer,
         c.op = "listen" => Taken(BoundAnswers),
         c.op = "accept" => Taken(Found),
         c.op # "getSockState",
         MayBind(<<c>>)
  PROVE  ListenerInv'
<1>1. /\ c \in ListenCalls <=> c.op = "listen"
      /\ c \in AcceptCalls <=> c.op = "accept"
      /\ c \notin CheckCalls
  BY CallClasses
<1>2. \A S : (None(<<c>>, S) <=> c \notin S) /\ AtMostOne(<<c>>, S)
  BY NoneShort
<1>3. \A S : None(<<>>, S) /\ AtMostOne(<<>>, S)
  BY NoneShort
<1>4. CASE asyncSrt = "live"
  <2>1. Left \in Seq(ServerAnswers)
    <3>1. resumed # <<>> => Left \in Seq(ServerAnswers)
      BY NoneTail DEF Left, Rest, ListenerInv, QueueInv
    <3> QED  BY <3>1, ShortQueues DEF Left
  <2>2. /\ <<c>> \in Seq(ServerCalls) /\ <<>> \in Seq(ServerAnswers) /\ Left \o <<>> = Left
    BY <2>1, ConcatEmptySeq, ShortQueues
  <2>3. Makes(<<c>>, <<>>)
    BY <1>4, <2>2 DEF Makes, Posts
  <2>4. MayDrive(<<c>>, <<>>) /\ MayCheck(<<c>>) /\ MayAccept(<<c>>)
    BY <1>1, <1>2, <1>3 DEF MayDrive, MayCheck, MayAccept
  <2> QED  BY <1>3, <2>2, <2>3, <2>4, MainThreadKeeps
<1>5. CASE asyncSrt # "live"
  <2> DEFINE r == Resumption(c.k, c.socket, Undefined)
             g == [i \in 1..Len(<<c>>) |-> Resumption(<<c>>[i].k, <<c>>[i].socket, Undefined)]
  <2>1. g = <<r>>
    OBVIOUS
  <2>2. resumed' = Left \o g /\ calls' = calls
    BY <1>5 DEF Posts
  <2>3. r \in ServerAnswers
    BY DEF Resumption, ServerAnswers, ServerCalls, Outcomes
  <2>4. Undefined # "LISTENING" /\ Undefined # Failed
    BY SRTServerAssumption DEF SockStatus
  <2>5. /\ r \in PollAnswers <=> c \in PollCalls
        /\ r \in BoundAnswers <=> c.op = "bind"
        /\ r \in DriveAnswers <=> c \in DriveCalls \/ r \in BoundAnswers
        /\ r \notin Found
    BY <2>3, <2>4, AnswerOfCall
  <2>6. r \notin PollAnswers /\ r \notin BoundAnswers
    BY <1>5, <2>5, CallClasses
  <2> HIDE DEF g, r
  <2>7. calls \o <<>> = calls /\ <<>> \in Seq(ServerCalls) /\ <<r>> \in Seq(ServerAnswers)
    BY <2>3, ConcatEmptySeq, ShortQueues DEF ListenerInv, QueueInv
  <2>8. Makes(<<>>, <<r>>)
    BY <2>1, <2>2, <2>7 DEF Makes
  <2>9. \A S : (None(<<r>>, S) <=> r \notin S) /\ AtMostOne(<<r>>, S)
    BY NoneShort
  <2>10. MayDrive(<<>>, <<r>>)
    BY <1>3, <2>5, <2>6, <2>9 DEF MayDrive
  <2>11. MayCheck(<<>>) /\ MayAccept(<<>>) /\ MayBind(<<>>)
    BY <1>3 DEF MayCheck, MayAccept, MayBind
  <2> QED  BY <2>5, <2>6, <2>7, <2>8, <2>9, <2>10, <2>11, MainThreadKeeps
<1> QED  BY <1>4, <1>5

\* A call that neither binds nor closes the listener.
LEMMA NoBindNoClose ==
  ASSUME NEW c \in ServerCalls, c.op \notin {"bind", "close"}, KeepsOpening
  PROVE  MayBind(<<c>>)
<1>1. c \notin CloseCalls /\ \A p \in Opens : c \notin BindCalls(p)
  BY CallClasses
<1>2. \A S : None(<<c>>, S) <=> c \notin S
  BY NoneShort
<1> QED  BY <1>1, <1>2 DEF MayBind, KeepsOpening

\* While something is resumed.
LEMMA HeadTaken ==
  ASSUME ServerInv, ListenerInv, resumed # <<>>
  PROVE  /\ asyncSrt \in {"live", "disposing"}
         /\ Left = Rest
         /\ Head(resumed) \in ServerAnswers
         /\ Taken(PollAnswers) <=> Head(resumed).k = <<"polled">>
         /\ Head(resumed).k \in Starting => Taken(DriveAnswers)
         /\ Head(resumed).k \in Named("bound") /\ Result # Failed =>
              Taken(BoundAnswers) /\ Taken(DriveAnswers)
         /\ Head(resumed).k = <<"polled">> => Taken(DriveAnswers)
         /\ Head(resumed).k = <<"polled">> /\ Listener \in Result => Taken(Reports)
         /\ Head(resumed).k = <<"state">> /\ Socket = Listener /\ Result = "LISTENING" =>
              Taken(Found)
<1>1. asyncSrt \in {"live", "disposing"}
  BY Running
<1>2. Head(resumed) \in ServerAnswers
  BY NoneTail DEF ListenerInv, QueueInv
<1> QED  BY <1>1, <1>2, AnswerClasses DEF Left, Taken, Result, Socket

\* open() and what follows it.
LEMMA OpeningKeeps ==
  ASSUME ServerInv, ServerInv', ListenerInv, NEW o \in Opens,
         Open(o) \/ Bound(o) \/ Listening(o) \/ EpollCreated(o) \/ Watching(o)
  PROVE  ListenerInv'
<1>0. /\ opener \in [Opens -> {"idle", "running", "opened", "failed"}]
      /\ disposer \in {"idle", "closing"} => asyncSrt = "live"
      /\ asyncSrt \in {"live", "disposing", "disposed"}
  BY DEF ServerInv, TypeOK, FieldInv
<1>1. CASE Open(o)
  <2> DEFINE c == Call("bind", Listener, <<"bound", o>>)
  <2>1. c \in ServerCalls /\ c.op = "bind" /\ c.k = <<"bound", o>>
    BY CallsMade DEF Call
  <2>2. /\ Posts(<<c>>, Left) /\ asyncSrt = "live"
        /\ UNCHANGED <<nativeVars, answers, disposer, pollTimer>>
        /\ opener[o] = "idle" /\ opener' = [opener EXCEPT ![o] = "running"]
    BY <1>0, <1>1 DEF Open, Idle, Left
  <2> HIDE DEF c
  <2>3. /\ c \notin DriveCalls /\ c \notin CloseCalls
        /\ \A p \in Opens : p # o => c \notin BindCalls(p)
    <3>1. \A p \in Opens : c \in BindCalls(p) => <<"bound", o>> = <<"bound", p>>
      BY <2>1 DEF BindCalls
    <3> QED  BY <2>1, <3>1, CallClasses, KindClasses
  <2>4. MayBind(<<c>>)
    <3>1. \A S : (None(<<c>>, S) <=> c \notin S) /\ AtMostOne(<<c>>, S)
      BY NoneShort
    <3>2. opener'[o] = "running" /\ \A p \in Opens : p # o => opener'[p] = opener[p]
      BY <1>0, <2>2
    <3> QED  BY <2>2, <2>3, <3>1, <3>2 DEF MayBind
  <2> QED  BY <2>1, <2>2, <2>3, <2>4, OneCallKeeps
<1>2. ASSUME NEW c \in ServerCalls, c.op \notin {"bind", "close"}, KeepsOpening
      PROVE  MayBind(<<c>>)
  BY <1>2, NoBindNoClose
<1>3. ASSUME NEW k, NEW c \in ServerCalls, OpenGoesOn(o, k, c),
             Result # Failed => Taken(DriveAnswers) /\ (c.op = "listen" => Taken(BoundAnswers)),
             c.op \in {"listen", "epollCreate", "epollAddUsock"}, c \in DriveCalls
      PROVE  ListenerInv'
  <2>1. /\ resumed # <<>>
        /\ UNCHANGED <<nativeVars, answers, disposer, pollTimer>>
        /\ \/ PostsNothing(Rest)
           \/ Posts(<<c>>, Rest) /\ Result # Failed
        /\ opener' \in {opener, [opener EXCEPT ![o] = "failed"]}
    BY <1>3 DEF OpenGoesOn, Resumes
  <2>2. KeepsOpening
    BY <1>0, <2>1 DEF KeepsOpening
  <2>3. Left = Rest /\ asyncSrt \in {"live", "disposing"}
    BY <2>1, HeadTaken
  <2>4. CASE PostsNothing(Rest)
    BY <2>1, <2>2, <2>3, <2>4, QuietKeeps DEF PostsNothing
  <2>5. CASE Posts(<<c>>, Rest) /\ Result # Failed
    BY <1>2, <1>3, <2>1, <2>2, <2>3, <2>5, OneCallKeeps
  <2> QED  BY <2>1, <2>4, <2>5
<1>4. CASE Bound(o)
  <2> DEFINE c == Call("listen", Listener, <<"listening", o>>)
  <2>1. c \in ServerCalls /\ c.op = "listen" /\ c \in DriveCalls
    BY CallsMade, CallClasses DEF Call
  <2>2. OpenGoesOn(o, "bound", c) /\ resumed # <<>> /\ Head(resumed).k \in Named("bound")
    BY <1>4 DEF Bound, OpenGoesOn, Resumes, Named
  <2> HIDE DEF c
  <2> QED  BY <1>3, <2>1, <2>2, HeadTaken
<1>5. CASE Listening(o)
  <2> DEFINE c == Call("epollCreate", Listener, <<"created", o>>)
  <2>1. c \in ServerCalls /\ c.op = "epollCreate" /\ c \in DriveCalls
    BY CallsMade, CallClasses, KindClasses DEF Call
  <2>2. OpenGoesOn(o, "listening", c) /\ resumed # <<>> /\ Head(resumed).k \in Starting
    BY <1>5, KindClasses DEF Listening, OpenGoesOn, Resumes
  <2> HIDE DEF c
  <2> QED  BY <1>3, <2>1, <2>2, HeadTaken
<1>6. CASE EpollCreated(o)
  <2> DEFINE c == Call("epollAddUsock", Listener, <<"watching", o>>)
  <2>1. c \in ServerCalls /\ c.op = "epollAddUsock" /\ c \in DriveCalls
    BY CallsMade, CallClasses, KindClasses DEF Call
  <2>2. OpenGoesOn(o, "created", c) /\ resumed # <<>> /\ Head(resumed).k \in Starting
    BY <1>6, KindClasses DEF EpollCreated, OpenGoesOn, Resumes
  <2> HIDE DEF c
  <2> QED  BY <1>3, <2>1, <2>2, HeadTaken
<1> DEFINE c == Call("epollUWait", Listener, <<"polled">>)
<1>7. c \in ServerCalls /\ c.op = "epollUWait" /\ c \in DriveCalls
  BY CallsMade, CallClasses DEF Call
<1> HIDE DEF c
<1>8. CASE Watching(o)
  <2>1. /\ resumed # <<>> /\ Head(resumed).k \in Starting
        /\ UNCHANGED <<nativeVars, answers, disposer>>
        /\ opener' = [opener EXCEPT ![o] = "opened"]
        /\ \/ PostsNothing(Rest) /\ pollTimer' = FALSE
           \/ Posts(<<c>>, Rest) /\ asyncSrt = "live" /\ UNCHANGED pollTimer
    BY <1>8, KindClasses DEF Watching, Resumes, PollEvents, c
  <2>2. KeepsOpening
    BY <1>0, <2>1 DEF KeepsOpening
  <2>3. Left = Rest /\ Taken(DriveAnswers)
    BY <2>1, HeadTaken
  <2>4. CASE PostsNothing(Rest) /\ pollTimer' = FALSE
    BY <2>1, <2>2, <2>3, <2>4, QuietKeeps DEF PostsNothing
  <2>5. CASE Posts(<<c>>, Rest) /\ asyncSrt = "live" /\ UNCHANGED pollTimer
    BY <1>2, <1>7, <2>1, <2>2, <2>3, <2>5, OneCallKeeps
  <2> QED  BY <2>1, <2>4, <2>5
<1> QED  BY <1>1, <1>4, <1>5, <1>6, <1>8

\* The timer of the poll loop.
LEMMA TimerKeeps ==
  ASSUME ServerInv, ServerInv', ListenerInv, PollTimer
  PROVE  ListenerInv'
<1> DEFINE c == Call("epollUWait", Listener, <<"polled">>)
<1>1. c \in ServerCalls /\ c.op = "epollUWait" /\ c \in DriveCalls
  BY CallsMade, CallClasses DEF Call
<1> HIDE DEF c
<1>2. /\ Left = resumed /\ pollTimer /\ pollTimer' = FALSE
      /\ UNCHANGED <<nativeVars, answers, opener, disposer>>
      /\ \/ PostsNothing(resumed)
         \/ Posts(<<c>>, resumed) /\ asyncSrt = "live"
  BY DEF PollTimer, Idle, Left, c
<1>3. KeepsOpening
  BY <1>2 DEF KeepsOpening
<1>4. CASE PostsNothing(resumed)
  BY <1>2, <1>3, <1>4, QuietKeeps DEF PostsNothing
<1>5. CASE Posts(<<c>>, resumed) /\ asyncSrt = "live"
  BY <1>1, <1>2, <1>3, <1>5, NoBindNoClose, OneCallKeeps
<1> QED  BY <1>2, <1>4, <1>5

\* The calls of the handlers that a poll starts.
LEMMA HandlersStarted ==
  ASSUME ServerInv, resumed # <<>>, Head(resumed).k = <<"polled">>, NEW order \in Orders(Result),
         NEW f, f = [i \in DOMAIN order |-> Call("getSockState", order[i], <<"state">>)]
  PROVE  /\ f \in Seq(ServerCalls) /\ Len(f) = Cardinality(Result) /\ Len(f) \in Nat
         /\ \A i \in 1..Len(f) : /\ f[i] \in ServerCalls /\ f[i].k = <<"state">>
                                /\ f[i].op = "getSockState" /\ f[i].socket = order[i]
<1>1. Result \subseteq Sockets /\ Cardinality(Result) \in Nat
  <2>1. Result \subseteq Sockets
    BY Running DEF ResumptionSet, Result
  <2> QED  BY <2>1, SocketsAreFinite, FS_Subset, FS_CardinalityType
<1>2. order \in [1..Cardinality(Result) -> Result]
  BY DEF Orders
<1>3. f \in [1..Cardinality(Result) -> ServerCalls]
  <2>1. \A i \in 1..Cardinality(Result) :
          Call("getSockState", order[i], <<"state">>) \in ServerCalls
    BY <1>1, <1>2, CallsMade
  <2> QED  BY <1>2, <2>1
<1>4. f \in Seq(ServerCalls) /\ Len(f) = Cardinality(Result)
  BY <1>1, <1>3, SeqDef, LenProperties
<1>5. \A i \in 1..Len(f) : f[i] = Call("getSockState", order[i], <<"state">>)
  BY <1>2, <1>4
<1> QED  BY <1>1, <1>3, <1>4, <1>5 DEF Call

\* A poll starts the handlers, that of the listener if it reports it.
LEMMA PolledKeeps ==
  ASSUME ServerInv, ServerInv', ListenerInv, Polled
  PROVE  ListenerInv'
<1>1. PICK order \in Orders(Result) :
        Posts([i \in DOMAIN order |-> Call("getSockState", order[i], <<"state">>)], Rest)
  BY DEF Polled
<1> DEFINE f == [i \in DOMAIN order |-> Call("getSockState", order[i], <<"state">>)]
<1>2. /\ resumed # <<>> /\ Head(resumed).k = <<"polled">>
      /\ UNCHANGED <<nativeVars, answers, opener, disposer>> /\ pollTimer' = TRUE
  BY DEF Polled, Resumes
<1>3. /\ asyncSrt \in {"live", "disposing"} /\ Left = Rest /\ Taken(PollAnswers)
      /\ Listener \in Result => Taken(Reports)
  BY <1>2, HeadTaken
<1>5. /\ order \in [1..Cardinality(Result) -> Result]
      /\ \A i, j \in 1..Cardinality(Result) : order[i] = order[j] => i = j
  BY DEF Orders
<1>7. /\ f \in Seq(ServerCalls) /\ Len(f) = Cardinality(Result) /\ Len(f) \in Nat
      /\ \A i \in 1..Len(f) : /\ f[i] \in ServerCalls /\ f[i].k = <<"state">>
                             /\ f[i].op = "getSockState" /\ f[i].socket = order[i]
  BY <1>2, HandlersStarted
<1>8. \A i \in 1..Len(f) : f[i] \in ServerCalls /\ f[i].op = "getSockState"
                           /\ f[i].socket = order[i]
  BY <1>7
<1>9. Posts(f, Left)
  BY <1>1, <1>3
<1> HIDE DEF f
<1>10. /\ None(f, DriveCalls) /\ None(f, PollCalls) /\ None(f, AcceptCalls) /\ None(f, CloseCalls)
       /\ \A o \in Opens : None(f, BindCalls(o))
  BY <1>8, CallClasses DEF None
<1>11. MayCheck(f)
  <2>1. \A i \in 1..Len(f) : f[i] \in CheckCalls => order[i] = Listener
    BY <1>8, CallClasses
  <2>2. CASE Listener \in Result
    BY <1>3, <1>5, <1>7, <1>10, <2>1, <2>2 DEF MayCheck, AtMostOne
  <2>3. CASE Listener \notin Result
    BY <1>5, <1>7, <2>1, <2>3 DEF MayCheck, None
  <2> QED  BY <2>2, <2>3
<1>12. \A S : None(<<>>, S) /\ AtMostOne(<<>>, S)
  BY NoneShort
<1>13. CASE asyncSrt = "live"
  <2>1. Left \in Seq(ServerAnswers)
    BY <1>2, <1>3, NoneTail DEF Rest, ListenerInv, QueueInv
  <2>2. <<>> \in Seq(ServerAnswers) /\ Left \o <<>> = Left
    BY <2>1, ConcatEmptySeq, ShortQueues
  <2>3. Makes(f, <<>>)
    BY <1>2, <1>9, <1>13, <2>2 DEF Makes, Posts
  <2>4. MayDrive(f, <<>>) /\ MayAccept(f) /\ MayBind(f)
    BY <1>2, <1>3, <1>10, <1>12 DEF MayDrive, MayAccept, MayBind
  <2> QED  BY <1>7, <1>11, <1>12, <2>2, <2>3, <2>4, MainThreadKeeps
<1>14. CASE asyncSrt # "live"
  <2> DEFINE g == [i \in 1..Len(f) |-> Resumption(f[i].k, f[i].socket, Undefined)]
  <2>1. calls' = calls /\ resumed' = Left \o g
    BY <1>3, <1>9, <1>14 DEF Posts
  <2>2. Undefined # "LISTENING" /\ Undefined # Failed
    BY SRTServerAssumption DEF SockStatus
  <2>3. ASSUME NEW i \in 1..Len(f)
        PROVE  /\ g[i] \in ServerAnswers /\ g[i] \notin DriveAnswers
               /\ g[i] \notin PollAnswers /\ g[i] \notin Found
    <3> DEFINE r == Resumption(f[i].k, f[i].socket, Undefined)
    <3>1. r \in ServerAnswers
      BY <1>8 DEF Resumption, ServerAnswers, ServerCalls, Outcomes
    <3>2. g[i] = r
      OBVIOUS
    <3>3. f[i] \in ServerCalls /\ f[i].op = "getSockState"
      BY <1>8
    <3>4. PICK c \in ServerCalls : c = f[i] /\ c.op = "getSockState"
      BY <3>3
    <3>5. r = Resumption(c.k, c.socket, Undefined)
      BY <3>4
    <3> HIDE DEF r, g
    <3>6. /\ r \in PollAnswers <=> c \in PollCalls
          /\ r \in BoundAnswers <=> c.op = "bind" /\ Undefined # Failed
          /\ r \in DriveAnswers <=> c \in DriveCalls \/ r \in BoundAnswers
          /\ r \in Found <=> c \in CheckCalls /\ Undefined = "LISTENING"
      BY <3>1, <3>5, AnswerOfCall
    <3>7. c \notin PollCalls /\ c \notin DriveCalls
      BY <3>4, CallClasses
    <3> QED  BY <2>2, <3>1, <3>2, <3>4, <3>6, <3>7
  <2>4. g \in [1..Len(f) -> ServerAnswers]
    BY <2>3
  <2>5. g \in Seq(ServerAnswers) /\ Len(g) = Len(f)
    BY <1>7, <2>4, SeqDef, LenProperties
  <2>6. None(g, DriveAnswers) /\ None(g, PollAnswers) /\ None(g, Found)
    BY <2>3, <2>5 DEF None
  <2> HIDE DEF g
  <2>7. calls \o <<>> = calls /\ <<>> \in Seq(ServerCalls)
    BY ConcatEmptySeq, ShortQueues DEF ListenerInv, QueueInv
  <2>8. Makes(<<>>, g)
    BY <1>2, <2>1, <2>7 DEF Makes
  <2>9. MayDrive(<<>>, g) /\ MayCheck(<<>>) /\ MayAccept(<<>>) /\ MayBind(<<>>)
    BY <1>2, <1>3, <1>12, <2>6 DEF MayDrive, MayCheck, MayAccept, MayBind
  <2> QED  BY <2>5, <2>6, <2>7, <2>8, <2>9, MainThreadKeeps
<1> QED  BY <1>13, <1>14

\* The handlers, and the disposal they race with.
LEMMA HandlersKeep ==
  ASSUME ServerInv, ServerInv', ListenerInv,
         \/ ListenerEvent \/ Accepted \/ Added \/ BrokenEvent \/ ConnectionClosed \/ DataEvent
         \/ Dispose \/ ListenerClosed \/ DisposeProceed \/ WorkerExited
  PROVE  ListenerInv'
<1>0. /\ disposer = "idle" => asyncSrt = "live"
      /\ attached = {} /\ connectionMap \subseteq Fds
  BY DEF ServerInv, TypeOK, FieldInv
<1>1. ASSUME NEW c \in ServerCalls, c.op \notin {"bind", "close"}, UNCHANGED <<opener, disposer>>
      PROVE  MayBind(<<c>>)
  BY <1>1, NoBindNoClose DEF KeepsOpening
<1>2. CASE ListenerEvent
  <2> DEFINE c == Call("accept", Listener, <<"accepted">>)
  <2>1. c \in ServerCalls /\ c.op = "accept" /\ c \notin DriveCalls
    BY CallsMade, CallClasses DEF Call
  <2>2. /\ resumed # <<>> /\ Head(resumed).k = <<"state">> /\ Socket = Listener
        /\ UNCHANGED <<nativeVars, answers, opener, disposer, pollTimer>>
        /\ \/ PostsNothing(Rest)
           \/ Posts(<<c>>, Rest) /\ Result = "LISTENING"
    BY <1>2 DEF ListenerEvent, Resumes, IsListener
  <2> HIDE DEF c
  <2>3. /\ asyncSrt \in {"live", "disposing"} /\ Left = Rest
        /\ Result = "LISTENING" => Taken(Found)
    BY <2>2, HeadTaken
  <2>4. CASE PostsNothing(Rest)
    BY <2>2, <2>3, <2>4, QuietKeeps DEF PostsNothing, KeepsOpening
  <2>5. CASE Posts(<<c>>, Rest) /\ Result = "LISTENING"
    <3>1. MayBind(<<c>>)
      BY <1>1, <2>1, <2>2
    <3> QED  BY <2>1, <2>2, <2>3, <2>5, <3>1, OneCallKeeps
  <2> QED  BY <2>2, <2>4, <2>5
<1>3. CASE Accepted
  <2> DEFINE c == Call("epollAddUsock", Result, <<"added">>)
  <2>1. /\ resumed # <<>> /\ Head(resumed).k = <<"accepted">>
        /\ UNCHANGED <<nativeVars, answers, opener, disposer, pollTimer>>
        /\ Posts(<<c>>, Rest)
    BY <1>3 DEF Accepted, Resumes
  <2>2. Result \in Fds
    BY <2>1, Running DEF ResumptionSet, Result
  <2>3. c \in ServerCalls /\ c.op = "epollAddUsock" /\ c.k = <<"added">>
    BY <2>2, CallsMade DEF Call
  <2> HIDE DEF c
  <2>4. asyncSrt \in {"live", "disposing"} /\ Left = Rest
    BY <2>1, HeadTaken
  <2>5. c \notin DriveCalls
    BY <2>3, CallClasses, KindClasses
  <2>6. MayBind(<<c>>)
    BY <1>1, <2>1, <2>3
  <2> QED  BY <2>1, <2>3, <2>4, <2>5, <2>6, OneCallKeeps
<1>4. CASE Added \/ ConnectionClosed \/ DataEvent \/ ListenerClosed
  <2>1. /\ resumed # <<>> /\ resumed' = Rest
        /\ UNCHANGED <<nativeVars, calls, answers, opener, pollTimer>>
        /\ disposer' \in {disposer, "terminating", "waiting"}
    BY <1>4 DEF Added, ConnectionClosed, DataEvent, ListenerClosed, Resumes
  <2>2. Left = Rest /\ KeepsOpening
    BY <2>1 DEF Left, KeepsOpening
  <2> QED  BY <2>1, <2>2, QuietKeeps
<1>5. CASE BrokenEvent
  <2> DEFINE r == Resumption(<<"closed">>, Socket, Success)
  <2>1. /\ resumed # <<>> /\ UNCHANGED <<nativeVars, calls, answers, opener, disposer, pollTimer>>
        /\ \/ resumed' = Rest
           \/ resumed' = Append(Rest, r) /\ Socket \in connectionMap
    BY <1>0, <1>5 DEF BrokenEvent, CloseConnection, Resumes
  <2>2. Left = Rest /\ KeepsOpening
    BY <2>1 DEF Left, KeepsOpening
  <2>3. CASE resumed' = Rest
    BY <2>1, <2>2, <2>3, QuietKeeps
  <2>4. CASE resumed' = Append(Rest, r) /\ Socket \in connectionMap
    <3>1. r \in ServerAnswers /\ r.k = <<"closed">>
      BY <1>0, <2>4 DEF Resumption, ServerAnswers, Kinds, Names, Outcomes
    <3> HIDE DEF r
    <3>2. r \notin DriveAnswers /\ r \notin Found
      BY <3>1, AnswerClasses, KindClasses DEF Names
    <3> QED  BY <2>1, <2>2, <2>4, <3>1, <3>2, QuietKeeps
  <2> QED  BY <2>1, <2>3, <2>4
<1>6. CASE Dispose
  <2> DEFINE c == Call("close", Listener, <<"disposing">>)
  <2>1. c \in ServerCalls /\ c.op = "close" /\ c \notin DriveCalls
    BY CallsMade, CallClasses DEF Call
  <2>2. /\ Posts(<<c>>, Left) /\ asyncSrt = "live"
        /\ UNCHANGED <<nativeVars, answers, opener>> /\ disposer' = "closing" /\ pollTimer' = FALSE
    BY <1>0, <1>6 DEF Dispose, Idle, Left
  <2> HIDE DEF c
  <2>3. MayBind(<<c>>)
    <3>1. \A p \in Opens : c \notin BindCalls(p)
      BY <2>1, CallClasses
    <3>2. \A S : None(<<c>>, S) <=> c \notin S
      BY NoneShort
    <3> QED  BY <2>2, <3>1, <3>2 DEF MayBind
  <2> QED  BY <2>1, <2>2, <2>3, OneCallKeeps
<1>7. CASE DisposeProceed \/ WorkerExited
  <2>1. /\ resumed = <<>> /\ resumed' = resumed /\ disposer' \in {"terminating", "done"}
        /\ UNCHANGED <<nativeVars, calls, answers, opener, pollTimer>>
    BY <1>7 DEF DisposeProceed, WorkerExited, Idle, loopVars
  <2>2. resumed' = Left /\ KeepsOpening
    BY <2>1 DEF Left, KeepsOpening
  <2> QED  BY <2>1, <2>2, QuietKeeps
<1> QED  BY <1>2, <1>3, <1>4, <1>5, <1>6, <1>7

-----------------------------------------------------------------------------
(* The invariant.                                                           *)

\* Nothing happens.
LEMMA ListenerStutter == ListenerInv /\ UNCHANGED vars => ListenerInv'
BY DEF vars, nativeVars, loopVars, ListenerInv, QueueInv, NativeInv, HandlerInv, LoopInv, NoDriver,
       ReportedInv, WasReported, AcceptInv, CheckInv, NoHandler, BindInv, OpenInv, Undisturbed,
       Reopened

\* The inductive invariant.
LEMMA ListenerInvariant == Spec => []ListenerInv
<1>1. Init => ListenerInv
  <2> SUFFICES ASSUME Init  PROVE ListenerInv
    OBVIOUS
  <2>1. /\ calls = <<>> /\ answers = <<>> /\ resumed = <<>>
        /\ status[Listener] = "INIT" /\ backlog = {} /\ readable = {}
        /\ ~pollTimer /\ disposer = "idle"
    BY DEF Init, LoopInit, NativeInit, Sockets
  <2>2. \A S : None(<<>>, S) /\ AtMostOne(<<>>, S) /\ \A T : Before(<<>>, S, T)
    BY NoneShort
  <2>3. QueueInv /\ NativeInv
    BY <2>1, ShortQueues DEF QueueInv, NativeInv
  <2>4. LoopInv /\ ReportedInv /\ AcceptInv
    BY <2>1, <2>2 DEF LoopInv, NoDriver, ReportedInv, AcceptInv
  <2>5. CheckInv /\ BindInv /\ OpenInv
    BY <2>1, <2>2 DEF CheckInv, BindInv, OpenInv
  <2> QED  BY <2>3, <2>4, <2>5 DEF ListenerInv, HandlerInv
<1>2. ServerInv /\ ServerInv' /\ ListenerInv /\ [Next]_vars => ListenerInv'
  BY WorkerKeeps, AnswerKeeps, PeersKeep, OpeningKeeps, TimerKeeps, PolledKeeps, HandlersKeep,
     ListenerStutter DEF Next, MainThread, UserOpens, Continuations
<1> QED  BY <1>1, <1>2, ServerInvariant, PTL DEF Spec

(* However often open() is called, and whatever fails or is disposed of     *)
(* while it runs, there is never a second poll loop.                        *)
THEOREM OneLoopOnly == Spec => []OnePollLoop
<1>1. ListenerInv => OnePollLoop
  <2> SUFFICES ASSUME ListenerInv  PROVE OnePollLoop
    OBVIOUS
  <2> DEFINE X == ServerAnswers \union ServerCalls
             P == {x \in X : x.k = <<"polled">>}
             loop == resumed \o InFlight
  <2>1. /\ resumed \in Seq(ServerAnswers) /\ answers \in Seq(ServerAnswers)
        /\ calls \in Seq(ServerCalls) /\ LoopInv
    BY DEF ListenerInv, QueueInv, HandlerInv
  <2>2. resumed \in Seq(X) /\ answers \in Seq(X) /\ calls \in Seq(X)
    BY <2>1, LargerSet
  <2>3. /\ \A r \in ServerAnswers : r \in P => r \in DriveAnswers
        /\ \A c \in ServerCalls : c \in P => c \in DriveCalls
    BY AnswerClasses DEF DriveCalls, PollCalls
  <2>4. \A x \in X : x \in P <=> x.k = <<"polled">>
    OBVIOUS
  <2> HIDE DEF X, P
  <2>5. ASSUME NEW q \in Seq(ServerAnswers)
        PROVE  /\ None(q, DriveAnswers) => None(q, P)
               /\ AtMostOne(q, DriveAnswers) => AtMostOne(q, P)
    BY <2>3, ElementOfSeq DEF None, AtMostOne
  <2>6. /\ None(calls, DriveCalls) => None(calls, P)
        /\ AtMostOne(calls, DriveCalls) => AtMostOne(calls, P)
    BY <2>1, <2>3, ElementOfSeq DEF None, AtMostOne
  <2>7. /\ AtMostOne(resumed, P) /\ AtMostOne(answers, P) /\ AtMostOne(calls, P)
        /\ None(answers, P) \/ None(calls, P)
        /\ None(resumed, P) \/ (None(answers, P) /\ None(calls, P))
        /\ pollTimer => None(resumed, P) /\ None(answers, P) /\ None(calls, P)
    BY <2>1, <2>5, <2>6 DEF LoopInv, NoDriver
  <2>8. /\ InFlight \in Seq(X) /\ AtMostOne(InFlight, P)
        /\ None(InFlight, P) <=> None(answers, P) /\ None(calls, P)
    BY <2>2, <2>7, NoneConcat DEF InFlight
  <2>9. /\ loop \in Seq(X) /\ AtMostOne(loop, P)
        /\ pollTimer => None(loop, P)
    BY <2>2, <2>7, <2>8, NoneConcat
  <2> HIDE DEF loop
  <2>10. \A i \in 1..Len(loop) : loop[i] \in P <=> loop[i].k = <<"polled">>
    BY <2>4, <2>9, ElementOfSeq
  <2>11. \A i, j \in {n \in 1..Len(loop) : loop[n].k = <<"polled">>} : i = j
    BY <2>9, <2>10 DEF AtMostOne
  <2>12. pollTimer => {n \in 1..Len(loop) : loop[n].k = <<"polled">>} = {}
    BY <2>9, <2>10 DEF None
  <2> QED  BY <2>11, <2>12 DEF OnePollLoop, loop
<1> QED  BY <1>1, ListenerInvariant, PTL

(* However often the loop polls while a handler waits for it, a second      *)
(* accept() is never queued behind the first, the one that is queued finds  *)
(* a peer on a listener that listens, unless that peer left, and only       *)
(* dispose() or a second open() closes the listener under it.               *)
THEOREM AcceptFindsItsPeer == Spec => []AcceptWillNotBlock
<1>1. ListenerInv => AcceptWillNotBlock
  <2> SUFFICES ASSUME ListenerInv, NEW i \in 1..Len(calls), calls[i].op = "accept"
               PROVE  /\ status[Listener] = "LISTENING" => backlog \union gone # {}
                      /\ status[Listener] # "LISTENING" => disposer # "idle" \/ Reopened
                      /\ \A j \in 1..(i - 1) : calls[j].op # "accept"
    BY DEF AcceptWillNotBlock
  <2>1. calls \in Seq(ServerCalls) /\ Len(calls) \in Nat
    BY LenProperties DEF ListenerInv, QueueInv
  <2>2. \A j \in 1..Len(calls) : calls[j] \in AcceptCalls <=> calls[j].op = "accept"
    BY <2>1, ElementOfSeq, CallClasses
  <2>3. ~None(calls, AcceptCalls)
    BY <2>2 DEF None
  <2>4. status[Listener] = "LISTENING" => backlog \union gone # {}
    BY <2>3 DEF ListenerInv, HandlerInv, ReportedInv, WasReported
  <2>5. status[Listener] # "LISTENING" => disposer # "idle" \/ Reopened
    BY <2>3 DEF ListenerInv, HandlerInv, OpenInv, Undisturbed
  <2>6. ASSUME NEW j \in 1..(i - 1)  PROVE calls[j].op # "accept"
    <3>1. j \in 1..Len(calls) /\ j # i
      BY <2>1
    <3> QED  BY <2>2, <3>1 DEF ListenerInv, HandlerInv, AcceptInv, AtMostOne
  <2> QED  BY <2>4, <2>5, <2>6
<1> QED  BY <1>1, ListenerInvariant, PTL

-----------------------------------------------------------------------------
(* The sockets that 'connection' is emitted with.                           *)

\* What accept() may have returned, in this life of the server: SRT_ERROR only if
\* a peer has left.
Made ==
    {s \in Clients : status[s] # "NONEXIST"} \union (IF gone = {} THEN {} ELSE {Failed})

StrayCalls == {c \in ServerCalls : c.k = <<"added">> /\ c.socket \notin Made}
StrayAnswers ==
    {r \in ServerAnswers :
        \/ r.k = <<"accepted">> /\ r.result \notin Made
        \/ r.k = <<"added">> /\ r.socket \notin Made}

\* Unless the listener is closed under it, a handler goes on with such a socket only.
AcceptedInv == Undisturbed =>
    /\ None(calls, StrayCalls)
    /\ None(answers, StrayAnswers)
    /\ None(resumed, StrayAnswers)
    /\ announced \subseteq Made

\* What is not stray never becomes so.
LEMMA StraysShrink ==
  ASSUME \A s \in Clients : status[s] # "NONEXIST" => status'[s] # "NONEXIST",
         gone \subseteq gone'
  PROVE  /\ Made \subseteq Made' /\ StrayCalls' \subseteq StrayCalls
         /\ StrayAnswers' \subseteq StrayAnswers
<1>1. Made \subseteq Made'
  BY DEF Made
<1>2. StrayCalls' \subseteq StrayCalls
  BY <1>1 DEF StrayCalls
<1>3. StrayAnswers' \subseteq StrayAnswers
  BY <1>1 DEF StrayAnswers
<1> QED  BY <1>1, <1>2, <1>3

\* The worker performs a call, an accept() on the listener that listens.
LEMMA WorkerAccepts ==
  ASSUME ServerInv, ServerInv', ListenerInv, AcceptedInv, WorkerPerforms
  PROVE  AcceptedInv'
<1> DEFINE c == Head(calls)
<1>1. PICK result \in Results(c.op) : Perform(c, result) /\ Performed(result)
  BY DEF WorkerPerforms
<1> DEFINE r == Resumption(c.k, c.socket, result)
<1>2. /\ calls # <<>> /\ calls' = Tail(calls) /\ answers' = Append(answers, r)
      /\ UNCHANGED <<resumed, opener, disposer, announced>>
  BY <1>1 DEF WorkerPerforms, Performed, eventVars
<1>3. c \in ServerCalls /\ \A S : None(calls, S) <=> c \notin S /\ None(calls', S)
  BY <1>2, NoneTail DEF ListenerInv, QueueInv
<1>4. r \in ServerAnswers
  <2>1. answers' \in Seq(ServerAnswers) /\ answers \in Seq(ServerAnswers)
    BY QueuesTypedNext DEF ListenerInv, QueueInv
  <2>2. Len(answers) + 1 \in 1..Len(answers') /\ answers'[Len(answers) + 1] = r
    BY <1>2, <2>1, LenProperties
  <2> QED  BY <2>1, <2>2, ElementOfSeq
<1>5. r.k = c.k /\ r.socket = c.socket /\ r.result = result
  BY DEF Resumption
<1> HIDE DEF r
<1>6. \A S : None(answers', S) <=> None(answers, S) /\ r \notin S
  BY <1>2, <1>4, NoneAppend DEF ListenerInv, QueueInv
<1> HIDE DEF c
<1>7. /\ c.op = "accept" /\ status[Listener] = "LISTENING" =>
           \/ result \in Clients /\ status'[result] # "NONEXIST"
           \/ result = Failed /\ backlog = {}
      /\ gone' = gone
      /\ \A s \in Clients : status[s] # "NONEXIST" => status'[s] # "NONEXIST"
  BY <1>1, <1>3, ListenerPerforms DEF ListenerInv, ServerInv, TypeOK
<1>8. /\ Made \subseteq Made' /\ StrayCalls' \subseteq StrayCalls
      /\ StrayAnswers' \subseteq StrayAnswers
  BY <1>7, StraysShrink
<1> SUFFICES ASSUME Undisturbed'
             PROVE  /\ None(calls', StrayCalls') /\ None(answers', StrayAnswers')
                    /\ None(resumed', StrayAnswers') /\ announced' \subseteq Made'
  BY DEF AcceptedInv
<1>9. /\ Undisturbed /\ None(calls, StrayCalls) /\ None(answers, StrayAnswers)
      /\ None(resumed, StrayAnswers) /\ announced \subseteq Made
  BY <1>2 DEF AcceptedInv, Undisturbed, Reopened
<1>10. r \notin StrayAnswers'
  <2>1. ASSUME r.k = <<"accepted">>  PROVE r.result \in Made'
    <3>1. c.op = "accept" /\ c \in AcceptCalls
      BY <1>3, <1>5, <2>1 DEF ServerCalls, AcceptCalls
    <3>2. status[Listener] = "LISTENING"
      BY <1>3, <1>9, <3>1 DEF ListenerInv, HandlerInv, OpenInv
    <3>3. backlog = {} => gone # {}
      BY <1>3, <3>1, <3>2 DEF ListenerInv, HandlerInv, ReportedInv, WasReported
    <3> QED  BY <1>5, <1>7, <3>1, <3>2, <3>3 DEF Made
  <2>2. ASSUME r.k = <<"added">>  PROVE r.socket \in Made'
    <3>1. c \notin StrayCalls
      BY <1>3, <1>9
    <3> QED  BY <1>3, <1>5, <1>8, <2>2, <3>1 DEF StrayCalls
  <2>3. <<"accepted">> # <<"added">>
    BY KindsDiffer DEF Names
  <2>4. r \in StrayAnswers' => \/ r.k = <<"accepted">> /\ r.result \notin Made'
                               \/ r.k = <<"added">> /\ r.socket \notin Made'
    BY DEF StrayAnswers
  <2> QED  BY <2>1, <2>2, <2>4
<1> QED  BY <1>2, <1>3, <1>6, <1>8, <1>9, <1>10, NoneSmaller

\* The main thread opens, disposes of and calls, and leaves the rest alone.
LEMMA OpeningKept ==
  ASSUME ServerInv, MainThread
  PROVE  KeepsOpening /\ UNCHANGED <<nativeVars, answers>>
<1>1. opener \in [Opens -> {"idle", "running", "opened", "failed"}]
  BY DEF ServerInv, TypeOK
<1>2. ASSUME NEW o \in Opens, Open(o) \/ Bound(o) \/ Listening(o) \/ EpollCreated(o) \/ Watching(o)
      PROVE  KeepsOpening /\ UNCHANGED <<nativeVars, answers>>
  <2>1. /\ UNCHANGED <<nativeVars, answers, disposer>>
        /\ \E after \in {"running", "failed", "opened"} :
             opener' \in {opener, [opener EXCEPT ![o] = after]}
    BY <1>2 DEF Open, Bound, Listening, EpollCreated, Watching, OpenGoesOn
  <2> QED  BY <1>1, <2>1 DEF KeepsOpening
<1>3. ASSUME \/ Polled \/ ListenerEvent \/ Accepted \/ Added \/ BrokenEvent \/ ConnectionClosed
             \/ DataEvent \/ ListenerClosed \/ PollTimer \/ Dispose \/ DisposeProceed
             \/ WorkerExited
      PROVE  KeepsOpening /\ UNCHANGED <<nativeVars, answers>>
  BY <1>3 DEF Polled, ListenerEvent, Accepted, Added, BrokenEvent, ConnectionClosed, DataEvent,
              ListenerClosed, PollTimer, Dispose, DisposeProceed, WorkerExited, loopVars,
              KeepsOpening
<1> QED  BY <1>2, <1>3 DEF MainThread, UserOpens, Continuations

\* A handler goes on with the socket that accept() gave it.
LEMMA MainThreadAccepts ==
  ASSUME ServerInv, ListenerInv, AcceptedInv, MainThread
  PROVE  AcceptedInv'
<1>1. KeepsOpening /\ UNCHANGED <<nativeVars, answers>>
  BY OpeningKept
<1>2. /\ Made \subseteq Made' /\ StrayCalls' \subseteq StrayCalls
      /\ StrayAnswers' \subseteq StrayAnswers
  BY <1>1, StraysShrink DEF nativeVars
<1> SUFFICES ASSUME Undisturbed'
             PROVE  /\ None(calls', StrayCalls') /\ None(answers', StrayAnswers')
                    /\ None(resumed', StrayAnswers') /\ announced' \subseteq Made'
  BY DEF AcceptedInv
<1>3. Undisturbed
  BY <1>1 DEF Undisturbed, Reopened, KeepsOpening
<1>4. /\ None(calls, StrayCalls) /\ None(answers, StrayAnswers)
      /\ None(resumed, StrayAnswers) /\ announced \subseteq Made
      /\ asyncSrt = "live" /\ attached = {}
      /\ calls \in Seq(ServerCalls)
  BY <1>3 DEF AcceptedInv, Undisturbed, ServerInv, FieldInv, ListenerInv, QueueInv
<1>5. /\ Left \in Seq(ServerAnswers) /\ None(Left, StrayAnswers)
      /\ resumed # <<>> => /\ Left = Rest
                           /\ Head(resumed) \in ServerAnswers /\ Head(resumed) \notin StrayAnswers
  <2>1. CASE resumed = <<>>
    BY <2>1, NoneShort, ShortQueues DEF Left
  <2>2. CASE resumed # <<>>
    BY <1>4, <2>2, NoneTail DEF Left, Rest, ListenerInv, QueueInv
  <2> QED  BY <2>1, <2>2
<1> DEFINE Goal == /\ None(calls', StrayCalls) /\ None(resumed', StrayAnswers)
                   /\ announced' \subseteq Made
<1>6. SUFFICES Goal
  BY <1>1, <1>2, <1>4, NoneSmaller
<1>7. ASSUME announced' = announced, PostsNothing(Left)
      PROVE  Goal
  BY <1>4, <1>5, <1>7 DEF PostsNothing
<1>8. ASSUME announced' = announced, NEW f \in Seq(ServerCalls), Posts(f, Left), None(f, StrayCalls)
      PROVE  Goal
  <2>1. calls' = calls \o f /\ resumed' = Left
    BY <1>4, <1>8 DEF Posts
  <2>2. None(calls', StrayCalls)
    BY <1>4, <1>8, <2>1, NoneConcat
  <2> QED  BY <1>4, <1>5, <1>8, <2>1, <2>2
<1>9. ASSUME announced' = announced, NEW c \in ServerCalls, Posts(<<c>>, Left),
             c.k = <<"added">> => c.socket \in Made
      PROVE  Goal
  <2>1. <<c>> \in Seq(ServerCalls) /\ (None(<<c>>, StrayCalls) <=> c \notin StrayCalls)
    BY NoneShort, ShortQueues
  <2>2. c \notin StrayCalls
    BY <1>9 DEF StrayCalls
  <2> HIDE DEF Goal
  <2> QED  BY <1>8, <1>9, <2>1, <2>2
<1> HIDE DEF Goal
<1>10. ASSUME NEW o \in Opens,
              Open(o) \/ Bound(o) \/ Listening(o) \/ EpollCreated(o) \/ Watching(o)
       PROVE  Goal
  <2>1. /\ announced' = announced
        /\ \/ PostsNothing(Left)
           \/ Posts(<<Call("bind", Listener, <<"bound", o>>)>>, Left)
           \/ Posts(<<Call("listen", Listener, <<"listening", o>>)>>, Left)
           \/ Posts(<<Call("epollCreate", Listener, <<"created", o>>)>>, Left)
           \/ Posts(<<Call("epollAddUsock", Listener, <<"watching", o>>)>>, Left)
           \/ Posts(<<Call("epollUWait", Listener, <<"polled">>)>>, Left)
    BY <1>10 DEF Open, Bound, Listening, EpollCreated, Watching, OpenGoesOn, PollEvents, Idle, Left,
                 Resumes, eventVars
  <2>2. \A op, n : Call(op, Listener, <<n, o>>).k # <<"added">>
    BY KindsDiffer DEF Call
  <2>3. Call("epollUWait", Listener, <<"polled">>).k # <<"added">>
    BY KindsDiffer DEF Call, Names
  <2> QED  BY <1>7, <1>9, <2>1, <2>2, <2>3, CallsMade
<1>11. ASSUME PollTimer \/ ListenerEvent \/ Dispose
       PROVE  Goal
  <2>1. /\ announced' = announced
        /\ \/ PostsNothing(Left)
           \/ Posts(<<Call("epollUWait", Listener, <<"polled">>)>>, Left)
           \/ Posts(<<Call("accept", Listener, <<"accepted">>)>>, Left)
           \/ Posts(<<Call("close", Listener, <<"disposing">>)>>, Left)
    BY <1>11 DEF PollTimer, ListenerEvent, Dispose, Idle, Left, Resumes, eventVars
  <2>2. /\ Call("epollUWait", Listener, <<"polled">>).k # <<"added">>
        /\ Call("accept", Listener, <<"accepted">>).k # <<"added">>
        /\ Call("close", Listener, <<"disposing">>).k # <<"added">>
    BY KindsDiffer DEF Call, Names
  <2> QED  BY <1>7, <1>9, <2>1, <2>2, CallsMade
<1>12. CASE Accepted
  <2>1. /\ resumed # <<>> /\ Head(resumed).k = <<"accepted">> /\ announced' = announced
        /\ Posts(<<Call("epollAddUsock", Result, <<"added">>)>>, Rest)
    BY <1>12 DEF Accepted, Resumes, eventVars
  <2>2. Result \in Made /\ Made \subseteq Fds
    BY <1>5, <2>1 DEF StrayAnswers, Result, Made, Fds
  <2>3. /\ Call("epollAddUsock", Result, <<"added">>) \in ServerCalls
        /\ Call("epollAddUsock", Result, <<"added">>).socket = Result
    BY <2>2, CallsMade DEF Call
  <2> QED  BY <1>5, <1>9, <2>1, <2>2, <2>3
<1>13. CASE Added
  <2>1. /\ resumed # <<>> /\ Head(resumed).k = <<"added">>
        /\ announced' = announced \union {Socket} /\ resumed' = Rest /\ calls' = calls
    BY <1>13 DEF Added, Resumes
  <2>2. Socket \in Made
    BY <1>5, <2>1 DEF StrayAnswers, Socket
  <2> QED  BY <1>4, <1>5, <2>1, <2>2 DEF Goal
<1>14. CASE Polled
  <2>1. PICK order \in Orders(Result) :
          Posts([i \in DOMAIN order |-> Call("getSockState", order[i], <<"state">>)], Rest)
    BY <1>14 DEF Polled
  <2> DEFINE f == [i \in DOMAIN order |-> Call("getSockState", order[i], <<"state">>)]
  <2>2. resumed # <<>> /\ Head(resumed).k = <<"polled">> /\ announced' = announced
    BY <1>14 DEF Polled, Resumes, eventVars
  <2>3. f \in Seq(ServerCalls) /\ \A i \in 1..Len(f) : f[i].k = <<"state">>
    BY <2>2, HandlersStarted
  <2>4. Posts(f, Left)
    BY <1>5, <2>1, <2>2
  <2> HIDE DEF f
  <2>5. None(f, StrayCalls)
    BY <2>3, KindsDiffer DEF None, StrayCalls, Names
  <2> QED  BY <1>8, <2>2, <2>3, <2>4, <2>5
<1>15. CASE BrokenEvent
  <2> DEFINE r == Resumption(<<"closed">>, Socket, Success)
  <2>1. /\ resumed # <<>> /\ calls' = calls /\ announced' = announced
        /\ \/ resumed' = Rest
           \/ resumed' = Append(Rest, r) /\ Socket \in connectionMap
    BY <1>4, <1>15 DEF BrokenEvent, CloseConnection, Resumes
  <2>2. CASE resumed' = Rest
    BY <1>4, <1>5, <2>1, <2>2 DEF Goal
  <2>3. CASE resumed' = Append(Rest, r) /\ Socket \in connectionMap
    <3>1. r \in ServerAnswers /\ r.k = <<"closed">>
      BY <2>3 DEF Resumption, ServerAnswers, Kinds, Names, Outcomes, ServerInv, TypeOK
    <3> HIDE DEF r
    <3>2. r \notin StrayAnswers
      BY <3>1, KindsDiffer DEF StrayAnswers, Names
    <3>3. None(resumed', StrayAnswers)
      BY <1>5, <2>1, <2>3, <3>1, <3>2, NoneAppend
    <3> QED  BY <1>4, <2>1, <3>3 DEF Goal
  <2> QED  BY <2>1, <2>2, <2>3
<1>16. ASSUME ConnectionClosed \/ DataEvent \/ ListenerClosed
       PROVE  Goal
  <2>1. /\ resumed # <<>> /\ resumed' = Rest /\ calls' = calls /\ announced' = announced
    BY <1>16 DEF ConnectionClosed, DataEvent, ListenerClosed, Resumes, eventVars
  <2> QED  BY <1>4, <1>5, <2>1 DEF Goal
<1>17. ASSUME DisposeProceed \/ WorkerExited
       PROVE  Goal
  <2>1. UNCHANGED <<resumed, calls, announced>>
    BY <1>17 DEF DisposeProceed, WorkerExited, loopVars, eventVars
  <2> QED  BY <1>4, <2>1 DEF Goal
<1> QED  BY <1>10, <1>11, <1>12, <1>13, <1>14, <1>15, <1>16, <1>17
         DEF MainThread, UserOpens, Continuations

\* Any other step.
LEMMA OthersAccept ==
  ASSUME ServerInv, ListenerInv, AcceptedInv, MainThreadAnswered \/ Peers \/ UNCHANGED vars
  PROVE  AcceptedInv'
<1>1. CASE MainThreadAnswered
  <2> DEFINE h == Head(answers)
  <2>1. /\ answers # <<>> /\ resumed' = <<h>> /\ answers' = Tail(answers)
        /\ UNCHANGED <<calls, status, gone, opener, disposer, announced>>
    BY <1>1 DEF MainThreadAnswered, AnswerArrives, nativeVars, eventVars
  <2>2. /\ \A S : None(answers, S) <=> h \notin S /\ None(answers', S)
        /\ \A S : None(resumed', S) <=> h \notin S
    BY <2>1, NoneTail, NoneShort DEF ListenerInv, QueueInv
  <2>3. /\ Made \subseteq Made' /\ StrayCalls' \subseteq StrayCalls
        /\ StrayAnswers' \subseteq StrayAnswers
    BY <2>1, StraysShrink
  <2>4. Undisturbed' => Undisturbed
    BY <2>1 DEF Undisturbed, Reopened
  <2> QED  BY <2>1, <2>2, <2>3, <2>4, NoneSmaller DEF AcceptedInv
<1>2. CASE Peers \/ UNCHANGED vars
  <2>1. /\ UNCHANGED <<calls, answers, resumed, opener, disposer, announced>>
        /\ gone \subseteq gone'
        /\ \A s \in Clients : status[s] # "NONEXIST" => status'[s] # "NONEXIST"
    BY <1>2, PeersOnly DEF Peers, vars, nativeVars, loopVars, eventVars, ListenerInv, ServerInv,
                           TypeOK
  <2>2. /\ Made \subseteq Made' /\ StrayCalls' \subseteq StrayCalls
        /\ StrayAnswers' \subseteq StrayAnswers
    BY <2>1, StraysShrink
  <2>3. Undisturbed' => Undisturbed
    BY <2>1 DEF Undisturbed, Reopened
  <2> QED  BY <2>1, <2>2, <2>3, NoneSmaller DEF AcceptedInv
<1> QED  BY <1>1, <1>2

(* With one open() and no disposal, 'connection' is emitted for the failure *)
(* of an accept() only if a peer left the backlog, however often the        *)
(* listener was reported.                                                   *)
THEOREM ConnectionsWereAccepted == Spec => []AnnouncedWasAccepted
<1>1. Init => AcceptedInv
  BY NoneShort DEF Init, LoopInit, AcceptedInv
<1>2. ServerInv /\ ServerInv' /\ ListenerInv /\ AcceptedInv /\ [Next]_vars => AcceptedInv'
  BY WorkerAccepts, MainThreadAccepts, OthersAccept DEF Next
<1>3. AcceptedInv => AnnouncedWasAccepted
  BY DEF AcceptedInv, AnnouncedWasAccepted, Undisturbed, Made
<1> QED  BY <1>1, <1>2, <1>3, ServerInvariant, ListenerInvariant, PTL DEF Spec

=============================================================================
