---------------------------- MODULE Streams_proofs ----------------------------
(***************************************************************************)
(* What the two streams guarantee for every number of peers and of chunks. *)
(***************************************************************************)
EXTENDS Streams, SequenceTheorems, TLAPS

(***************************************************************************)
(* What the native operations do to the sockets.                           *)
(***************************************************************************)

LEMMA SocketsDiffer == Listener \in Sockets /\ Clients \subseteq Sockets /\ Null \notin Sockets
BY NodeSRTAssumption, ReadStreamAssumption DEF Sockets

LEMMA ClosingType ==
  ASSUME NativeTypeOK, NEW s \in Sockets, SrtClose(s)
  PROVE  NativeTypeOK'
BY DEF NativeTypeOK, SrtClose, SockStatus

\* Closing closes that socket only, and the epoll forgets it.
LEMMA Closing ==
  ASSUME NativeTypeOK, NEW s \in Sockets, SrtClose(s)
  PROVE  /\ status'[s] = "CLOSED"
         /\ \A t \in Sockets : t # s => status'[t] = status[t]
         /\ watched' = watched \ {s}
BY DEF NativeTypeOK, SrtClose

\* The network breaks connections, and the library closes them; neither brings a
\* listener or a closed socket to life.
LEMMA NetworkSteps ==
  ASSUME NativeTypeOK, Network
  PROVE  /\ NativeTypeOK'
         /\ watched' \subseteq watched
         /\ \/ status'[Listener] = status[Listener]
            \/ status[Listener] = "CONNECTED" /\ status'[Listener] = "BROKEN"
            \/ status[Listener] = "BROKEN" /\ status'[Listener] = "CLOSED"
<1> USE SocketsDiffer DEF NativeTypeOK, SockStatus
<1>1. CASE \E c \in Clients : PeerConnects(c) \/ PeerLeavesBacklog(c)
  BY <1>1 DEF PeerConnects, PeerLeavesBacklog
<1>2. CASE \E s \in Sockets : DataArrives(s)
  BY <1>2 DEF DataArrives
<1>3. CASE \E s \in Sockets : PeerBreaks(s)
  BY <1>3 DEF PeerBreaks
<1>4. CASE \E s \in Sockets : LibraryCloses(s) \/ LibraryForgets(s)
  BY <1>4 DEF LibraryCloses, LibraryForgets
<1> QED  BY <1>1, <1>2, <1>3, <1>4 DEF Network, Library

-----------------------------------------------------------------------------
(***************************************************************************)
(* The invariant of the read stream.                                       *)
(***************************************************************************)

\* The epoll watches the listener while it listens, and once it is closed at most
\* the one connection that was accepted: accepting closes the listener.
OneConnection ==
    watched \union events \subseteq
        (IF status[Listener] = "CLOSED" THEN {accepted}
         ELSE IF status[Listener] = "LISTENING" THEN {Listener}
         ELSE {})

\* What listen() has done so far; a handler runs for an interval that is armed,
\* until there is a connection.
InOrder ==
    /\ pc = "listening" => status[Listener] = "OPENED"
    /\ pc = "watching" => status[Listener] = "LISTENING"
    /\ pc \in {"binding", "listening", "watching", "handling", "accepting", "adding"} => fd = Null
    /\ interval => fd = Null
    /\ interval \/ pc \in {"handling", "accepting", "adding"} =>
         status[Listener] \in {"LISTENING", "CLOSED"}
    /\ pc \notin {"handling", "accepting", "adding"} => events = {}
    /\ pc = "accepting" => events = {}
    /\ pc = "adding" => status[Listener] = "CLOSED" /\ accepted \in Clients
    /\ pc \in {"reading", "readingOnTimer"} /\ destroyed = "no" => fd # Null

\* A stream that was handed over can neither connect nor listen any more.
NotAgain ==
    handedOver # <<>> =>
        /\ ~interval
        /\ pc \notin {"listening", "watching", "handling", "accepting", "adding"}
        /\ status[Listener] \notin {"INIT", "OPENED", "LISTENING"}

ReaderInv ==
    /\ TypeOK
    /\ OneConnection
    /\ InOrder
    /\ NotAgain
    /\ HandedOverOnce

\* A close() of the listener leaves nothing watched but what was accepted.
LEMMA ListenerCloses ==
  ASSUME NativeTypeOK, OneConnection, SrtClose(Listener), events = {},
         events' = events, accepted' = accepted
  PROVE  NativeTypeOK' /\ OneConnection' /\ status'[Listener] = "CLOSED"
<1>1. NativeTypeOK' /\ status'[Listener] = "CLOSED" /\ watched' = watched \ {Listener}
  BY SocketsDiffer, ClosingType, Closing
<1> QED  BY <1>1 DEF OneConnection

-----------------------------------------------------------------------------
(* listen() and connect().                                                  *)

LEMMA ListenSteps ==
  ASSUME ReaderInv, ListenCalled \/ Binds \/ Listens \/ Watches
  PROVE  ReaderInv'
<1> USE DEF streamVars, readableVars
<1>0. NativeTypeOK /\ Listener \in Sockets /\ status[Listener] \in SockStatus
  BY SocketsDiffer DEF ReaderInv, TypeOK, NativeTypeOK
<1>1. CASE ListenCalled
  BY <1>1 DEF ListenCalled, ReaderInv, TypeOK, NativeTypeOK, nativeVars, OneConnection, InOrder,
              NotAgain, HandedOverOnce
<1>2. ASSUME NEW before, NEW after \in {"OPENED", "LISTENING"}, NEW next \in {"listening", "watching"},
             NEW result,
             pc \in {"binding", "listening"}, OpenStep(before, after, result), UNCHANGED streamVars,
             result \in {Success, Failed}, before \in {"INIT", "OPENED"},
             after = "OPENED" <=> next = "listening",
             pc' = IF result = Failed THEN "idle" ELSE next
      PROVE  ReaderInv'
  <2>0. events = {} /\ fd = Null
    BY <1>2 DEF ReaderInv, InOrder
  <2>1. CASE SrtClose(Listener) /\ result = Failed
    <3>1. NativeTypeOK' /\ OneConnection' /\ status'[Listener] = "CLOSED"
      BY <1>0, <1>2, <2>0, <2>1, ListenerCloses DEF ReaderInv
    <3>2. pc' = "idle"
      BY <1>2, <2>1
    <3> QED  BY <1>2, <2>0, <3>1, <3>2 DEF ReaderInv, TypeOK, InOrder, NotAgain, HandedOverOnce
  <2>2. CASE /\ status[Listener] = before
             /\ status' = [status EXCEPT ![Listener] = after]
             /\ UNCHANGED <<backlog, watched, readable, gone>>
    <3>1. NativeTypeOK' /\ status'[Listener] = after
      BY <1>0, <1>2, <2>2 DEF NativeTypeOK, SockStatus
    <3>2. OneConnection'
      BY <1>2, <2>2, <3>1 DEF ReaderInv, OneConnection
    <3>3. pc' \in {"idle", next} /\ handedOver = <<>> /\ ~interval
      BY <1>2, <2>2 DEF ReaderInv, NotAgain, InOrder
    <3> QED  BY <1>2, <2>0, <3>1, <3>2, <3>3 DEF ReaderInv, TypeOK, InOrder, NotAgain, HandedOverOnce
  <2> QED  BY <1>2, <2>1, <2>2 DEF OpenStep
<1>3. CASE Binds
  <2>1. CASE pc' = "idle" /\ UNCHANGED <<nativeVars, streamVars>>
    BY <1>3, <2>1 DEF Binds, ReaderInv, TypeOK, NativeTypeOK, nativeVars, OneConnection, InOrder,
                      NotAgain, HandedOverOnce
  <2> QED  BY <1>2, <1>3, <2>1 DEF Binds, Bind
<1>4. CASE Listens
  BY <1>2, <1>4 DEF Listens, Listen
<1>5. CASE Watches
  <2>1. /\ pc = "watching" /\ pc' = "idle" /\ status[Listener] = "LISTENING" /\ events = {}
        /\ fd = Null /\ handedOver = <<>>
        /\ UNCHANGED <<status, accepted, events, fd, handedOver, blocking, readableVars>>
        /\ watched' \in {watched, watched \union {Listener}}
        /\ interval' \in {interval, TRUE}
    BY <1>5 DEF Watches, ReaderInv, InOrder, NotAgain, EpollAddUsock, nativeVars
  <2>2. NativeTypeOK'
    BY <1>0, <1>5 DEF Watches, EpollAddUsock, nativeVars, NativeTypeOK
  <2> QED  BY <2>1, <2>2 DEF ReaderInv, TypeOK, OneConnection, InOrder, NotAgain, HandedOverOnce
<1> QED  BY <1>1, <1>3, <1>4, <1>5

LEMMA ConnectStep ==
  ASSUME ReaderInv, ConnectCalled
  PROVE  ReaderInv'
<1>0. /\ NativeTypeOK /\ Listener \in Sockets
      /\ pc = "idle" /\ events = {} /\ fd = Null
      /\ UNCHANGED <<pc, blocking, events, accepted, interval, readTimer, reading, ended, destroyed,
                     closed>>
  BY SocketsDiffer DEF ConnectCalled, ReaderInv, TypeOK, InOrder, readableVars
<1>1. CASE Connect(Success) /\ Success # Failed /\ fd' = Listener
           /\ handedOver' = Append(handedOver, "onConnect")
  <2>1. /\ status[Listener] \in {"INIT", "OPENED"}
        /\ status' = [status EXCEPT ![Listener] = "CONNECTED"]
        /\ UNCHANGED <<backlog, watched, readable, gone>>
    BY <1>1 DEF Connect
  <2>2. NativeTypeOK' /\ status'[Listener] = "CONNECTED"
    BY <1>0, <2>1 DEF NativeTypeOK, SockStatus
  <2>3. handedOver = <<>> /\ ~interval
    BY <2>1 DEF ReaderInv, NotAgain, InOrder
  <2>4. handedOver' \in Seq({"onConnect", "onData"}) /\ Len(handedOver') = 1 /\ handedOver' # <<>>
    BY <1>1, <2>3
  <2> QED  BY <1>0, <1>1, <2>1, <2>2, <2>3, <2>4
           DEF ReaderInv, TypeOK, OneConnection, InOrder, NotAgain, HandedOverOnce
<1>2. CASE SrtClose(Listener) /\ UNCHANGED <<fd, handedOver>>
  <2>1. NativeTypeOK' /\ OneConnection' /\ status'[Listener] = "CLOSED"
    BY <1>0, <1>2, ListenerCloses DEF ReaderInv
  <2> QED  BY <1>0, <1>2, <2>1 DEF ReaderInv, TypeOK, InOrder, NotAgain, HandedOverOnce
<1> QED  BY <1>1, <1>2, NodeSRTAssumption DEF ConnectCalled, Connect

-----------------------------------------------------------------------------
(* The interval.                                                            *)

LEMMA EventSteps ==
  ASSUME ReaderInv, IntervalFires \/ HandlesEvent \/ Accepts \/ Adds
  PROVE  ReaderInv'
<1> USE DEF nativeVars, streamVars, readableVars
<1>0. NativeTypeOK /\ Listener \in Sockets /\ Clients \subseteq Sockets /\ watched \subseteq Sockets
  BY SocketsDiffer DEF ReaderInv, TypeOK, NativeTypeOK
<1>1. CASE IntervalFires
  <2>1. /\ pc = "idle" /\ interval /\ fd = Null /\ handedOver = <<>>
        /\ UNCHANGED <<nativeVars, blocking, accepted, fd, interval, readableVars, handedOver>>
        /\ events' \subseteq watched
        /\ pc' = IF events' = {} THEN "idle" ELSE "handling"
    BY <1>1 DEF IntervalFires, EpollUWait, ReaderInv, InOrder, NotAgain
  <2> QED  BY <1>0, <2>1 DEF ReaderInv, TypeOK, NativeTypeOK, OneConnection, InOrder, NotAgain,
               HandedOverOnce
<1>2. ASSUME NEW s \in events, BrokenEvent(s)  PROVE ReaderInv'
  <2>1. /\ pc = "handling" /\ fd = Null /\ handedOver = <<>> /\ s \in Sockets
        /\ status[Listener] \in {"LISTENING", "CLOSED"}
        /\ status[s] \in {"BROKEN", "NONEXIST", "CLOSED"}
        /\ SrtClose(s)
        /\ UNCHANGED <<blocking, accepted, fd, interval, readTimer, destroyed, closed, handedOver>>
        /\ ended' = TRUE /\ reading' = FALSE
        /\ events' = events \ {s}
        /\ pc' = IF events' = {} THEN "idle" ELSE "handling"
        /\ status[s] # "CLOSED"
    BY <1>2, NodeSRTAssumption
       DEF BrokenEvent, Dead, Close, Alive, Goes, ReaderInv, TypeOK, InOrder, NotAgain
  <2>2. s # Listener
    BY <2>1
  <2>3. status[Listener] = "CLOSED"
    BY <2>2 DEF ReaderInv, OneConnection
  <2>4. NativeTypeOK' /\ status'[Listener] = "CLOSED" /\ watched' \subseteq watched
    BY <1>0, <2>1, <2>2, <2>3, ClosingType, Closing
  <2>5. OneConnection'
    BY <2>1, <2>3, <2>4 DEF ReaderInv, OneConnection
  <2> QED  BY <2>1, <2>4, <2>5 DEF ReaderInv, TypeOK, InOrder, NotAgain, HandedOverOnce
<1>3. ASSUME NEW s \in events, ListenerEvent(s)  PROVE ReaderInv'
  <2>1. /\ pc = "handling" /\ pc' = "accepting" /\ s = Listener
        /\ status[Listener] # "CLOSED" /\ events' = events \ {Listener}
        /\ UNCHANGED <<nativeVars, blocking, accepted, fd, interval, readableVars, handedOver>>
    BY <1>3 DEF ListenerEvent, Dead
  <2>2. events' = {}
    BY <2>1 DEF ReaderInv, OneConnection
  <2> QED  BY <2>1, <2>2 DEF ReaderInv, TypeOK, NativeTypeOK, OneConnection, InOrder, NotAgain,
               HandedOverOnce
<1>4. ASSUME NEW s \in events, DataEvent(s)  PROVE ReaderInv'
  <2>1. /\ pc = "handling" /\ s # Listener /\ s \in Sockets
        /\ handedOver = <<>>
        /\ UNCHANGED <<nativeVars, blocking, accepted, readableVars>>
        /\ fd' = s /\ interval' = FALSE
        /\ handedOver' = Append(handedOver, "onData")
        /\ events' = events \ {s}
        /\ pc' = IF events' = {} THEN "idle" ELSE "handling"
    BY <1>4 DEF DataEvent, Goes, ReaderInv, TypeOK, NotAgain
  <2>2. status[Listener] = "CLOSED" /\ events = {accepted}
    BY <2>1 DEF ReaderInv, OneConnection
  <2>3. events' = {} /\ pc' = "idle"
    BY <2>1, <2>2
  <2>4. handedOver' \in Seq({"onConnect", "onData"}) /\ Len(handedOver') = 1 /\ handedOver' # <<>>
    BY <2>1
  <2>5. TypeOK'
    BY <2>1, <2>3, <2>4 DEF ReaderInv, TypeOK, NativeTypeOK
  <2>6. OneConnection' /\ InOrder' /\ NotAgain'
    BY <2>1, <2>2, <2>3 DEF ReaderInv, OneConnection, InOrder, NotAgain
  <2> QED  BY <2>4, <2>5, <2>6 DEF ReaderInv, HandedOverOnce
<1>5. ASSUME NEW result \in Clients, Accepts, Accept(result, blocking), accepted' = result,
             pc' = "adding", UNCHANGED events
      PROVE  ReaderInv'
  <2>1. /\ pc = "accepting" /\ pc' = "adding" /\ events = {} /\ fd = Null /\ handedOver = <<>>
        /\ UNCHANGED <<blocking, events, fd, interval, readableVars, handedOver>>
    BY <1>5 DEF Accepts, ReaderInv, InOrder, NotAgain
  <2>2. /\ status[Listener] = "LISTENING"
        /\ status' = [status EXCEPT ![result] = "CONNECTED", ![Listener] = "CLOSED"]
        /\ watched' = watched \ {Listener}
        /\ backlog' = {}
        /\ UNCHANGED <<readable, gone>>
    BY <1>5, NodeSRTAssumption DEF Accept
  <2>3. NativeTypeOK' /\ status'[Listener] = "CLOSED"
    BY <1>0, <2>2 DEF NativeTypeOK, SockStatus
  <2>4. OneConnection'
    BY <1>5, <2>1, <2>2, <2>3 DEF ReaderInv, OneConnection
  <2> QED  BY <1>5, <2>1, <2>3, <2>4 DEF ReaderInv, TypeOK, InOrder, NotAgain, HandedOverOnce
<1>6. CASE Adds
  <2>1. /\ pc = "adding" /\ accepted \in Clients /\ status[Listener] = "CLOSED"
        /\ fd = Null /\ handedOver = <<>>
        /\ UNCHANGED <<status, blocking, accepted, fd, interval, readableVars, handedOver>>
        /\ events' = events
        /\ pc' = IF events' = {} THEN "idle" ELSE "handling"
        /\ watched' \subseteq watched \union {accepted}
    BY <1>6 DEF Adds, EpollAddUsock, Goes, ReaderInv, InOrder, NotAgain
  <2>2. NativeTypeOK'
    BY <1>0, <1>6, <2>1 DEF Adds, EpollAddUsock, NativeTypeOK
  <2> QED  BY <2>1, <2>2 DEF ReaderInv, TypeOK, OneConnection, InOrder, NotAgain, HandedOverOnce
<1>7. CASE Accept(Failed, blocking) /\ IntervalThrows /\ Accepts /\ UNCHANGED accepted
  <2>1. /\ pc = "accepting" /\ pc' = "idle" /\ events = {} /\ events' = events /\ fd = Null
        /\ UNCHANGED <<blocking, accepted, fd, interval, readableVars, handedOver>>
    BY <1>7 DEF Accepts, IntervalThrows, ReaderInv, InOrder
  <2>2. SrtClose(Listener)
    BY <1>0, <1>7, NodeSRTAssumption DEF Accept, ReaderInv, TypeOK, NativeTypeOK
  <2>3. NativeTypeOK' /\ OneConnection' /\ status'[Listener] = "CLOSED"
    BY <1>0, <2>1, <2>2, ListenerCloses DEF ReaderInv
  <2> QED  BY <2>1, <2>3 DEF ReaderInv, TypeOK, InOrder, NotAgain, HandedOverOnce
<1>8. ASSUME NEW s \in events, BrokenEventThrows(s)  PROVE ReaderInv'
  <2>1. /\ pc = "handling" /\ pc' = "idle" /\ events' = {} /\ UNCHANGED nativeVars
        /\ UNCHANGED <<blocking, accepted, fd, interval, readableVars, handedOver>>
    BY <1>8, NodeSRTAssumption DEF BrokenEventThrows, IntervalThrows, Close
  <2> QED  BY <2>1 DEF ReaderInv, TypeOK, NativeTypeOK, OneConnection, InOrder, NotAgain,
               HandedOverOnce
<1> QED  BY <1>1, <1>2, <1>3, <1>4, <1>5, <1>6, <1>7, <1>8 DEF HandlesEvent, Accepts

-----------------------------------------------------------------------------
(* destroy() and reading.                                                   *)

LEMMA DestroySteps ==
  ASSUME ReaderInv,
         NEW next \in {"idle", "readingOnTimer"},
         pc \in {"idle", "inHandler", "reading", "readingOnTimer"},
         pc = "idle" => next = "idle",
         Destroys(next)
  PROVE  ReaderInv'
<1>0. /\ NativeTypeOK /\ Listener \in Sockets /\ events = {}
      /\ pc' = next
      /\ UNCHANGED <<blocking, events, accepted, reading, ended, handedOver>>
  BY SocketsDiffer DEF Destroys, ReaderInv, TypeOK, InOrder
<1>1. CASE /\ UNCHANGED <<nativeVars, fd, interval, readTimer, closed>>
           /\ \/ destroyed # "no" /\ UNCHANGED destroyed
              \/ destroyed = "no" /\ destroyed' = "early"
  BY <1>0, <1>1 DEF nativeVars, ReaderInv, TypeOK, NativeTypeOK, OneConnection, InOrder, NotAgain,
                    HandedOverOnce
<1>2. CASE /\ destroyed = "no" /\ fd # Null /\ destroyed' = "connected" /\ closed' = TRUE
           /\ interval' = FALSE /\ CloseSocket
  <2>1. NativeTypeOK' /\ OneConnection' /\ status'[Listener] \notin {"INIT", "OPENED", "LISTENING"}
    <3>1. CASE SrtClose(Listener)
      BY <1>0, <3>1, ListenerCloses DEF ReaderInv
    <3>2. CASE ~Alive(Listener) /\ UNCHANGED nativeVars
      BY <1>0, <3>2 DEF Alive, nativeVars, ReaderInv, TypeOK, NativeTypeOK, OneConnection
    <3> QED  BY <1>2, <3>1, <3>2 DEF CloseSocket, Close
  <2>2. fd' \in {fd, Null} /\ readTimer' \in {readTimer, FALSE}
    BY <1>2 DEF CloseSocket
  <2> QED  BY <1>0, <1>2, <2>1, <2>2 DEF ReaderInv, TypeOK, InOrder, NotAgain, HandedOverOnce
<1> QED  BY <1>1, <1>2 DEF Destroys

LEMMA ReadSteps ==
  ASSUME ReaderInv, ReadCalled \/ ReadTimerFires \/ Reads
  PROVE  ReaderInv'
<1> USE DEF nativeVars
<1>1. CASE ReadCalled
  BY <1>1 DEF ReadCalled, WaitsOrReads, ReaderInv, TypeOK, NativeTypeOK, OneConnection, InOrder,
              NotAgain, HandedOverOnce
<1>2. CASE ReadTimerFires
  BY <1>2 DEF ReadTimerFires, WaitsOrReads, ReaderInv, TypeOK, NativeTypeOK, OneConnection, InOrder,
              NotAgain, HandedOverOnce
<1>3. CASE Reads
  <2>1. /\ UNCHANGED <<blocking, events, accepted, fd, interval, readTimer, ended, destroyed, closed,
                       handedOver, status, watched>>
        /\ pc \in {"reading", "readingOnTimer"}
        /\ pc' \in {"idle", pc, "inHandler"}
        /\ reading' \in {reading, FALSE}
        /\ pc' = "idle" \/ destroyed = "no"
    BY <1>3 DEF Reads, Read, InReadLoop
  <2>2. readable' \subseteq readable /\ UNCHANGED <<status, backlog, watched, gone>>
    BY <1>3 DEF Reads, Read
  <2>3. NativeTypeOK'
    BY <2>2 DEF ReaderInv, TypeOK, NativeTypeOK
  <2>4. TypeOK'
    BY <2>1, <2>3 DEF ReaderInv, TypeOK
  <2>5. OneConnection' /\ InOrder' /\ NotAgain' /\ HandedOverOnce'
    BY <2>1 DEF ReaderInv, OneConnection, InOrder, NotAgain, HandedOverOnce
  <2> QED  BY <2>4, <2>5 DEF ReaderInv
<1> QED  BY <1>1, <1>2, <1>3

LEMMA ReaderKeeps ==
  ASSUME ReaderInv, [Next]_vars
  PROVE  ReaderInv'
<1>1. CASE UNCHANGED vars
  BY <1>1 DEF vars, nativeVars, streamVars, readableVars, ReaderInv, TypeOK, NativeTypeOK,
              OneConnection, InOrder, NotAgain, HandedOverOnce
<1>2. CASE Continues
  <2>1. CASE Binds \/ Listens \/ Watches
    BY <2>1, ListenSteps
  <2>2. CASE HandlesEvent \/ Accepts \/ Adds
    BY <2>2, EventSteps
  <2>3. CASE Reads
    BY <2>3, ReadSteps
  <2>4. CASE ReadThrows
    BY <2>4, DestroySteps DEF ReadThrows, InReadLoop
  <2>5. CASE DestroyedInHandler
    BY <2>5, DestroySteps DEF DestroyedInHandler
  <2> QED  BY <1>2, <2>1, <2>2, <2>3, <2>4, <2>5 DEF Continues
<1>3. CASE Timers
  BY <1>3, EventSteps, ReadSteps DEF Timers
<1>4. CASE UserCalls
  <2>1. CASE DestroyCalled
    BY <2>1, DestroySteps DEF DestroyCalled
  <2> QED  BY <1>4, <2>1, ListenSteps, ConnectStep DEF UserCalls
<1>5. CASE ReadCalled
  BY <1>5, ReadSteps
<1>6. CASE Peers
  <2>1. /\ UNCHANGED <<pc, streamVars>>
        /\ NativeTypeOK' /\ watched' \subseteq watched
        /\ \/ status'[Listener] = status[Listener]
           \/ status[Listener] = "CONNECTED" /\ status'[Listener] = "BROKEN"
           \/ status[Listener] = "BROKEN" /\ status'[Listener] = "CLOSED"
    BY <1>6, NetworkSteps DEF Peers, ReaderInv, TypeOK
  <2>2. TypeOK'
    BY <2>1 DEF streamVars, readableVars, ReaderInv, TypeOK
  <2>3. OneConnection' /\ InOrder' /\ NotAgain' /\ HandedOverOnce'
    BY <2>1 DEF streamVars, readableVars, ReaderInv, OneConnection, InOrder, NotAgain, HandedOverOnce
  <2> QED  BY <2>2, <2>3 DEF ReaderInv
<1> QED  BY <1>1, <1>2, <1>3, <1>4, <1>5, <1>6 DEF Next

-----------------------------------------------------------------------------
(***************************************************************************)
(* The write stream.                                                       *)
(***************************************************************************)

\* As long as the stream takes chunks and none is stuck, all were sent.
WriterInv ==
    /\ Sink!SinkTypeOK
    /\ NothingLeftOut
    /\ Len(sent) <= offered
    /\ ~writing /\ ~sinkDestroyed => Len(sent) = offered

\* Sending the chunk after those sent leaves nothing out.
LEMMA SendNext ==
  ASSUME NEW n \in Nat, NEW s \in Seq(1..n), s = [k \in 1..Len(s) |-> k], Len(s) < n
  PROVE  /\ Append(s, Len(s) + 1) \in Seq(1..n)
         /\ Len(Append(s, Len(s) + 1)) = Len(s) + 1
         /\ Append(s, Len(s) + 1) = [k \in 1..Len(Append(s, Len(s) + 1)) |-> k]
<1> DEFINE t == Append(s, Len(s) + 1)
           u == [k \in 1..(Len(s) + 1) |-> k]
<1>1. Len(s) \in Nat /\ Len(s) + 1 \in 1..n
  BY LenProperties
<1>2. /\ t \in Seq(1..n) /\ Len(t) = Len(s) + 1
      /\ \A k \in 1..Len(s) : t[k] = s[k]
      /\ t[Len(s) + 1] = Len(s) + 1
  BY <1>1, AppendProperties
<1>3. u \in Seq(1..n) /\ Len(u) = Len(s) + 1
  BY <1>1, IsASeq
<1>4. ASSUME NEW k \in 1..Len(t)  PROVE t[k] = u[k]
  BY <1>1, <1>2
<1>5. t = u
  BY <1>2, <1>3, <1>4, SeqEqual
<1> QED  BY <1>2, <1>5

LEMMA WriterKeeps ==
  ASSUME WriterInv, Sink!SinkNext \/ UNCHANGED sinkVars
  PROVE  WriterInv'
<1>0. Len(sent) \in Nat /\ MaxChunks \in Nat /\ offered \in Nat /\ offered <= MaxChunks
  <2>1. sent \in Seq(1..MaxChunks) /\ offered \in 0..MaxChunks
    BY DEF WriterInv, Sink!SinkTypeOK
  <2> QED  BY <2>1, LenProperties, StreamsAssumption
<1>1. CASE UNCHANGED sinkVars
  BY <1>1 DEF sinkVars, WriterInv, NothingLeftOut, Sink!NothingLeftOut, Sink!SinkTypeOK
<1>2. CASE Sink!SinkConnects \/ Sink!SinkBreaks \/ Sink!SinkReaped \/ Sink!SinkCloseCalled
           \/ Sink!SinkDestroyCalled
  BY <1>2 DEF Sink!SinkConnects, Sink!SinkBreaks, Sink!SinkReaped, Sink!SinkCloseCalled, Sink!SinkClose,
              Sink!SinkDestroyCalled, Sink!SinkDestroys,
              WriterInv, NothingLeftOut, Sink!NothingLeftOut, Sink!SinkTypeOK
<1>3. CASE Sink!WriteCalled
  <2>0. ~sinkDestroyed /\ offered < MaxChunks /\ offered' = offered + 1
    BY <1>3 DEF Sink!WriteCalled
  <2>1. ~sinkDestroyed /\ offered < MaxChunks /\ offered' = offered + 1 /\ offered' \in 0..MaxChunks
    BY <1>0, <2>0
  <2>2. CASE writing /\ UNCHANGED <<sinkStatus, sinkFd, writing, sent, sinkDestroyed, sinkClosed>>
    BY <1>0, <2>1, <2>2 DEF WriterInv, NothingLeftOut, Sink!NothingLeftOut, Sink!SinkTypeOK
  <2>3. CASE ~writing /\ Sink!NativeWrite(offered')
                      /\ UNCHANGED <<sinkStatus, sinkFd, sinkDestroyed, sinkClosed>>
    <3>1. Len(sent) = offered
      BY <2>1, <2>3 DEF WriterInv
    <3>2. CASE sent' = Append(sent, offered') /\ UNCHANGED writing
      <4>1. sent' = Append(sent, Len(sent) + 1)
        BY <2>1, <3>1, <3>2
      <4>2. /\ sent' \in Seq(1..MaxChunks) /\ Len(sent') = Len(sent) + 1
            /\ sent' = [k \in 1..Len(sent') |-> k]
        BY <2>1, <3>1, <4>1, SendNext, StreamsAssumption DEF WriterInv, NothingLeftOut, Sink!NothingLeftOut, Sink!SinkTypeOK
      <4> QED  BY <2>1, <2>3, <3>1, <3>2, <4>2 DEF WriterInv, NothingLeftOut, Sink!NothingLeftOut, Sink!SinkTypeOK
    <3>3. CASE writing' = TRUE /\ UNCHANGED sent
      BY <1>0, <2>1, <2>3, <3>1, <3>3 DEF WriterInv, NothingLeftOut, Sink!NothingLeftOut, Sink!SinkTypeOK
    <3> QED  BY <2>3, <3>2, <3>3 DEF Sink!NativeWrite
  <2>4. CASE Sink!SinkDestroys /\ UNCHANGED <<writing, sent>>
    <3>1. /\ sinkDestroyed' = TRUE /\ sinkStatus' = "CLOSED"
          /\ sinkFd' \in {sinkFd, FALSE} /\ sinkClosed' \in BOOLEAN
          /\ UNCHANGED <<writing, sent>>
      BY <2>4 DEF Sink!SinkDestroys, Sink!SinkClose
    <3>2. Len(sent') <= offered'
      BY <1>0, <2>1, <3>1 DEF WriterInv
    <3>3. Sink!SinkTypeOK'
      BY <2>1, <3>1 DEF WriterInv, Sink!SinkTypeOK
    <3> QED  BY <3>1, <3>2, <3>3 DEF WriterInv, NothingLeftOut, Sink!NothingLeftOut
  <2> QED  BY <1>3, <2>2, <2>3, <2>4 DEF Sink!WriteCalled
<1> QED  BY <1>1, <1>2, <1>3 DEF Sink!SinkNext

-----------------------------------------------------------------------------
(***************************************************************************)
(* What destroy() frees.                                                   *)
(***************************************************************************)

\* The stream of a caller is on the listener's socket, which only destroy() and
\* the library close and which cannot connect a second time.
CallerInv ==
    /\ fd # Null \/ destroyed = "connected" => handedOver # <<>>
    /\ handedOver = <<"onConnect">> =>
         /\ fd \in {Null, Listener}
         /\ status[Listener] \in {"CONNECTED", "BROKEN", "CLOSED"}
         /\ destroyed = "connected" => status[Listener] = "CLOSED" /\ (fd = Null => ~readTimer)

\* Until it is destroyed, the stream of a caller keeps its descriptor; after that
\* no call gets it another, and a socket that is closed stays so.
LEMMA CallerKeeps ==
  ASSUME ReaderInv, CallerInv, [Next]_vars
  PROVE  CallerInv'
<1> USE DEF nativeVars, streamVars, readableVars
<1>0. /\ Listener \in Sockets /\ status \in [Sockets -> SockStatus] /\ Listener # Null
      /\ handedOver \in Seq({"onConnect", "onData"}) /\ <<"onConnect">> # <<>>
  BY SocketsDiffer DEF ReaderInv, TypeOK, NativeTypeOK
<1>1. ASSUME UNCHANGED <<fd, destroyed, handedOver>>, readTimer' => readTimer,
             \/ status'[Listener] = status[Listener]
             \/ handedOver = <<>>
             \/ status'[Listener] = "CLOSED"
             \/ status[Listener] = "CONNECTED" /\ status'[Listener] = "BROKEN"
      PROVE  CallerInv'
  BY <1>0, <1>1 DEF CallerInv
<1>2. CASE Binds \/ Listens
  <2>1. ASSUME NEW before \in {"INIT", "OPENED"}, NEW after, NEW result, UNCHANGED streamVars,
               OpenStep(before, after, result), fd = Null
        PROVE  CallerInv'
    <3>1. CASE status[Listener] = before
      BY <1>1, <2>1, <3>1 DEF ReaderInv, NotAgain
    <3>2. CASE SrtClose(Listener)
      BY <1>0, <1>1, <2>1, <3>2 DEF SrtClose
    <3> QED  BY <2>1, <3>1, <3>2 DEF OpenStep
  <2> QED  BY <1>1, <1>2, <2>1 DEF Binds, Listens, Bind, Listen, ReaderInv, InOrder
<1>3. CASE ListenCalled \/ Watches \/ IntervalFires \/ Adds
  BY <1>1, <1>3 DEF ListenCalled, Watches, IntervalFires, Adds, EpollAddUsock, EpollUWait
<1>4. CASE \/ Accepts
           \/ \E s \in events : BrokenEvent(s) \/ BrokenEventThrows(s) \/ ListenerEvent(s)
  <2>1. pc \in {"accepting", "handling"} /\ UNCHANGED <<fd, destroyed, handedOver, readTimer>>
    BY <1>4 DEF Accepts, BrokenEvent, BrokenEventThrows, ListenerEvent
  <2> QED  BY <1>1, <2>1 DEF ReaderInv, NotAgain
<1>5. CASE \E s \in events : DataEvent(s)
  <2>1. handedOver = <<>> /\ handedOver' = Append(handedOver, "onData")
    BY <1>5 DEF DataEvent, ReaderInv, NotAgain
  <2>2. handedOver' = <<"onData">> /\ <<"onData">> # <<>> /\ <<"onData">> # <<"onConnect">>
    BY <2>1
  <2> QED  BY <2>2 DEF CallerInv
<1>6. CASE ConnectCalled
  <2>1. CASE Connect(Success) /\ fd' = Listener /\ handedOver' = Append(handedOver, "onConnect")
    <3>1. /\ status[Listener] \in {"INIT", "OPENED"}
          /\ status' = [status EXCEPT ![Listener] = "CONNECTED"]
      BY <2>1, NodeSRTAssumption DEF Connect
    <3>2. handedOver = <<>> /\ destroyed # "connected"
      BY <3>1 DEF ReaderInv, NotAgain, CallerInv
    <3>3. status'[Listener] = "CONNECTED" /\ handedOver' # <<>>
      BY <1>0, <2>1, <3>1
    <3> QED  BY <1>6, <2>1, <3>2, <3>3 DEF ConnectCalled, CallerInv
  <2>2. CASE Connect(Failed) /\ UNCHANGED <<fd, handedOver>>
    <3>1. status'[Listener] = "CLOSED"
      BY <1>0, <2>2, NodeSRTAssumption DEF Connect, SrtClose
    <3> QED  BY <1>1, <1>6, <2>2, <3>1 DEF ConnectCalled
  <2> QED  BY <1>6, <2>1, <2>2 DEF ConnectCalled
<1>7. ASSUME NEW next, Destroys(next)  PROVE CallerInv'
  <2>1. CASE UNCHANGED <<nativeVars, fd, interval, readTimer>> /\ destroyed # "connected"
             /\ destroyed' # "connected"
    BY <1>7, <2>1 DEF Destroys, CallerInv
  <2>2. CASE destroyed = "connected"
    BY <1>1, <1>7, <2>2 DEF Destroys
  <2>3. CASE destroyed = "no" /\ fd # Null /\ destroyed' = "connected" /\ CloseSocket
    <3>1. handedOver' = handedOver /\ handedOver # <<>>
      BY <1>7, <2>3 DEF Destroys, CallerInv
    <3>2. CASE handedOver = <<"onConnect">>
      <4>1. CASE SrtClose(Listener) /\ fd' = Null /\ readTimer' = FALSE
        BY <1>0, <3>1, <4>1 DEF SrtClose, CallerInv
      <4>2. CASE ~Alive(Listener) /\ UNCHANGED <<status, fd, readTimer>>
        <5>1. status[Listener] = "CLOSED"
          BY <1>0, <3>2, <4>2 DEF CallerInv, Alive
        <5>2. fd = Listener
          BY <2>3, <3>2 DEF CallerInv
        <5> QED  BY <1>0, <3>1, <4>2, <5>1, <5>2 DEF CallerInv
      <4> QED  BY <2>3, <4>1, <4>2, NodeSRTAssumption DEF CloseSocket, Close
    <3> QED  BY <3>1, <3>2 DEF CallerInv
  <2> QED  BY <1>7, <2>1, <2>2, <2>3 DEF Destroys
<1>8. CASE ReadCalled \/ ReadTimerFires
  <2>1. /\ UNCHANGED <<nativeVars, fd, destroyed, handedOver>>
        /\ readTimer' => destroyed = "no" \/ readTimer
    BY <1>8 DEF ReadCalled, ReadTimerFires
  <2> QED  BY <1>0, <2>1 DEF CallerInv
<1>9. CASE Reads \/ Peers \/ UNCHANGED vars
  <2>1. CASE Peers
    BY <1>1, <2>1, NetworkSteps DEF Peers, ReaderInv, TypeOK
  <2> QED  BY <1>1, <1>9, <2>1 DEF Reads, Read, vars
<1> QED  BY <1>2, <1>3, <1>4, <1>5, <1>6, <1>7, <1>8, <1>9
         DEF Next, Continues, Timers, UserCalls, HandlesEvent, ReadThrows, DestroyedInHandler,
             DestroyCalled

\* What destroy() closes stays closed: a connect() fails, which closes again.
LEMMA SinkStaysClosed ==
  ASSUME Sink!WriterFreed, Sink!SinkNext \/ UNCHANGED sinkVars
  PROVE  Sink!WriterFreed'
BY DEF Sink!WriterFreed, Sink!SinkNext, Sink!SinkConnects, Sink!SinkBreaks, Sink!SinkReaped,
       Sink!SinkCloseCalled,
       Sink!SinkDestroyCalled, Sink!SinkDestroys, Sink!SinkClose, Sink!WriteCalled, sinkVars

-----------------------------------------------------------------------------
(***************************************************************************)
(* Both streams.                                                           *)
(***************************************************************************)

\* A step of the two is one of each, or of one.
LEMMA EachSteps ==
  ASSUME [StreamsNext]_allVars
  PROVE  [Next]_vars /\ (Sink!SinkNext \/ UNCHANGED sinkVars)
<1>1. CASE WriterSteps
  BY <1>1 DEF WriterSteps, vars, Sink!SinkNext, Sink!SinkConnects, Sink!SinkBreaks,
              Sink!SinkReaped, Sink!SinkCloseCalled, Sink!SinkDestroyCalled, Sink!WriteCalled
<1> QED  BY <1>1 DEF StreamsNext, ReaderSteps, allVars

LEMMA StreamsInvariant == StreamsSpec => [](ReaderInv /\ WriterInv)
<1>1. StreamsInit => ReaderInv /\ WriterInv
  <2> SUFFICES ASSUME StreamsInit  PROVE ReaderInv /\ WriterInv
    OBVIOUS
  <2>1. NativeTypeOK /\ status[Listener] = "INIT" /\ watched = {}
    BY SocketsDiffer DEF StreamsInit, Init, NativeInit, NativeTypeOK, SockStatus
  <2>2. handedOver = <<>> /\ Len(handedOver) = 0 /\ handedOver \in Seq({"onConnect", "onData"})
    BY DEF StreamsInit, Init
  <2>3. ReaderInv
    <3>1. TypeOK
      BY <2>1, <2>2 DEF StreamsInit, Init, TypeOK
    <3>2. OneConnection /\ InOrder /\ NotAgain
      BY <2>1, <2>2 DEF StreamsInit, Init, OneConnection, InOrder, NotAgain
    <3> QED  BY <2>2, <3>1, <3>2 DEF ReaderInv, HandedOverOnce
  <2>4. sent = <<>> /\ Len(sent) = 0 /\ sent \in Seq(1..MaxChunks) /\ offered = 0
    BY DEF StreamsInit, Sink!SinkInit
  <2>5. sent = [k \in 1..Len(sent) |-> k]
    BY <2>4
  <2>6. WriterInv
    <3>1. Sink!SinkTypeOK
      <4>1. offered \in 0..MaxChunks
        BY <2>4, StreamsAssumption
      <4> QED  BY <2>4, <4>1 DEF StreamsInit, Sink!SinkInit, Sink!SinkTypeOK
    <3> QED  BY <2>4, <2>5, <3>1 DEF WriterInv, NothingLeftOut, Sink!NothingLeftOut
  <2> QED  BY <2>3, <2>6
<1>2. ReaderInv /\ WriterInv /\ [StreamsNext]_allVars => (ReaderInv /\ WriterInv)'
  <2> SUFFICES ASSUME ReaderInv, WriterInv, [StreamsNext]_allVars  PROVE (ReaderInv /\ WriterInv)'
    OBVIOUS
  <2> QED  BY EachSteps, ReaderKeeps, WriterKeeps
<1> QED  BY <1>1, <1>2, PTL DEF StreamsSpec

(* Every variable of the two streams keeps its type.                        *)
THEOREM StreamsTypeCorrect == StreamsSpec => []StreamsTypeOK
<1>1. ReaderInv /\ WriterInv => StreamsTypeOK
  BY DEF ReaderInv, WriterInv, StreamsTypeOK
<1> QED  BY <1>1, StreamsInvariant, PTL

(* A read stream is handed to its user once at most, however often listen(),*)
(* connect() and destroy() are called and whatever the network does         *)
(* (src/srt-stream-readable.ts).                                            *)
THEOREM HandedOverOnceOnly == StreamsSpec => []HandedOverOnce
<1>1. ReaderInv => HandedOverOnce
  BY DEF ReaderInv
<1> QED  BY <1>1, StreamsInvariant, PTL

(* What the peer of a write stream receives is a beginning of what was      *)
(* written (src/srt-stream-writable.ts).                                    *)
THEOREM NoGapInWrites == StreamsSpec => []NothingLeftOut
<1>1. WriterInv => NothingLeftOut
  BY DEF WriterInv
<1> QED  BY <1>1, StreamsInvariant, PTL

(* Once destroyed, neither stream keeps its socket open, the read stream if *)
(* it was connected as a caller: whoever closed the socket, destroy() or,   *)
(* before it, the library, nothing called later opens it again, and no read *)
(* reschedules itself for want of a descriptor (_destroy() of               *)
(* src/srt-stream-readable.ts and src/srt-stream-writable.ts).              *)
THEOREM DestroyedIsFreed == StreamsSpec => []DestroyFrees
<1>1. StreamsInit => CallerInv /\ Sink!WriterFreed
  BY DEF StreamsInit, Init, Sink!SinkInit, CallerInv, Sink!WriterFreed
<1>2. /\ CallerInv /\ Sink!WriterFreed /\ ReaderInv /\ [StreamsNext]_allVars
      => (CallerInv /\ Sink!WriterFreed)'
  BY EachSteps, CallerKeeps, SinkStaysClosed
<1>3. CallerInv /\ Sink!WriterFreed => DestroyFrees
  BY DEF CallerInv, DestroyFrees, ReaderFreed
<1> QED  BY <1>1, <1>2, <1>3, StreamsInvariant, PTL DEF StreamsSpec

=============================================================================
