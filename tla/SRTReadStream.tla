---------------------------- MODULE SRTReadStream ----------------------------
(***************************************************************************)
(* SRTReadStream (src/srt-stream-readable.ts): a Readable that connects,   *)
(* or listens and takes one connection, and reads.  All native calls are   *)
(* made on the main thread, which an accept() or a blocking read() holds   *)
(* up; the network goes on between them.                                   *)
(*                                                                         *)
(* The Readable itself is Node's.  It calls _read() when it wants data and *)
(* not again before something was pushed, calls _destroy() at most once,   *)
(* and emits 'close' when _destroy() calls back or throws.                 *)
(***************************************************************************)
EXTENDS NodeSRT, Sequences

CONSTANT Null    \* no descriptor

ASSUME ReadStreamAssumption == Null \notin Sockets

VARIABLES
    blocking,    \* whether native reads and accept() wait (SRTO_RCVSYN)
    pc,          \* what the main thread is doing; "idle" between events
    events,      \* what epollUWait() returned and was not dealt with yet
    accepted,    \* fhandle
    fd,          \* _fd; _socket is Listener
    interval,    \* whether _eventPollInterval is armed
    readTimer,   \* whether _readTimer is armed
    reading,     \* whether _read() was called and nothing pushed since
    ended,       \* whether null was pushed
    destroyed,   \* "no", "early" (when _fd was null), "connected"
    closed,      \* whether 'close' is emitted
    handedOver   \* the callbacks that were given the stream, in order

readableVars == <<readTimer, reading, ended, destroyed, closed>>
streamVars == <<blocking, events, accepted, fd, interval, readableVars, handedOver>>
vars == <<nativeVars, pc, streamVars>>

Init ==
    /\ NativeInit
    /\ blocking \in BOOLEAN
    /\ pc = "idle"
    /\ events = {}
    /\ accepted = Null
    /\ fd = Null
    /\ interval = FALSE
    /\ readTimer = FALSE
    /\ reading = FALSE
    /\ ended = FALSE
    /\ destroyed = "no"
    /\ closed = FALSE
    /\ handedOver = <<>>

-----------------------------------------------------------------------------
(* listen() and connect().  Both throw when _fd is set.                     *)

ListenCalled ==
    /\ pc = "idle"
    /\ fd = Null
    /\ pc' = "binding"
    /\ UNCHANGED <<nativeVars, streamVars>>

Binds ==
    /\ pc = "binding"
    /\ \E result \in {Success, Failed} :
         Bind(result) /\ pc' = IF result = Failed THEN "idle" ELSE "listening"
    /\ UNCHANGED streamVars

Listens ==
    /\ pc = "listening"
    /\ \E result \in {Success, Failed} :
         Listen(result) /\ pc' = IF result = Failed THEN "idle" ELSE "watching"
    /\ UNCHANGED streamVars

\* epollCreate() may throw.
Watches ==
    /\ pc = "watching"
    /\ pc' = "idle"
    /\ \/ EpollAddUsock(Listener, Success) /\ interval' = TRUE
       \/ UNCHANGED <<nativeVars, interval>>
    /\ UNCHANGED <<blocking, events, accepted, fd, readableVars, handedOver>>

\* onConnect() is user code: what it does is done when the thread is idle.
ConnectCalled ==
    /\ pc = "idle"
    /\ fd = Null
    /\ \/ /\ Connect(Success)
          /\ fd' = Listener
          /\ handedOver' = Append(handedOver, "onConnect")
       \/ /\ Connect(Failed)
          /\ UNCHANGED <<fd, handedOver>>
    /\ UNCHANGED <<pc, blocking, events, accepted, interval, readableVars>>

-----------------------------------------------------------------------------
(* The interval of listen().                                                *)

Goes(next, rest) == events' = rest /\ pc' = IF rest = {} THEN "idle" ELSE next

\* epollUWait() holds the thread up for as long as a second.
IntervalFires ==
    /\ pc = "idle"
    /\ interval
    /\ EpollUWait(events')
    /\ pc' = IF events' = {} THEN "idle" ELSE "handling"
    /\ UNCHANGED <<blocking, accepted, fd, interval, readableVars, handedOver>>

\* An exception leaves the other events of this time alone; if the program
\* survives it the interval goes on.
IntervalThrows == events' = {} /\ pc' = "idle"

Dead == {"BROKEN", "NONEXIST", "CLOSED"}

\* The library has closed the socket already, and close() throws: the stream does
\* not end.
BrokenEventThrows(s) ==
    /\ pc = "handling"
    /\ s \in events
    /\ status[s] \in Dead
    /\ Close(s, Failed)
    /\ IntervalThrows
    /\ UNCHANGED <<blocking, accepted, fd, interval, readableVars, handedOver>>

\* The interval goes on.
BrokenEvent(s) ==
    /\ pc = "handling"
    /\ s \in events
    /\ status[s] \in Dead
    /\ Close(s, Success)
    /\ Goes("handling", events \ {s})
    /\ ended' = TRUE
    /\ reading' = FALSE
    /\ UNCHANGED <<blocking, accepted, fd, interval, readTimer, destroyed, closed, handedOver>>

\* The status is not compared with LISTENING.
ListenerEvent(s) ==
    /\ pc = "handling"
    /\ s \in events
    /\ status[s] \notin Dead
    /\ s = Listener
    /\ events' = events \ {s}
    /\ pc' = "accepting"
    /\ UNCHANGED <<nativeVars, blocking, accepted, fd, interval, readableVars, handedOver>>

\* If the peer has left it waits or throws.
Accepts ==
    /\ pc = "accepting"
    /\ \/ /\ \E result \in Clients : Accept(result, blocking) /\ accepted' = result
          /\ pc' = "adding"
          /\ UNCHANGED events
       \/ /\ Accept(Failed, blocking)
          /\ IntervalThrows
          /\ UNCHANGED accepted
    /\ UNCHANGED <<blocking, fd, interval, readableVars, handedOver>>

Adds ==
    /\ pc = "adding"
    /\ EpollAddUsock(accepted, Success)
    /\ Goes("handling", events)
    /\ UNCHANGED <<blocking, accepted, fd, interval, readableVars, handedOver>>

\* Mutant of DataEvent: the interval goes on.
DataEventKeepingInterval(s) ==
    /\ pc = "handling"
    /\ s \in events
    /\ status[s] \notin Dead
    /\ s # Listener
    /\ fd' = s
    /\ handedOver' = Append(handedOver, "onData")
    /\ Goes("handling", events \ {s})
    /\ UNCHANGED <<nativeVars, blocking, accepted, interval, readableVars>>

\* Anything else is taken for data.  onData() is user code, as onConnect() is.
DataEvent(s) ==
    /\ pc = "handling"
    /\ s \in events
    /\ status[s] \notin Dead
    /\ s # Listener
    /\ fd' = s
    /\ interval' = FALSE
    /\ handedOver' = Append(handedOver, "onData")
    /\ Goes("handling", events \ {s})
    /\ UNCHANGED <<nativeVars, blocking, accepted, readableVars>>

-----------------------------------------------------------------------------
(* _destroy()                                                               *)

\* Mutant of CloseSocket: the scheduled read is not cleared.
CloseSocketKeepingTimer ==
    /\ \/ Close(Listener, Success) /\ fd' = Null
       \/ Close(Listener, Failed) /\ UNCHANGED fd
    /\ UNCHANGED readTimer

\* It is the listener that is closed, even if a connection was accepted; when
\* that throws, what comes after it is not done.
CloseSocket ==
    \/ Close(Listener, Success) /\ fd' = Null /\ readTimer' = FALSE
    \/ Close(Listener, Failed) /\ UNCHANGED <<fd, readTimer>>

\* destroy(), after which the thread is at "next".  Without a connection
\* _destroy() returns at once and does not call back.
Destroys(next) ==
    /\ pc' = next
    /\ \/ /\ destroyed # "no"
          /\ UNCHANGED <<nativeVars, fd, interval, readTimer, destroyed, closed>>
       \/ /\ destroyed = "no"
          /\ fd = Null
          /\ destroyed' = "early"
          /\ UNCHANGED <<nativeVars, fd, interval, readTimer, closed>>
       \/ /\ destroyed = "no"
          /\ fd # Null
          /\ destroyed' = "connected"
          /\ closed' = TRUE
          /\ interval' = FALSE
          /\ CloseSocket
    /\ UNCHANGED <<blocking, events, accepted, reading, ended, handedOver>>

\* By the user, or by the Readable when it has ended.
DestroyCalled == pc = "idle" /\ Destroys("idle")

-----------------------------------------------------------------------------
(* _readSocketAndPush(), called by _read() and by the read timer.  A push   *)
(* from the timer may run the user's 'data' handler.                        *)

\* Mutant of WaitsOrReads: the read is scheduled once only.
WaitsOrReadsOnce(loop) ==
    /\ readTimer' = (fd = Null /\ loop = "reading")
    /\ pc' = IF fd = Null THEN "idle" ELSE loop

WaitsOrReads(loop) ==
    /\ readTimer' = (fd = Null)
    /\ pc' = IF fd = Null THEN "idle" ELSE loop

ReadCalled ==
    /\ pc = "idle"
    /\ ~reading
    /\ ~ended
    /\ destroyed = "no"
    /\ reading' = TRUE
    /\ WaitsOrReads("reading")
    /\ UNCHANGED <<nativeVars, blocking, events, accepted, fd, interval, ended, destroyed,
                   closed, handedOver>>

ReadTimerFires ==
    /\ pc = "idle"
    /\ readTimer
    /\ WaitsOrReads("readingOnTimer")
    /\ UNCHANGED <<nativeVars, blocking, events, accepted, fd, interval, reading, ended,
                   destroyed, closed, handedOver>>

InReadLoop == pc \in {"reading", "readingOnTimer"}

\* push() says whether more is wanted, and the loop counts the bytes that were
\* asked for: it ends or goes on.  A destroyed stream takes nothing.
Reads ==
    /\ InReadLoop
    /\ Read(fd)
    /\ IF destroyed = "no"
         THEN /\ reading' = FALSE
              /\ pc' \in {"idle", pc} \union (IF pc = "readingOnTimer" THEN {"inHandler"} ELSE {})
         ELSE /\ pc' = "idle"
              /\ UNCHANGED reading
    /\ UNCHANGED <<blocking, events, accepted, fd, interval, readTimer, ended, destroyed,
                   closed, handedOver>>

\* No data, or no connection any more: read() throws, and the stream is closed.
\* The branch for -1 is never taken.
ReadThrows ==
    /\ InReadLoop
    /\ ReadFails(fd, blocking)
    /\ Destroys("idle")

\* The user's handler destroys the stream, and the loop goes on regardless.
DestroyedInHandler ==
    /\ pc = "inHandler"
    /\ Destroys("readingOnTimer") \/ Destroys("idle")

-----------------------------------------------------------------------------

HandlesEvent ==
    \E s \in events :
        BrokenEvent(s) \/ BrokenEventThrows(s) \/ ListenerEvent(s) \/ DataEvent(s)

\* What follows when the main thread is in the middle of something.
Continues ==
    \/ Binds \/ Listens \/ Watches
    \/ HandlesEvent \/ Accepts \/ Adds
    \/ Reads \/ ReadThrows
    \/ DestroyedInHandler

Timers == IntervalFires \/ ReadTimerFires

UserCalls == ListenCalled \/ ConnectCalled \/ DestroyCalled

Peers == Network /\ UNCHANGED <<pc, streamVars>>

Next == Continues \/ Timers \/ UserCalls \/ ReadCalled \/ Peers

Spec == Init /\ [][Next]_vars

(* The main thread goes on unless a native call holds it up, and every turn *)
(* of the event loop has a phase for timers, whatever else keeps it busy.   *)
Fairness ==
    /\ WF_vars(Continues)
    /\ SF_vars(IntervalFires)
    /\ SF_vars(ReadTimerFires)

FairSpec == Spec /\ Fairness

-----------------------------------------------------------------------------
(* Properties.                                                              *)

TypeOK ==
    /\ NativeTypeOK
    /\ blocking \in BOOLEAN
    /\ pc \in {"idle", "binding", "listening", "watching", "handling", "accepting", "adding",
               "reading", "readingOnTimer", "inHandler"}
    /\ events \subseteq Sockets
    /\ accepted \in Clients \union {Null}
    /\ fd \in Sockets \union {Null}
    /\ interval \in BOOLEAN
    /\ interval => fd = Null
    /\ readTimer \in BOOLEAN
    /\ reading \in BOOLEAN
    /\ ended \in BOOLEAN
    /\ destroyed \in {"no", "early", "connected"}
    /\ closed <=> destroyed = "connected"
    /\ handedOver \in Seq({"onConnect", "onData"})

(* A stream is handed to its user once at most, in whatever order listen(), *)
(* connect() and destroy() are called, and however often: not again for a   *)
(* later message, nor for a connection made after it was destroyed.         *)
HandedOverOnce == Len(handedOver) <= 1

(* A stream that has connected as a caller and was destroyed keeps nothing  *)
(* alive: its socket is closed for good, by _destroy() or before it by the  *)
(* library, and no read is scheduled that would find no descriptor and      *)
(* schedule itself again for ever.  (If the library was first, close()      *)
(* throws, and _fd and a scheduled read stay: that read fails.  In listener *)
(* mode nothing of the kind holds: the connection is never closed.)         *)
ReaderFreed ==
    destroyed = "connected" /\ handedOver = <<"onConnect">> =>
        /\ status[Listener] = "CLOSED"
        /\ fd = Null => ~readTimer

(* A read that the Readable has asked for is answered when a message comes, *)
(* although it was asked for before there was a connection, unless the      *)
(* connection breaks first, which ends or destroys the stream.  Only a      *)
(* connection that the library closed before the interval had looked at it  *)
(* does neither: then the read waits for ever.                              *)
DataIsPushed ==
    \A s \in Sockets :
        reading /\ s \in readable /\ s \in watched \union {fd} ~>
            \/ ~reading
            \/ destroyed # "no"
            \/ s # fd /\ status[s] = "CLOSED"

=============================================================================
