------------------------------ MODULE SRTServer ------------------------------
(***************************************************************************)
(* SRTServer and SRTServerConnection (src/srt-server.ts): opening, the     *)
(* poll loop, the event handlers it starts without awaiting them, and the  *)
(* disposal they race with.                                                *)
(*                                                                         *)
(* Calls go through CallLoop.  No continuation but those of the loop is    *)
(* needed for a call that is rejected: see NeverRejected.                  *)
(***************************************************************************)
EXTENDS NodeSRT, CallLoop

CONSTANT Opens   \* invocations of open()

ASSUME SRTServerAssumption ==
    /\ {Undefined, Rejected} \intersect (Sockets \union SockStatus \union {Success, Failed}) = {}
    /\ Rejected # Undefined
    /\ \A S \in SUBSET Sockets : S # Rejected

\* What "fd" may be in a handler.
Fds == Clients \union {Failed, Undefined}

VARIABLES
    opener,         \* each open(): "idle", "running", "opened", "failed"
    disposer,       \* dispose(): "idle", "closing", "waiting", "terminating", "done"
    pollTimer,      \* whether _pollEventsTimer is armed
    connectionMap,  \* the keys of _connectionMap
    attached,       \* connections whose _asyncSrt is not null
    announced,      \* the fds that 'connection' was emitted with
    disconnected,   \* the fds that 'disconnection' was emitted with
    unmapped        \* fds for which a handler threw "not in connections map"

eventVars == <<connectionMap, attached, announced, disconnected, unmapped>>
vars == <<nativeVars, loopVars, opener, disposer, pollTimer, eventVars>>

Init ==
    /\ NativeInit
    /\ LoopInit
    /\ opener = [o \in Opens |-> "idle"]
    /\ disposer = "idle"
    /\ pollTimer = FALSE
    /\ connectionMap = {}
    /\ attached = {}
    /\ announced = {}
    /\ disconnected = {}
    /\ unmapped = {}

-----------------------------------------------------------------------------
(* The worker.                                                              *)

Perform(c, result) ==
    \/ c.op = "bind" /\ Bind(result)
    \/ c.op = "listen" /\ Listen(result)
    \/ c.op = "epollCreate" /\ result \in {Success, Failed} /\ UNCHANGED nativeVars
    \/ c.op = "epollAddUsock" /\ EpollAddUsock(c.socket, result)
    \/ c.op = "epollUWait" /\ EpollUWait(result)
    \/ c.op = "getSockState" /\ GetSockState(c.socket, result)
    \/ c.op = "accept" /\ \E waits \in BOOLEAN : Accept(result, waits)
    \/ c.op = "close" /\ Close(c.socket, result)

\* What a native call may answer, at most.
Results(op) ==
    IF op = "epollUWait" THEN SUBSET Sockets
    ELSE IF op = "getSockState" THEN SockStatus
    ELSE Clients \union {Success, Failed}

WorkerPerforms ==
    /\ calls # <<>>
    /\ \E result \in Results(Head(calls).op) :
         /\ Perform(Head(calls), result)
         /\ Performed(result)
    /\ UNCHANGED <<opener, disposer, pollTimer, eventVars>>

MainThreadAnswered ==
    /\ AnswerArrives
    /\ UNCHANGED <<nativeVars, opener, disposer, pollTimer, eventVars>>

-----------------------------------------------------------------------------
(* open()                                                                   *)

\* It may be called again, at any time: only the state of the native socket
\* stands against it.
Open(o) ==
    /\ Idle
    /\ opener[o] = "idle"
    /\ disposer = "idle"
    /\ opener' = [opener EXCEPT ![o] = "running"]
    /\ Posts(<<Call("bind", Listener, <<"bound", o>>)>>, resumed)
    /\ UNCHANGED <<nativeVars, answers, asyncSrt, disposer, pollTimer, eventVars>>

\* Mutant of OpenGoesOn: the result is not compared with SRT_ERROR.
OpenGoesOnUnchecked(o, k, next) ==
    /\ Resumes(<<k, o>>)
    /\ Posts(<<next>>, Rest)
    /\ UNCHANGED <<nativeVars, answers, asyncSrt, opener, disposer, pollTimer, eventVars>>

\* What _open() does after the answer to one of its first three calls.
OpenGoesOn(o, k, next) ==
    /\ Resumes(<<k, o>>)
    /\ IF Result = Failed
         THEN /\ opener' = [opener EXCEPT ![o] = "failed"]
              /\ PostsNothing(Rest)
         ELSE /\ Posts(<<next>>, Rest)
              /\ UNCHANGED opener
    /\ UNCHANGED <<nativeVars, answers, asyncSrt, disposer, pollTimer, eventVars>>

Bound(o) == OpenGoesOn(o, "bound", Call("listen", Listener, <<"listening", o>>))
Listening(o) == OpenGoesOn(o, "listening", Call("epollCreate", Listener, <<"created", o>>))
EpollCreated(o) == OpenGoesOn(o, "created", Call("epollAddUsock", Listener, <<"watching", o>>))

-----------------------------------------------------------------------------
(* The poll loop.                                                           *)

\* _pollEvents(), up to its await.
PollEvents(rest) ==
    IF asyncSrt # "live"
      THEN /\ pollTimer' = FALSE
           /\ PostsNothing(rest)
      ELSE /\ Posts(<<Call("epollUWait", Listener, <<"polled">>)>>, rest)
           /\ UNCHANGED pollTimer

\* The result of epollAddUsock() is not looked at.
Watching(o) ==
    /\ Resumes(<<"watching", o>>)
    /\ opener' = [opener EXCEPT ![o] = "opened"]
    /\ PollEvents(Rest)
    /\ UNCHANGED <<nativeVars, answers, asyncSrt, disposer, eventVars>>

\* The timer has fired: it is not armed until _pollEvents() comes round to it.
PollTimer ==
    /\ Idle
    /\ pollTimer
    /\ pollTimer' = FALSE
    /\ IF asyncSrt = "live"
         THEN Posts(<<Call("epollUWait", Listener, <<"polled">>)>>, resumed)
         ELSE PostsNothing(resumed)
    /\ UNCHANGED <<nativeVars, answers, asyncSrt, opener, disposer, eventVars>>

Orders(S) == {f \in [1..Cardinality(S) -> S] : \A i, j \in DOMAIN f : f[i] = f[j] => i = j}

\* Mutant of Polled: the timer is not armed again.
PolledOnce ==
    /\ Resumes(<<"polled">>)
    /\ \E order \in Orders(Result) :
         Posts([i \in DOMAIN order |-> Call("getSockState", order[i], <<"state">>)], Rest)
    /\ UNCHANGED <<nativeVars, answers, asyncSrt, opener, disposer, pollTimer, eventVars>>

\* A handler is started for each event and none is awaited.
Polled ==
    /\ Resumes(<<"polled">>)
    /\ \E order \in Orders(Result) :
         Posts([i \in DOMAIN order |-> Call("getSockState", order[i], <<"state">>)], Rest)
    /\ pollTimer' = TRUE
    /\ UNCHANGED <<nativeVars, answers, asyncSrt, opener, disposer, eventVars>>

-----------------------------------------------------------------------------
(* _handleEvent(), from the answer to getSockState() on.                    *)

\* this.socket is null once the disposal is over.
IsListener(s) == s = Listener /\ disposer # "done"

\* Mutant of ListenerEvent: the status is not looked at.
ListenerEventUnchecked ==
    /\ Resumes(<<"state">>)
    /\ IsListener(Socket)
    /\ Posts(<<Call("accept", Listener, <<"accepted">>)>>, Rest)
    /\ UNCHANGED <<nativeVars, answers, asyncSrt, opener, disposer, pollTimer, eventVars>>

ListenerEvent ==
    /\ Resumes(<<"state">>)
    /\ IsListener(Socket)
    /\ IF Result = "LISTENING"
         THEN Posts(<<Call("accept", Listener, <<"accepted">>)>>, Rest)
         ELSE PostsNothing(Rest)
    /\ UNCHANGED <<nativeVars, answers, asyncSrt, opener, disposer, pollTimer, eventVars>>

\* The result of accept() is not looked at.
Accepted ==
    /\ Resumes(<<"accepted">>)
    /\ Posts(<<Call("epollAddUsock", Result, <<"added">>)>>, Rest)
    /\ UNCHANGED <<nativeVars, answers, asyncSrt, opener, disposer, pollTimer, eventVars>>

\* Mutant of NewConnection: the handle keeps the AsyncSRT but is not mapped.
NewConnectionUnmapped(fd) ==
    /\ attached' = attached \union {fd}
    /\ UNCHANGED connectionMap

\* The constructor of SRTServerConnection does not keep the AsyncSRT it is given.
NewConnection(fd) ==
    /\ connectionMap' = connectionMap \union {fd}
    /\ attached' = attached \ {fd}

Added ==
    /\ Resumes(<<"added">>)
    /\ NewConnection(Socket)
    /\ announced' = announced \union {Socket}
    /\ resumed' = Rest
    /\ UNCHANGED <<nativeVars, answers, asyncSrt, calls, opener, disposer, pollTimer,
                   disconnected, unmapped>>

\* Mutant of Broken: a broken socket is taken for one with data.
BrokenOnlyClosed == {"NONEXIST", "CLOSED"}
Broken == {"BROKEN", "NONEXIST", "CLOSED"}

\* SRTServerConnection.close(): null at once when _asyncSrt is null already,
\* else 'closing' takes the connection out of the map.
CloseConnection(fd) ==
    IF fd \notin attached
      THEN /\ resumed' = Append(Rest, Resumption(<<"closed">>, fd, Success))
           /\ UNCHANGED <<calls, connectionMap, attached>>
      ELSE /\ attached' = attached \ {fd}
           /\ connectionMap' = connectionMap \ {fd}
           /\ Posts(<<Call("close", fd, <<"closed">>)>>, Rest)

BrokenEvent ==
    /\ Resumes(<<"state">>)
    /\ ~IsListener(Socket)
    /\ Result \in Broken
    /\ IF Socket \in connectionMap
         THEN CloseConnection(Socket)
         ELSE resumed' = Rest /\ UNCHANGED <<calls, connectionMap, attached>>
    /\ UNCHANGED <<nativeVars, answers, asyncSrt, opener, disposer, pollTimer,
                   announced, disconnected, unmapped>>

ConnectionClosed ==
    /\ Resumes(<<"closed">>)
    /\ disconnected' = disconnected \union {Socket}
    /\ resumed' = Rest
    /\ UNCHANGED <<nativeVars, answers, asyncSrt, calls, opener, disposer, pollTimer,
                   connectionMap, attached, announced, unmapped>>

\* Anything else is taken for data, an undefined status included.
DataEvent ==
    /\ Resumes(<<"state">>)
    /\ ~IsListener(Socket)
    /\ Result \notin Broken
    /\ unmapped' = IF Socket \in connectionMap THEN unmapped ELSE unmapped \union {Socket}
    /\ resumed' = Rest
    /\ UNCHANGED <<nativeVars, answers, asyncSrt, calls, opener, disposer, pollTimer,
                   connectionMap, attached, announced, disconnected>>

-----------------------------------------------------------------------------
(* dispose(): SRTServer clears its timer, SRTSocketAsync does the rest.     *)

Dispose ==
    /\ Idle
    /\ disposer = "idle"
    /\ disposer' = "closing"
    /\ pollTimer' = FALSE
    /\ Posts(<<Call("close", Listener, <<"disposing">>)>>, resumed)
    /\ UNCHANGED <<nativeVars, answers, asyncSrt, opener, eventVars>>

\* Mutant of ListenerClosed: it does not wait for the calls in flight.
ListenerClosedAtOnce ==
    /\ Resumes(<<"disposing">>)
    /\ asyncSrt' = "disposed"
    /\ disposer' = "terminating"
    /\ resumed' = Rest
    /\ UNCHANGED <<nativeVars, answers, calls, opener, pollTimer, eventVars>>

\* Mutant of ListenerClosed: calls are still taken while it waits.
ListenerClosedStayingLive ==
    /\ Resumes(<<"disposing">>)
    /\ asyncSrt' = IF InFlight = <<>> THEN "disposed" ELSE "live"
    /\ disposer' = IF InFlight = <<>> THEN "terminating" ELSE "waiting"
    /\ resumed' = Rest
    /\ UNCHANGED <<nativeVars, answers, calls, opener, pollTimer, eventVars>>

\* The result of close() is not looked at; AsyncSRT.dispose() waits until no
\* call is in flight.
ListenerClosed ==
    /\ Resumes(<<"disposing">>)
    /\ asyncSrt' = IF InFlight = <<>> THEN "disposed" ELSE "disposing"
    /\ disposer' = IF InFlight = <<>> THEN "terminating" ELSE "waiting"
    /\ resumed' = Rest
    /\ UNCHANGED <<nativeVars, answers, calls, opener, pollTimer, eventVars>>

DisposeProceed ==
    /\ Idle
    /\ disposer = "waiting"
    /\ InFlight = <<>>
    /\ disposer' = "terminating"
    /\ asyncSrt' = "disposed"
    /\ UNCHANGED <<nativeVars, answers, calls, resumed, opener, pollTimer, eventVars>>

WorkerExited ==
    /\ Idle
    /\ disposer = "terminating"
    /\ disposer' = "done"
    /\ UNCHANGED <<nativeVars, loopVars, opener, pollTimer, eventVars>>

Continuations ==
    \/ \E o \in Opens : Bound(o) \/ Listening(o) \/ EpollCreated(o) \/ Watching(o)
    \/ Polled
    \/ ListenerEvent \/ Accepted \/ Added
    \/ BrokenEvent \/ ConnectionClosed \/ DataEvent
    \/ ListenerClosed

UserOpens == \E o \in Opens : Open(o)

MainThread == UserOpens \/ Continuations \/ PollTimer \/ Dispose \/ DisposeProceed \/ WorkerExited

Peers == resumed = <<>> /\ Network /\ UNCHANGED <<loopVars, opener, disposer, pollTimer, eventVars>>

Next == WorkerPerforms \/ MainThreadAnswered \/ MainThread \/ Peers

Spec == Init /\ [][Next]_vars

\* The worker is in an accept() whose peer has left.
AcceptBlocked ==
    /\ calls # <<>>
    /\ Head(calls).op = "accept"
    /\ status[Listener] = "LISTENING"
    /\ backlog = {}

(* The worker takes the next call whenever it can (an accept() that waits   *)
(* for a peer need not return), the event loop delivers answers and fires   *)
(* timers.  The user need neither open nor dispose, and no peer need do     *)
(* anything.                                                                *)
Fairness ==
    /\ WF_vars(~AcceptBlocked /\ WorkerPerforms)
    /\ WF_vars(MainThreadAnswered)
    /\ WF_vars(Continuations)
    /\ WF_vars(PollTimer)
    /\ WF_vars(DisposeProceed)
    /\ WF_vars(WorkerExited)

FairSpec == Spec /\ Fairness

-----------------------------------------------------------------------------
(* Properties.                                                              *)

TypeOK ==
    /\ NativeTypeOK
    /\ asyncSrt \in {"live", "disposing", "disposed"}
    /\ opener \in [Opens -> {"idle", "running", "opened", "failed"}]
    /\ disposer \in {"idle", "closing", "waiting", "terminating", "done"}
    /\ pollTimer \in BOOLEAN
    /\ connectionMap \subseteq Fds
    /\ attached \subseteq connectionMap
    /\ announced \subseteq Fds
    /\ disconnected \subseteq announced
    /\ unmapped \subseteq Fds \union {Listener}
    /\ Len(resumed) <= Cardinality(Sockets)

\* open() was called again: its bind() fails, which closes the listener.
Reopened == \E o, p \in Opens : o # p /\ opener[o] # "idle" /\ opener[p] # "idle"

(* The poll loop goes on while a handler waits for accept(), and reports    *)
(* the same listener again.  Even so a second accept() is never queued, and *)
(* one that will be performed on a listening listener finds a peer waiting, *)
(* unless that peer left: the worker, and every call behind it, never waits *)
(* for a peer nobody has reported.  Only dispose() or a second open() can   *)
(* close the listener under an accept() that is queued.                     *)
AcceptWillNotBlock ==
    \A i \in 1..Len(calls) : calls[i].op = "accept" =>
        /\ status[Listener] = "LISTENING" => backlog \union gone # {}
        /\ status[Listener] # "LISTENING" => disposer # "idle" \/ Reopened
        /\ \A j \in 1..(i - 1) : calls[j].op # "accept"

(* However often open() is called there is one poll loop at most: its poll  *)
(* is in flight, or has just been answered, or its timer is armed.  Two     *)
(* would share _pollEventsTimer, and report the listener to two handlers at *)
(* a time, each of which would call accept().                               *)
OnePollLoop ==
    LET loop == resumed \o InFlight
        polls == {i \in 1..Len(loop) : loop[i].k = <<"polled">>}
    IN /\ \A i, j \in polls : i = j
       /\ pollTimer => polls = {}

(* An event is never about a connection that the server has not mapped yet, *)
(* although the socket is watched before its handle is created: the throw   *)
(* of _handleEvent() is unreachable.                                        *)
EventsAreMapped == unmapped = {}

(* As long as nobody disposes of the server or opens it again, each         *)
(* 'connection' is that of a socket that accept() returned, however often   *)
(* the listener was reported; only an accept() that does not wait, after    *)
(* the peer has left, makes a connection of SRT_ERROR.                      *)
AnnouncedWasAccepted ==
    disposer = "idle" /\ ~Reopened =>
        \A fd \in announced :
            \/ fd \in Clients /\ status[fd] # "NONEXIST"
            \/ fd = Failed /\ gone # {}

(* No continuation of the server, and no handler it started, calls into the *)
(* AsyncSRT after its disposal: _pollEvents() looks at startedToDispose,    *)
(* and the disposal waits for what is in flight.                            *)
NeverRejected ==
    /\ asyncSrt = "disposed" => InFlight \o resumed = <<>>
    /\ \A i \in 1..Len(resumed) : resumed[i].result # Rejected

(* When a peer connects while the server is open, it or another is          *)
(* announced, unless it leaves or the server is disposed of or opened       *)
(* again: no event is lost between two polls.  (All others that wait are    *)
(* dropped: see SecondPeerAnnounced.)                                       *)
PeerAnnounced ==
    \A c \in Clients :
        c \in backlog ~>
            announced # {} \/ c \in gone \/ disposer # "idle" \/ Reopened
            \/ \E o \in Opens : opener[o] = "failed"

(* A connection that breaks after it was announced is noticed by the poll   *)
(* loop, unless the server is disposed of, or the library forgets the       *)
(* socket between two polls.                                                *)
BreakNoticed ==
    \A c \in Clients :
        c \in announced /\ status[c] = "BROKEN" ~>
            \/ c \in disconnected
            \/ status[c] = "CLOSED" /\ c \notin watched
            \/ disposer # "idle"

(* dispose() completes and the poll loop stops for good, whatever handlers  *)
(* were running, unless the worker is stuck in an accept().                 *)
DisposeCompletes ==
    disposer = "closing" ~>
        \/ disposer = "done" /\ ~pollTimer /\ InFlight = <<>>
        \/ AcceptBlocked

-----------------------------------------------------------------------------
(* What documents say and the code does not do.                             *)

(* Documented: the server accepts multiple incoming connections (README.md, *)
(* async API).  A peer that is in the backlog of the open server is         *)
(* announced, or leaves, or the server is disposed of.                      *)
SecondPeerAnnounced ==
    \A c \in Clients :
        c \in backlog ~> c \in announced \/ c \in gone \/ disposer # "idle"
                           \/ \E o \in Opens : opener[o] = "failed"

(* Documented: the connection handed out with 'connection' has              *)
(* getReaderWriter() to read from and write to the client (README.md).      *)
FreshConnectionUsable ==
    \A c \in Clients : c \in announced /\ c \notin disconnected => c \in attached

=============================================================================
