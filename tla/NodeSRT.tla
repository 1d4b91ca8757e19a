------------------------------- MODULE NodeSRT -------------------------------
(***************************************************************************)
(* The native bindings (src/node-srt.cc) over one listening socket, as     *)
(* far as the JavaScript above them can observe: the state of each socket, *)
(* the connections waiting in the listener's backlog, the sockets an epoll *)
(* watches, and which of them have something to report.  The SRT library   *)
(* itself is external: what its functions do to a socket is modelled from  *)
(* how the bindings use them.                                              *)
(*                                                                         *)
(* Each operation is an action of its effect, with the result it gives to  *)
(* JavaScript as a parameter; Failed stands for an exception, which the    *)
(* callers see as -1.                                                      *)
(***************************************************************************)
EXTENDS Integers, FiniteSets

CONSTANTS
    Listener,   \* the socket created by createSocket()
    Clients,    \* the sockets srt_accept() may return, one per peer
    Success,    \* the result of an operation that has no other to give
    Failed      \* the result of an operation that threw: SRT_ERROR, -1

ASSUME NodeSRTAssumption ==
    /\ Listener \notin Clients
    /\ Failed \notin Clients \union {Listener, Success}
    /\ IsFiniteSet(Clients)

Sockets == Clients \union {Listener}

VARIABLES
    status,     \* srt_getsockstate() of each socket
    backlog,    \* peers that have connected to the listener, not accepted yet
    watched,    \* the sockets added to the epoll
    readable,   \* connected sockets with data to read
    gone        \* peers that left the backlog before they were accepted

nativeVars == <<status, backlog, watched, readable, gone>>

SockStatus == {"INIT", "OPENED", "LISTENING", "CONNECTED", "BROKEN", "CLOSED", "NONEXIST"}

NativeTypeOK ==
    /\ status \in [Sockets -> SockStatus]
    /\ backlog \subseteq Clients
    /\ watched \subseteq Sockets
    /\ readable \subseteq Sockets
    /\ gone \subseteq Clients

NativeInit ==
    /\ status = [s \in Sockets |-> IF s = Listener THEN "INIT" ELSE "NONEXIST"]
    /\ backlog = {}
    /\ watched = {}
    /\ readable = {}
    /\ gone = {}

-----------------------------------------------------------------------------
(* Operations.                                                              *)

\* srt_close() also takes the socket out of every epoll, and drops the
\* connections that wait in the backlog of a listener.
SrtClose(s) ==
    /\ status' = [status EXCEPT ![s] = "CLOSED"]
    /\ watched' = watched \ {s}
    /\ readable' = readable \ {s}
    /\ backlog' = IF s = Listener THEN {} ELSE backlog
    /\ UNCHANGED gone

\* bind() and listen() close the socket when they fail.
OpenStep(before, after, result) ==
    \/ /\ status[Listener] = before
       /\ result = Success
       /\ status' = [status EXCEPT ![Listener] = after]
       /\ UNCHANGED <<backlog, watched, readable, gone>>
    \/ /\ result = Failed
       /\ SrtClose(Listener)

\* An address that cannot be parsed leaves the socket alone.
Bind(result) ==
    \/ OpenStep("INIT", "OPENED", result)
    \/ result = Failed /\ UNCHANGED nativeVars

Listen(result) == OpenStep("OPENED", "LISTENING", result)

\* Mutant of Accept: the listener stays open.
AcceptKeepingListener(result, waits) ==
    \/ /\ status[Listener] = "LISTENING"
       /\ result \in backlog
       /\ status' = [status EXCEPT ![result] = "CONNECTED"]
       /\ backlog' = backlog \ {result}
       /\ UNCHANGED <<watched, readable, gone>>
    \/ /\ status[Listener] = "LISTENING" => backlog = {} /\ ~waits
       /\ result = Failed
       /\ SrtClose(Listener)

\* While nothing is pending accept() waits, or fails where reads of the listener
\* are not blocking (SRTO_RCVSYN); it closes the listener whether or not it
\* succeeds.
Accept(result, waits) ==
    \/ /\ status[Listener] = "LISTENING"
       /\ result \in backlog
       /\ status' = [status EXCEPT ![result] = "CONNECTED", ![Listener] = "CLOSED"]
       /\ watched' = watched \ {Listener}
       /\ backlog' = {}
       /\ UNCHANGED <<readable, gone>>
    \/ /\ status[Listener] = "LISTENING" => backlog = {} /\ ~waits
       /\ result = Failed
       /\ SrtClose(Listener)

\* connect() closes the socket when it fails, which it does on one that listens
\* or is connected.
Connect(result) ==
    \/ /\ status[Listener] \in {"INIT", "OPENED"}
       /\ result = Success
       /\ status' = [status EXCEPT ![Listener] = "CONNECTED"]
       /\ UNCHANGED <<backlog, watched, readable, gone>>
    \/ /\ result = Failed
       /\ SrtClose(Listener)

Alive(s) == s \in Sockets /\ status[s] \notin {"CLOSED", "NONEXIST"}

Close(s, result) ==
    \/ /\ Alive(s)
       /\ result = Success
       /\ SrtClose(s)
    \/ /\ ~Alive(s)
       /\ result = Failed
       /\ UNCHANGED nativeVars

GetSockState(s, result) ==
    /\ result = status[s]
    /\ UNCHANGED nativeVars

EpollAddUsock(s, result) ==
    \/ /\ Alive(s)
       /\ result = Success
       /\ watched' = watched \union {s}
       /\ UNCHANGED <<status, backlog, readable, gone>>
    \/ /\ ~Alive(s)
       /\ result = Failed
       /\ UNCHANGED nativeVars

HasData(s) == s \in readable

\* read() takes a message; without one it waits for it where reads are
\* blocking, and fails where they are not.
ReadFails(s, blocking) ==
    /\ ~HasData(s)
    /\ blocking => ~(Alive(s) /\ status[s] = "CONNECTED")

Read(s) ==
    /\ HasData(s)
    /\ readable' \in {readable, readable \ {s}}
    /\ UNCHANGED <<status, backlog, watched, gone>>

\* Level-triggered: what is not dealt with is reported again.  A socket that is
\* watched and closed was closed by the library.
Reported(s) ==
    \/ s = Listener /\ backlog # {}
    \/ HasData(s)
    \/ status[s] \in {"BROKEN", "CLOSED"}

\* An epoll that watches nothing gives an error, which EpollUWait turns into
\* an empty array.
EpollUWait(result) ==
    /\ result = {s \in watched : Reported(s)}
    /\ UNCHANGED nativeVars

-----------------------------------------------------------------------------
(* The network, and the library's own thread.                               *)

PeerConnects(c) ==
    /\ status[Listener] = "LISTENING"
    /\ status[c] = "NONEXIST"
    /\ c \notin backlog \union gone
    /\ backlog' = backlog \union {c}
    /\ UNCHANGED <<status, watched, readable, gone>>

PeerLeavesBacklog(c) ==
    /\ c \in backlog
    /\ backlog' = backlog \ {c}
    /\ gone' = gone \union {c}
    /\ UNCHANGED <<status, watched, readable>>

DataArrives(s) ==
    /\ status[s] = "CONNECTED"
    /\ ~HasData(s)
    /\ readable' = readable \union {s}
    /\ UNCHANGED <<status, backlog, watched, gone>>

PeerBreaks(s) ==
    /\ status[s] = "CONNECTED"
    /\ status' = [status EXCEPT ![s] = "BROKEN"]
    /\ readable' = readable \ {s}
    /\ UNCHANGED <<backlog, watched, gone>>

\* Some time after a connection broke the library closes its socket by itself;
\* the epoll still watches it.
LibraryCloses(s) ==
    /\ status[s] = "BROKEN"
    /\ status' = [status EXCEPT ![s] = "CLOSED"]
    /\ UNCHANGED <<backlog, watched, readable, gone>>

\* Later it forgets the socket.  (It is NONEXIST then; "CLOSED" goes on standing
\* for both, which the code never tells apart.)
LibraryForgets(s) ==
    /\ status[s] = "CLOSED"
    /\ s \in watched
    /\ watched' = watched \ {s}
    /\ UNCHANGED <<status, backlog, readable, gone>>

Library == \E s \in Sockets : LibraryCloses(s) \/ LibraryForgets(s)

Network ==
    \/ \E c \in Clients : PeerConnects(c) \/ PeerLeavesBacklog(c)
    \/ \E s \in Sockets : DataArrives(s) \/ PeerBreaks(s)
    \/ Library

=============================================================================
