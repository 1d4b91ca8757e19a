--------------------------- MODULE SRTSocketAsync ---------------------------
(***************************************************************************)
(* SRTSocketAsync (src/srt-socket-async.ts) as SRTClientConnection         *)
(* (src/srt-client.ts) completes it: the life cycle of one object that     *)
(* owns a native socket and an AsyncSRT, whose methods all await calls of  *)
(* that AsyncSRT and may be called while others are at such an await.      *)
(***************************************************************************)
EXTENDS CallLoop, FiniteSets

CONSTANTS
    Fds,         \* the file descriptors that srt_create_socket() may return
    Creates,     \* invocations of create()
    Null,        \* the value of _socket before create() and after dispose()
    Success,     \* the result of a native function that has no other to give
    Failed       \* the result of one that threw: SRT_ERROR, -1

ASSUME SocketAssumption ==
    /\ {Null, Success, Failed, Undefined, Rejected} \intersect Fds = {}
    /\ {Undefined, Rejected} \intersect {Success, Failed} = {}
    /\ Null # Failed
    /\ Creates \intersect {"flagged", "connected", "transferred", "closed"} = {}

VARIABLES
    native,            \* each native socket: "none", "open", "connected", "closed"
    socket,            \* _socket
    startedToDispose,  \* _startedToDispose
    creator,           \* each create(): "uncalled", "awaiting", or how it ended
    flagger,           \* setSocketFlags(), with two flags
    opener,            \* open()
    transfer,          \* one read() or write() of the client
    disposer,          \* dispose(): "uncalled", "closing", "waiting", "terminating", "done"
    overlapped         \* whether a method was ever called while another was pending

objectVars == <<socket, startedToDispose, creator, flagger, opener, transfer, disposer, overlapped>>
vars == <<native, loopVars, objectVars>>

Init ==
    /\ LoopInit
    /\ native = [fd \in Fds |-> "none"]
    /\ socket = Null
    /\ startedToDispose = FALSE
    /\ creator = [k \in Creates |-> "uncalled"]
    /\ flagger = "uncalled"
    /\ opener = "uncalled"
    /\ transfer = "uncalled"
    /\ disposer = "uncalled"
    /\ overlapped = FALSE

-----------------------------------------------------------------------------
(* The worker.                                                              *)

IsConnected(s) == s \in Fds /\ native[s] = "connected"
IsOpen(s) == s \in Fds /\ native[s] \in {"open", "connected"}

CreateSocket(result) ==
    \/ /\ result \in Fds
       /\ native[result] = "none"
       /\ native' = [native EXCEPT ![result] = "open"]
    \/ /\ result = Failed
       /\ UNCHANGED native

\* connect() closes the socket when it fails, which it does on one that is
\* connected already.
Connect(s, result) ==
    IF IsOpen(s)
      THEN \/ /\ ~IsConnected(s)
              /\ result = Success
              /\ native' = [native EXCEPT ![s] = "connected"]
           \/ result = Failed /\ native' = [native EXCEPT ![s] = "closed"]
      ELSE result = Failed /\ UNCHANGED native

\* setSockFlag() leaves the state of the socket alone.
SetFlag(s, result) ==
    /\ result \in {Success, Failed}
    /\ result = Success => IsOpen(s)
    /\ UNCHANGED native

\* So do read() and write().  On a connected socket they may also never return:
\* see TransferWaits.
Use(s, result) ==
    /\ result \in {Success, Failed}
    /\ result = Success => IsConnected(s)
    /\ UNCHANGED native

Close(s, result) ==
    IF IsOpen(s)
      THEN result = Success /\ native' = [native EXCEPT ![s] = "closed"]
      ELSE result = Failed /\ UNCHANGED native

Perform(c, result) ==
    CASE c.op = "createSocket" -> CreateSocket(result)
      [] c.op = "connect"      -> Connect(c.socket, result)
      [] c.op = "setSockFlag"  -> SetFlag(c.socket, result)
      [] c.op = "transfer"     -> Use(c.socket, result)
      [] c.op = "close"        -> Close(c.socket, result)

WorkerPerforms ==
    /\ calls # <<>>
    /\ \E result \in Fds \union {Success, Failed} :
         /\ Perform(Head(calls), result)
         /\ Performed(result)
    /\ UNCHANGED objectVars

MainThreadAnswered ==
    /\ AnswerArrives
    /\ UNCHANGED <<native, objectVars>>

-----------------------------------------------------------------------------
(* The methods.  The user may call one while others are pending.            *)

Pending ==
    \/ \E k \in Creates : creator[k] = "awaiting"
    \/ flagger = "awaiting"
    \/ opener = "awaiting"
    \/ transfer = "awaiting"
    \/ disposer \in {"closing", "waiting", "terminating"}

UserCalls == Idle /\ overlapped' = (overlapped \/ Pending)

Create(k) ==
    /\ UserCalls
    /\ creator[k] = "uncalled"
    /\ \/ /\ socket # Null
          /\ creator' = [creator EXCEPT ![k] = "threw"]
          /\ PostsNothing(resumed)
       \/ /\ socket = Null
          /\ startedToDispose
          /\ creator' = [creator EXCEPT ![k] = "null"]
          /\ PostsNothing(resumed)
       \/ /\ socket = Null
          /\ ~startedToDispose
          /\ creator' = [creator EXCEPT ![k] = "awaiting"]
          /\ Posts(<<Call("createSocket", Null, k)>>, resumed)
    /\ UNCHANGED <<native, asyncSrt, answers, socket, startedToDispose, flagger, opener,
                   transfer, disposer>>

\* Neither SRT_ERROR nor a disposal in the meantime is looked at.
Created(k) ==
    /\ Resumes(k)
    /\ socket' = Result
    /\ creator' = [creator EXCEPT ![k] = "created"]
    /\ PostsNothing(Rest)
    /\ UNCHANGED <<native, asyncSrt, answers, startedToDispose, flagger, opener,
                   transfer, disposer, overlapped>>

FlagCall == Call("setSockFlag", socket, "flagged")

\* The promise of the last flag: Promise.all() resolves.
FlaggingEnds == \A i \in 1..Len(InFlight \o Rest) : (InFlight \o Rest)[i].k # "flagged"

\* The second value may be an invalid passphrase: the method throws, and the
\* first flag is still being set.
SetSocketFlags ==
    /\ UserCalls
    /\ flagger = "uncalled"
    /\ \/ /\ socket = Null
          /\ flagger' = "threw"
          /\ PostsNothing(resumed)
       \/ /\ socket # Null
          /\ startedToDispose
          /\ flagger' = "nothing"
          /\ PostsNothing(resumed)
       \/ /\ socket # Null
          /\ ~startedToDispose
          /\ \/ flagger' = "awaiting" /\ Posts(<<FlagCall, FlagCall>>, resumed)
             \/ flagger' = "threw" /\ Posts(<<FlagCall>>, resumed)
    /\ UNCHANGED <<native, asyncSrt, answers, socket, startedToDispose, creator, opener,
                   transfer, disposer>>

FlagsSet ==
    /\ Resumes("flagged")
    /\ flagger' = IF flagger = "awaiting" /\ FlaggingEnds THEN "done" ELSE flagger
    /\ PostsNothing(Rest)
    /\ UNCHANGED <<native, asyncSrt, answers, socket, startedToDispose, creator, opener,
                   transfer, disposer, overlapped>>

\* Mutant of Open: startedToDispose is not looked at.
OpenUnchecked ==
    /\ UserCalls
    /\ opener = "uncalled"
    /\ socket # Null
    /\ opener' = "awaiting"
    /\ Posts(<<Call("connect", socket, "connected")>>, resumed)
    /\ UNCHANGED <<native, asyncSrt, answers, socket, startedToDispose, creator, flagger,
                   transfer, disposer>>

Open ==
    /\ UserCalls
    /\ opener = "uncalled"
    /\ \/ /\ socket = Null
          /\ opener' = "threw"
          /\ PostsNothing(resumed)
       \/ /\ socket # Null
          /\ startedToDispose
          /\ opener' = "null"
          /\ PostsNothing(resumed)
       \/ /\ socket # Null
          /\ ~startedToDispose
          /\ opener' = "awaiting"
          /\ Posts(<<Call("connect", socket, "connected")>>, resumed)
    /\ UNCHANGED <<native, asyncSrt, answers, socket, startedToDispose, creator, flagger,
                   transfer, disposer>>

Connected ==
    /\ Resumes("connected")
    /\ opener' = IF Result = Failed THEN "threw" ELSE "opened"
    /\ PostsNothing(Rest)
    /\ UNCHANGED <<native, asyncSrt, answers, socket, startedToDispose, creator, flagger,
                   transfer, disposer, overlapped>>

\* startedToDispose is not looked at.
Transfer ==
    /\ UserCalls
    /\ transfer = "uncalled"
    /\ IF socket = Null
         THEN transfer' = "refused" /\ PostsNothing(resumed)
         ELSE /\ transfer' = "awaiting"
              /\ Posts(<<Call("transfer", socket, "transferred")>>, resumed)
    /\ UNCHANGED <<native, asyncSrt, answers, socket, startedToDispose, creator, flagger,
                   opener, disposer>>

Transferred ==
    /\ Resumes("transferred")
    /\ transfer' = IF Result = Rejected THEN "refused" ELSE "done"
    /\ PostsNothing(Rest)
    /\ UNCHANGED <<native, asyncSrt, answers, socket, startedToDispose, creator, flagger,
                   opener, disposer, overlapped>>

\* Mutant of Dispose: the flag is only set once the socket is closed.
DisposeFlaggingLate ==
    /\ UserCalls
    /\ disposer = "uncalled"
    /\ startedToDispose' = (socket = Null)
    /\ IF socket = Null
         THEN disposer' = "done" /\ PostsNothing(resumed)
         ELSE /\ disposer' = "closing"
              /\ Posts(<<Call("close", socket, "closed")>>, resumed)
    /\ UNCHANGED <<native, asyncSrt, answers, socket, creator, flagger, opener, transfer>>

\* Called again it does nothing.
Dispose ==
    /\ UserCalls
    /\ ~startedToDispose
    /\ startedToDispose' = TRUE
    /\ IF socket = Null
         THEN disposer' = "done" /\ PostsNothing(resumed)
         ELSE /\ disposer' = "closing"
              /\ Posts(<<Call("close", socket, "closed")>>, resumed)
    /\ UNCHANGED <<native, asyncSrt, answers, socket, creator, flagger, opener, transfer>>

\* Mutant of SocketClosed: the calls in flight are dropped.
SocketClosedAtOnce ==
    /\ Resumes("closed")
    /\ asyncSrt' = "disposed"
    /\ disposer' = "terminating"
    /\ calls' = <<>>
    /\ answers' = <<>>
    /\ resumed' = Rest
    /\ UNCHANGED <<native, socket, startedToDispose, creator, flagger, opener, transfer,
                   overlapped>>

\* The result of close() is dropped; AsyncSRT.dispose() waits for the calls in
\* flight.
SocketClosed ==
    /\ Resumes("closed")
    /\ asyncSrt' = IF InFlight = <<>> THEN "disposed" ELSE "disposing"
    /\ disposer' = IF InFlight = <<>> THEN "terminating" ELSE "waiting"
    /\ PostsNothing(Rest)
    /\ UNCHANGED <<native, answers, socket, startedToDispose, creator, flagger, opener,
                   transfer, overlapped>>

DisposeProceed ==
    /\ Idle
    /\ disposer = "waiting"
    /\ InFlight = <<>>
    /\ asyncSrt' = "disposed"
    /\ disposer' = "terminating"
    /\ UNCHANGED <<native, calls, answers, resumed, socket, startedToDispose, creator, flagger,
                   opener, transfer, overlapped>>

\* Mutant of WorkerExited: the socket stays set.
WorkerExitedKeepingSocket ==
    /\ Idle
    /\ disposer = "terminating"
    /\ disposer' = "done"
    /\ UNCHANGED <<native, loopVars, socket, startedToDispose, creator, flagger, opener,
                   transfer, overlapped>>

WorkerExited ==
    /\ Idle
    /\ disposer = "terminating"
    /\ disposer' = "done"
    /\ socket' = Null
    /\ UNCHANGED <<native, loopVars, startedToDispose, creator, flagger, opener, transfer,
                   overlapped>>

Continuations ==
    \/ \E k \in Creates : Created(k)
    \/ FlagsSet
    \/ Connected
    \/ Transferred
    \/ SocketClosed

Next ==
    \/ WorkerPerforms
    \/ MainThreadAnswered
    \/ \E k \in Creates : Create(k)
    \/ SetSocketFlags
    \/ Open
    \/ Transfer
    \/ Dispose
    \/ Continuations
    \/ DisposeProceed
    \/ WorkerExited

Spec == Init /\ [][Next]_vars

(* The worker is in a native read() that waits for data, or in a write()    *)
(* that waits for room (SRTO_RCVSYN and SRTO_SNDSYN are on by default):     *)
(* the connection need never give it what it waits for.                     *)
TransferWaits ==
    /\ calls # <<>>
    /\ Head(calls).op = "transfer"
    /\ IsConnected(Head(calls).socket)

(* The event loop keeps running, and so does the worker in every other call.*)
(* The user need call nothing.                                              *)
Fairness ==
    /\ WF_vars(~TransferWaits /\ WorkerPerforms)
    /\ WF_vars(MainThreadAnswered)
    /\ WF_vars(Continuations)
    /\ WF_vars(DisposeProceed)
    /\ WF_vars(WorkerExited)

FairSpec == Spec /\ Fairness

-----------------------------------------------------------------------------
(* Properties.                                                              *)

TypeOK ==
    /\ native \in [Fds -> {"none", "open", "connected", "closed"}]
    /\ socket \in Fds \union {Null, Failed}
    /\ startedToDispose \in BOOLEAN
    /\ creator \in [Creates -> {"uncalled", "awaiting", "created", "threw", "null"}]
    /\ flagger \in {"uncalled", "awaiting", "done", "threw", "nothing"}
    /\ opener \in {"uncalled", "awaiting", "opened", "threw", "null"}
    /\ transfer \in {"uncalled", "awaiting", "done", "refused"}
    /\ disposer \in {"uncalled", "closing", "waiting", "terminating", "done"}
    /\ startedToDispose <=> disposer # "uncalled"
    /\ overlapped \in BOOLEAN

(* However the calls overlap, nothing that creates, opens or configures a   *)
(* socket is queued behind the close() of dispose(), so that no such call   *)
(* finds its AsyncSRT disposed of; a read or a write that is queued there    *)
(* fails.                                                                   *)
NothingBehindClose ==
    /\ \A i, j \in 1..Len(InFlight) :
         i < j /\ InFlight[i].k = "closed" => InFlight[j].k = "transferred"
    /\ \A i \in 1..Len(resumed) :
         resumed[i].result \in {Undefined, Rejected} => resumed[i].k = "transferred"

(* As long as no calls have overlapped, the object owns at most one native  *)
(* socket, the one it names, and none after dispose(), even if create() or  *)
(* open() has failed, or setSocketFlags() left a call behind.               *)
OwnsWhatItNames ==
    ~overlapped /\ ~Pending =>
        /\ \A fd \in Fds : IsOpen(fd) => socket = fd
        /\ disposer = "done" => socket = Null

(* The worker never returns from a read() or a write().                     *)
WorkerStuck == <>[]TransferWaits

(* Every method settles, however calls overlap and whatever fails, unless   *)
(* the worker is held for ever by a native read() or write(): then neither  *)
(* that call nor a dispose() behind it settles.                             *)
EveryCallSettles == WorkerStuck \/ (Pending ~> ~Pending)

=============================================================================
