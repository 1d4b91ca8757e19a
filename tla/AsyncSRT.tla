------------------------------ MODULE AsyncSRT ------------------------------
(***************************************************************************)
(* The asynchronous API: class AsyncSRT (src/async-api.ts) on the main     *)
(* thread, and the task-runner (src/async-worker.ts) on the worker thread  *)
(* that owns the native SRT bindings.                                      *)
(*                                                                         *)
(* A call is one invocation of an API method.  The main thread queues a    *)
(* callback and posts a message; the worker runs the native call of each   *)
(* message in order and posts one answer per message; the main thread      *)
(* hands each answer to the callback at the head of the queue.  Answers    *)
(* carry no identity: who an answer belongs to is only known by position.  *)
(*                                                                         *)
(* What a native call returns is abstracted to the call it came from and   *)
(* to whether it threw (the set "failed").                                 *)
(***************************************************************************)
EXTENDS Integers, Sequences, FiniteSets

CONSTANTS
    Calls,         \* invocations of API methods
    TimeoutCalls,  \* those made with useTimeout (only accept() offers it)
    Writes,        \* those made through write(), which transfer a buffer
    Neutered,      \* the writes whose buffer is already detached when they are made
    Blocking,      \* those whose native call may never return (no peer, no data)
    NoCall         \* no call

ASSUME CallsAssumption ==
    /\ IsFiniteSet(Calls)
    /\ NoCall \notin Calls
    /\ TimeoutCalls \subseteq Calls
    /\ Writes \subseteq Calls
    /\ Neutered \subseteq Writes
    /\ Blocking \subseteq Calls
    /\ TimeoutCalls \intersect Writes = {}

VARIABLES
    promise,            \* what the caller of each method holds
    answer,             \* the call whose result resolved the promise
    cbAnswer,           \* the call whose result was passed to the user's callback
    timers,             \* calls whose timeout is armed
    lockLevel,          \* _createAsyncWorkPromiseLockLevel
    workCbQueue,        \* _workCbQueue, a callback being named by its call
    lastError,          \* _error, named by the call that threw it
    startedToDispose,   \* _startedToDispose
    worker,             \* _worker: "attached" or "null"
    disposer,           \* where the first dispose() is
    repeatDispose,      \* what a later dispose() resolved to
    inbox,              \* messages posted to the worker, not taken yet
    busy,               \* the call the worker is executing
    outbox,             \* answers posted to the main thread, not delivered yet
    thread,             \* the worker thread: "running", "stopping", "exited"
    executed,           \* calls whose native function has been entered
    failed              \* calls whose native function has thrown

mainVars   == <<promise, answer, cbAnswer, timers, lockLevel, workCbQueue, lastError>>
disposeVars == <<startedToDispose, worker, disposer, repeatDispose>>
workerVars == <<inbox, busy, outbox, thread, executed, failed>>
vars == <<mainVars, disposeVars, workerVars>>

(***************************************************************************)
(* "refused": rejected or thrown before anything was queued;               *)
(* "nothing": the method returned undefined instead of a promise;          *)
(* "unposted": rejected because postMessage() threw.                       *)
(***************************************************************************)
PromiseStates == {"uncalled", "refused", "nothing", "pending",
                  "resolved", "timedOut", "unposted"}
Settled == PromiseStates \ {"uncalled", "pending"}

TypeOK ==
    /\ promise \in [Calls -> PromiseStates]
    /\ answer \in [Calls -> Calls \union {NoCall}]
    /\ cbAnswer \in [Calls -> Calls \union {NoCall}]
    /\ timers \subseteq Calls
    /\ lockLevel \in Int
    /\ workCbQueue \in Seq(Calls)
    /\ lastError \in Calls \union {NoCall}
    /\ startedToDispose \in BOOLEAN
    /\ worker \in {"attached", "null"}
    /\ disposer \in {"idle", "waiting", "terminating", "done"}
    /\ repeatDispose \in {"none", "NaN", "exitCode"}
    /\ inbox \in Seq(Calls)
    /\ busy \in Calls \union {NoCall}
    /\ outbox \in Seq(Calls)
    /\ thread \in {"running", "stopping", "exited"}
    /\ executed \subseteq Calls
    /\ failed \subseteq Calls

isDisposed == worker = "null"

Init ==
    /\ promise = [c \in Calls |-> "uncalled"]
    /\ answer = [c \in Calls |-> NoCall]
    /\ cbAnswer = [c \in Calls |-> NoCall]
    /\ timers = {}
    /\ lockLevel = 0
    /\ workCbQueue = <<>>
    /\ lastError = NoCall
    /\ startedToDispose = FALSE
    /\ worker = "attached"
    /\ disposer = "idle"
    /\ repeatDispose = "none"
    /\ inbox = <<>>
    /\ busy = NoCall
    /\ outbox = <<>>
    /\ thread = "running"
    /\ executed = {}
    /\ failed = {}

-----------------------------------------------------------------------------
(* The main thread: _createAsyncWorkPromise and _postAsyncWork.            *)

Return(c, s) == promise' = [promise EXCEPT ![c] = s]

CallAfterDispose(c) ==
    /\ promise[c] = "uncalled"
    /\ isDisposed
    /\ Return(c, "refused")
    /\ UNCHANGED <<answer, cbAnswer, timers, lockLevel, workCbQueue, lastError>>
    /\ UNCHANGED <<disposeVars, workerVars>>

CallWhileDisposing(c) ==
    /\ promise[c] = "uncalled"
    /\ ~isDisposed
    /\ startedToDispose
    /\ Return(c, "nothing")
    /\ UNCHANGED <<answer, cbAnswer, timers, lockLevel, workCbQueue, lastError>>
    /\ UNCHANGED <<disposeVars, workerVars>>

\* The lock taken on entry is given back before the throw.
CallWithUndefinedArg(c) ==
    /\ promise[c] = "uncalled"
    /\ ~isDisposed
    /\ ~startedToDispose
    /\ Return(c, "refused")
    /\ UNCHANGED <<answer, cbAnswer, timers, lockLevel, workCbQueue, lastError>>
    /\ UNCHANGED <<disposeVars, workerVars>>

CallPosted(c) ==
    /\ promise[c] = "uncalled"
    /\ ~isDisposed
    /\ ~startedToDispose
    /\ c \notin Neutered
    /\ Return(c, "pending")
    /\ lockLevel' = lockLevel + 1
    /\ timers' = IF c \in TimeoutCalls THEN timers \union {c} ELSE timers
    /\ workCbQueue' = Append(workCbQueue, c)
    /\ inbox' = Append(inbox, c)
    /\ UNCHANGED <<answer, cbAnswer, lastError>>
    /\ UNCHANGED disposeVars
    /\ UNCHANGED <<busy, outbox, thread, executed, failed>>

\* postMessage() throws on a detached buffer, and the callback is already queued.
CallNotCloned(c) ==
    /\ promise[c] = "uncalled"
    /\ ~isDisposed
    /\ ~startedToDispose
    /\ c \in Neutered
    /\ Return(c, "unposted")
    /\ lockLevel' = lockLevel + 1
    /\ workCbQueue' = Append(workCbQueue, c)
    /\ UNCHANGED <<answer, cbAnswer, timers, lastError>>
    /\ UNCHANGED <<disposeVars, workerVars>>

-----------------------------------------------------------------------------
(* The worker thread.                                                      *)

WorkerTake ==
    /\ thread # "exited"
    /\ busy = NoCall
    /\ inbox # <<>>
    /\ busy' = Head(inbox)
    /\ inbox' = Tail(inbox)
    /\ executed' = executed \union {Head(inbox)}
    /\ UNCHANGED <<outbox, thread, failed>>
    /\ UNCHANGED <<mainVars, disposeVars>>

\* Mutant of WorkerReply: what throws is not answered.
WorkerReplyUnlessThrown(threw) ==
    /\ busy # NoCall
    /\ busy' = NoCall
    /\ failed' = IF threw THEN failed \union {busy} ELSE failed
    /\ outbox' = IF thread = "running" /\ ~threw THEN Append(outbox, busy) ELSE outbox
    /\ UNCHANGED <<inbox, thread, executed>>
    /\ UNCHANGED <<mainVars, disposeVars>>

\* terminate() cannot interrupt a native call, but nothing runs after it.
WorkerReply(threw) ==
    /\ busy # NoCall
    /\ busy' = NoCall
    /\ failed' = IF threw THEN failed \union {busy} ELSE failed
    /\ outbox' = IF thread = "running" THEN Append(outbox, busy) ELSE outbox
    /\ UNCHANGED <<inbox, thread, executed>>
    /\ UNCHANGED <<mainVars, disposeVars>>

-----------------------------------------------------------------------------
(* The main thread again: answers, timeouts and disposal.                  *)

\* Mutant of OnResult: the rejected flag is not looked at.
OnResultIgnoringTimeout(c, r) ==
    /\ cbAnswer' = [cbAnswer EXCEPT ![c] = r]
    /\ timers' = timers \ {c}
    /\ lockLevel' = lockLevel - 1
    /\ Return(c, "resolved")
    /\ answer' = [answer EXCEPT ![c] = r]

\* onResult of call c, invoked with the result of call r.
OnResult(c, r) ==
    /\ cbAnswer' = [cbAnswer EXCEPT ![c] = r]
    /\ IF promise[c] = "timedOut"
         THEN UNCHANGED <<promise, answer, timers, lockLevel>>
         ELSE /\ timers' = timers \ {c}
              /\ lockLevel' = lockLevel - 1
              /\ IF promise[c] = "pending"
                   THEN /\ Return(c, "resolved")
                        /\ answer' = [answer EXCEPT ![c] = r]
                   ELSE UNCHANGED <<promise, answer>>

\* Mutants of StoredError: only the first is kept; an answer without an error
\* overwrites it.
StoredErrorFirstOnly(r) == IF lastError = NoCall /\ r \in failed THEN r ELSE lastError
StoredErrorReset(r) == IF r \in failed THEN r ELSE "undefined"

\* _error is overwritten by every answer that carries an error, and never cleared.
StoredError(r) == IF r \in failed THEN r ELSE lastError

\* Mutant of ShiftedCallback: pop() for shift().
ShiftedCallbackPop == workCbQueue[Len(workCbQueue)]
ShiftedCallback == Head(workCbQueue)

OnWorkerMessage ==
    /\ outbox # <<>>
    /\ outbox' = Tail(outbox)
    /\ IF isDisposed
         THEN UNCHANGED mainVars
         ELSE /\ lastError' = StoredError(Head(outbox))
              /\ IF workCbQueue = <<>>
                   THEN UNCHANGED <<promise, answer, cbAnswer, timers, lockLevel, workCbQueue>>
                   ELSE /\ workCbQueue' = Tail(workCbQueue)
                        /\ OnResult(ShiftedCallback, Head(outbox))
    /\ UNCHANGED disposeVars
    /\ UNCHANGED <<inbox, busy, thread, executed, failed>>

\* Mutant of Timeout: the lock level is left alone.
TimeoutKeepingLock(c) ==
    /\ c \in timers
    /\ timers' = timers \ {c}
    /\ promise' = [promise EXCEPT ![c] = IF @ = "pending" THEN "timedOut" ELSE @]
    /\ UNCHANGED <<lockLevel, answer, cbAnswer, workCbQueue, lastError>>
    /\ UNCHANGED <<disposeVars, workerVars>>

\* Mutant of Timeout: the callback is taken out of the queue.
TimeoutDroppingCallback(c) ==
    /\ c \in timers
    /\ timers' = timers \ {c}
    /\ promise' = [promise EXCEPT ![c] = IF @ = "pending" THEN "timedOut" ELSE @]
    /\ lockLevel' = lockLevel - 1
    /\ workCbQueue' = SelectSeq(workCbQueue, LAMBDA d : d # c)
    /\ UNCHANGED <<answer, cbAnswer, lastError>>
    /\ UNCHANGED <<disposeVars, workerVars>>

Timeout(c) ==
    /\ c \in timers
    /\ timers' = timers \ {c}
    /\ promise' = [promise EXCEPT ![c] = IF @ = "pending" THEN "timedOut" ELSE @]
    /\ lockLevel' = lockLevel - 1
    /\ UNCHANGED <<answer, cbAnswer, workCbQueue, lastError>>
    /\ UNCHANGED <<disposeVars, workerVars>>

\* The tail of dispose(): drop the worker, flush the queue, terminate.
Detach ==
    /\ worker' = "null"
    /\ workCbQueue' = <<>>
    /\ thread' = "stopping"
    /\ disposer' = "terminating"
    /\ UNCHANGED <<promise, answer, cbAnswer, timers, lockLevel, lastError>>
    /\ UNCHANGED <<inbox, busy, outbox, executed, failed>>

\* Mutant of Dispose: it does not wait for the calls in flight.
DisposeAtOnce ==
    /\ ~startedToDispose
    /\ startedToDispose' = TRUE
    /\ UNCHANGED repeatDispose
    /\ Detach

Dispose ==
    /\ ~startedToDispose
    /\ startedToDispose' = TRUE
    /\ UNCHANGED repeatDispose
    /\ IF 0 < lockLevel
         THEN /\ disposer' = "waiting"
              /\ UNCHANGED worker
              /\ UNCHANGED <<mainVars, workerVars>>
         ELSE Detach

\* waitForCondition() polls the lock level every 5 ms.
DisposeProceed ==
    /\ disposer = "waiting"
    /\ lockLevel <= 0
    /\ Detach
    /\ UNCHANGED <<startedToDispose, repeatDispose>>

\* The thread exits once the native call it was in, if any, has returned.
Terminated ==
    /\ disposer = "terminating"
    /\ busy = NoCall
    /\ thread' = "exited"
    /\ disposer' = "done"
    /\ inbox' = <<>>
    /\ UNCHANGED <<startedToDispose, worker, repeatDispose>>
    /\ UNCHANGED <<busy, outbox, executed, failed>>
    /\ UNCHANGED mainVars

DisposeAgain ==
    /\ startedToDispose
    /\ repeatDispose = "none"
    /\ repeatDispose' = IF disposer = "done" THEN "exitCode" ELSE "NaN"
    /\ UNCHANGED <<startedToDispose, worker, disposer>>
    /\ UNCHANGED <<mainVars, workerVars>>

(* What the async method write() makes of the promise it awaits: a number  *)
(* of bytes unless the result is SRT_ERROR, an exception otherwise.        *)
\* Mutant of WriteReports: the result is not compared with SRT_ERROR.
WriteReportsUnchecked(c) == promise[c] \in {"nothing", "resolved"}

WriteReports(c) ==
    \/ promise[c] = "nothing"
    \/ promise[c] = "resolved" /\ answer[c] \notin failed

WriteThrows(c) ==
    \/ promise[c] \in {"refused", "unposted"}
    \/ promise[c] = "resolved" /\ answer[c] \in failed

Call(c) ==
    \/ CallAfterDispose(c)
    \/ CallWhileDisposing(c)
    \/ CallWithUndefinedArg(c)
    \/ CallPosted(c)
    \/ CallNotCloned(c)

Next ==
    \/ \E c \in Calls : Call(c) \/ Timeout(c)
    \/ WorkerTake
    \/ \E threw \in BOOLEAN : WorkerReply(threw)
    \/ OnWorkerMessage
    \/ Dispose
    \/ DisposeProceed
    \/ Terminated
    \/ DisposeAgain

Spec == Init /\ [][Next]_vars

(* The worker and both event loops keep running; a timer that is armed      *)
(* fires; a native call returns unless it waits for a peer or for data.     *)
Fairness ==
    /\ WF_vars(WorkerTake)
    /\ WF_vars(busy \notin Blocking /\ \E threw \in BOOLEAN : WorkerReply(threw))
    /\ WF_vars(OnWorkerMessage)
    /\ WF_vars(DisposeProceed)
    /\ WF_vars(Terminated)
    /\ \A c \in Calls : WF_vars(Timeout(c))

FairSpec == Spec /\ Fairness

-----------------------------------------------------------------------------
(* Properties.                                                             *)

Unposted == {c \in Calls : promise[c] = "unposted"}

\* Messages on their way through the worker, the next to be answered first.
Pipeline == outbox \o (IF busy = NoCall THEN <<>> ELSE <<busy>>) \o inbox

(* Until a postMessage() throws, the callback queue is, position by         *)
(* position, the list of messages in flight: the only thing that makes an   *)
(* answer without identity reach the call it belongs to.                    *)
Aligned == Unposted = {} /\ ~isDisposed => workCbQueue = Pipeline

(* Until a postMessage() throws, no promise and no user callback ever gets  *)
(* the result of another call, timeouts and disposal included.              *)
OwnAnswer ==
    Unposted = {} => \A c \in Calls : /\ answer[c] \in {c, NoCall}
                                     /\ cbAnswer[c] \in {c, NoCall}

(* Every postMessage() that throws leaves one callback too many, for the    *)
(* rest of the instance's life: the queue never realigns by itself.         *)
QueueExcess ==
    ~isDisposed => Len(workCbQueue) = Len(Pipeline) + Cardinality(Unposted)

OccursIn(c, queue) == \E i \in 1..Len(queue) : queue[i] = c

\* The calls that dispose() has to wait for.
Holders ==
    {c \in Calls : \/ promise[c] = "pending"
                   \/ promise[c] = "unposted" /\ OccursIn(c, workCbQueue)}

(* The lock level counts exactly the calls that are still owed an answer:   *)
(* a timeout and a late answer do not both give the lock back.              *)
LockCounts == lockLevel = Cardinality(Holders)

(* dispose() never drops the worker while a promise is unsettled: flushing  *)
(* the callback queue leaves nobody waiting for ever.                       *)
NoneStranded == isDisposed => \A c \in Calls : promise[c] # "pending"

(* A write that reports its bytes before the disposal began was executed    *)
(* by the native binding and did not fail there.                            *)
ReportedWriteWasSent ==
    Unposted = {} =>
      \A c \in Writes : WriteReports(c) /\ promise[c] # "nothing" => c \in executed \ failed

\* The worker stays for ever in a native call that never returns.
WorkerStuck == <>[](busy \in Blocking)

\* A postMessage() throws, and answers reach the wrong callers from then on.
MessageRefused == <>(Unposted # {})

(* Every promise the API hands out is settled in the end, by an answer or   *)
(* by its timeout, unless the worker is stuck in a native call that never   *)
(* returns or a message was refused; and even then if the call was made     *)
(* with a timeout.                                                          *)
EveryCallSettles ==
    \A c \in Calls : \/ (WorkerStuck \/ MessageRefused) /\ c \notin TimeoutCalls
                     \/ promise[c] = "pending" ~> promise[c] \in Settled

(* dispose() completes: the calls in flight give the lock back and the      *)
(* thread exits, unless the worker is stuck in a native call or a refused   *)
(* message has kept the lock.                                               *)
DisposeCompletes ==
    \/ WorkerStuck
    \/ MessageRefused
    \/ startedToDispose ~> disposer = "done"

-----------------------------------------------------------------------------
(* The channel of calls that AsyncSRT implements.                           *)

StatusOf(c) ==
    CASE promise[c] = "uncalled" -> "new"
      [] promise[c] = "pending" -> "open"
      [] promise[c] = "timedOut" -> "givenUp"
      [] promise[c] = "resolved" -> IF answer[c] = c THEN "answered" ELSE "mixedUp"
      [] OTHER -> "refused"

Channel == INSTANCE AsyncCalls WITH
    status <- [c \in Calls |-> StatusOf(c)],
    todo <- inbox,
    performed <- outbox \o (IF busy = NoCall THEN <<>> ELSE <<busy>>),
    phase <- IF isDisposed THEN "closed" ELSE IF startedToDispose THEN "closing" ELSE "open"

(* AsyncSRT implements the channel of calls, order included, as long as     *)
(* every buffer given to write() can be posted.                             *)
ImplementsChannel ==
    /\ Channel!Init
    /\ [][Unposted' = {} => Channel!Next]_(Channel!vars)

-----------------------------------------------------------------------------
(* What documents say and the code does not do.                             *)

(* Documented: a write() that fails resolves to SRT_ERROR, the promise is   *)
(* not rejected (src/async-api.ts, comments of getError and of write).      *)
FailedWriteResolves == \A c \in Writes : c \in failed => ~WriteThrows(c)

=============================================================================
