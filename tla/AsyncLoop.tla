----------------------------- MODULE AsyncLoop -----------------------------
(***************************************************************************)
(* AsyncSRT with the continuations of those who await its promises.  They  *)
(* are microtasks: when a promise has settled, what awaits it runs before  *)
(* the event loop takes a message or a timer.  AsyncSRT is shown to be the *)
(* loop of calls, answers and continuations of CallLoop, on which the      *)
(* models of SRTServer, SRTSocketAsync and AsyncReaderWriter are built.    *)
(***************************************************************************)
EXTENDS AsyncSRT

CONSTANTS
    Success, Failed,     \* what a native call gives, and SRT_ERROR
    Undefined, Rejected  \* what a call gives that was made during or after the disposal

VARIABLE
    resumed   \* calls whose promise has settled and whose continuation has not run

turnVars == <<vars, resumed>>

TurnInit == Init /\ resumed = <<>>

Idle == resumed = <<>>

\* The running continuation may end in the step, or go on.
Going == {resumed} \union (IF Idle THEN {} ELSE {Tail(resumed)})

CallsLive(c) ==
    /\ CallPosted(c)
    /\ resumed' \in Going

\* There is no promise to await.
CallThrows(c) ==
    /\ CallWithUndefinedArg(c)
    /\ resumed' \in Going

\* The promise has settled already when it is awaited.
CallsInVain(c) ==
    /\ CallWhileDisposing(c) \/ CallAfterDispose(c) \/ CallNotCloned(c)
    /\ \E rest \in Going : resumed' = Append(rest, c)

Returns ==
    /\ ~Idle
    /\ resumed' = Tail(resumed)
    /\ UNCHANGED vars

\* A late answer resumes nobody.
MessageArrives ==
    /\ Idle
    /\ OnWorkerMessage
    /\ resumed' = IF ~isDisposed /\ workCbQueue # <<>> /\ promise[ShiftedCallback] = "pending"
                    THEN <<ShiftedCallback>>
                    ELSE <<>>

TimerFires(c) ==
    /\ Idle
    /\ Timeout(c)
    /\ resumed' = <<c>>

Disposes ==
    /\ Dispose
    /\ resumed' \in Going

\* The worker thread, and what the event loop does for a disposal.
Elsewhere ==
    /\ \/ WorkerTake
       \/ \E threw \in BOOLEAN : WorkerReply(threw)
       \/ Idle /\ (DisposeProceed \/ Terminated)
       \/ DisposeAgain
    /\ UNCHANGED resumed

TurnNext ==
    \/ \E c \in Calls : CallsLive(c) \/ CallThrows(c) \/ CallsInVain(c) \/ TimerFires(c)
    \/ Returns
    \/ MessageArrives
    \/ Disposes
    \/ Elsewhere

TurnSpec == TurnInit /\ [][TurnNext]_turnVars

-----------------------------------------------------------------------------
(* The loop that AsyncSRT implements.                                       *)

Outcome(c) == IF c \in failed THEN Failed ELSE Success

\* What the continuation of a settled call is given.
Given(c) ==
    CASE promise[c] = "nothing"  -> Undefined
      [] promise[c] = "resolved" -> Outcome(answer[c])
      [] OTHER                   -> Rejected

\* A call names itself and is about nothing else.
Asked == [c \in Calls |-> [op |-> "call", socket |-> c, k |-> c]]
Answered == [c \in Calls |-> [k |-> c, socket |-> c, result |-> Outcome(c)]]
Continued == [c \in Calls |-> [k |-> c, socket |-> c, result |-> Given(c)]]

Each(f, queue) == [i \in 1..Len(queue) |-> f[queue[i]]]

\* Those the worker has not answered, the one it performs first.
Unanswered == (IF busy = NoCall THEN <<>> ELSE <<busy>>) \o inbox

Loop == INSTANCE CallLoop WITH
    asyncSrt <- IF isDisposed THEN "disposed" ELSE IF startedToDispose THEN "disposing" ELSE "live",
    calls <- Each(Asked, Unanswered),
    answers <- Each(Answered, outbox),
    resumed <- Each(Continued, resumed)

\* No call has timed out, and no message was refused.
Undisturbed == \A c \in Calls : promise[c] \notin {"timedOut", "unposted"}

(* AsyncSRT, with its callback queue, its lock level and a worker behind    *)
(* two message queues, is the loop that the classes above it are modelled   *)
(* on: answers in the order of the calls and each with its own result, one  *)
(* continuation after the other, and a disposal that waits for all calls in *)
(* flight and for nothing else.  Those classes ask for no timeout and write *)
(* no buffer twice.                                                         *)
ImplementsLoop ==
    /\ Loop!LoopInit
    /\ [][Undisturbed' => Loop!LoopTurn({Asked[c] : c \in Calls}, {Success, Failed})
         ]_(Loop!loopVars)

(* When the continuation of a call that was given SRT_ERROR comes to run,   *)
(* getError() is still the error of the call with that result, although     *)
(* there is one _error for all calls in flight and late answers change it.  *)
ErrorIsOwn ==
    \A i \in 1..Len(resumed) :
        LET c == resumed[i]
        IN promise[c] = "resolved" /\ answer[c] \in failed => lastError = answer[c]

=============================================================================
