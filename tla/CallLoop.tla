------------------------------ MODULE CallLoop ------------------------------
(***************************************************************************)
(* What the classes built on AsyncSRT see of it, as AsyncCalls specifies   *)
(* it: calls are performed by the worker in the order they were made, and  *)
(* answered in that order, some time later.  A call names the socket it is *)
(* about and the continuation that its answer resumes.  Resumptions are    *)
(* microtasks: nothing else happens on the main thread before all of them  *)
(* have run.                                                               *)
(***************************************************************************)
EXTENDS Integers, Sequences

CONSTANTS
    Undefined,  \* what a call made during the disposal of the AsyncSRT gives
    Rejected    \* what a call made after it gives

VARIABLES
    asyncSrt,   \* "live", "disposing" (startedToDispose), "disposed"
    calls,      \* calls made and not performed yet
    answers,    \* calls performed, whose answers are on their way
    resumed     \* continuations whose await has completed

loopVars == <<asyncSrt, calls, answers, resumed>>

Call(op, s, k) == [op |-> op, socket |-> s, k |-> k]
Resumption(k, s, r) == [k |-> k, socket |-> s, result |-> r]

LoopInit ==
    /\ asyncSrt = "live"
    /\ calls = <<>>
    /\ answers = <<>>
    /\ resumed = <<>>

\* Nothing runs on the main thread: the next event can be taken.
Idle == resumed = <<>>

\* Calls not answered yet, in the order of their answers.
InFlight == answers \o calls

\* The running code makes newCalls; "rest" is what is left of the resumptions.
Posts(newCalls, rest) ==
    IF asyncSrt = "live"
      THEN /\ calls' = calls \o newCalls
           /\ resumed' = rest
      ELSE /\ calls' = calls
           /\ resumed' = rest \o [i \in 1..Len(newCalls) |->
                Resumption(newCalls[i].k, newCalls[i].socket,
                           IF asyncSrt = "disposing" THEN Undefined ELSE Rejected)]

\* The running code makes no call.
PostsNothing(rest) ==
    /\ resumed' = rest
    /\ UNCHANGED calls

\* The worker performs the next call, which gives this result.
Performed(result) ==
    /\ calls' = Tail(calls)
    /\ answers' = Append(answers, Resumption(Head(calls).k, Head(calls).socket, result))
    /\ UNCHANGED <<asyncSrt, resumed>>

AnswerArrives ==
    /\ Idle
    /\ answers # <<>>
    /\ resumed' = <<Head(answers)>>
    /\ answers' = Tail(answers)
    /\ UNCHANGED <<asyncSrt, calls>>

-----------------------------------------------------------------------------
(* What code on the main thread and the worker may do to the loop, one call *)
(* at a time: C are the calls there may be, R the results.                  *)

\* The running continuation may end in the step, or go on.
Going == {resumed} \union (IF Idle THEN {} ELSE {Tail(resumed)})

MakesCall(C) ==
    /\ \E c \in C, rest \in Going : Posts(<<c>>, rest)
    /\ UNCHANGED <<asyncSrt, answers>>

Ends ==
    /\ ~Idle
    /\ PostsNothing(Tail(resumed))
    /\ UNCHANGED <<asyncSrt, answers>>

WorkerPerformsOne(R) == calls # <<>> /\ \E result \in R : Performed(result)

\* dispose() waits for the calls in flight, and makes the others wait for nothing.
DisposeStarts ==
    /\ asyncSrt = "live"
    /\ asyncSrt' = IF InFlight = <<>> THEN "disposed" ELSE "disposing"
    /\ resumed' \in Going
    /\ UNCHANGED <<calls, answers>>

DisposeEnds ==
    /\ Idle
    /\ asyncSrt = "disposing"
    /\ InFlight = <<>>
    /\ asyncSrt' = "disposed"
    /\ UNCHANGED <<calls, answers, resumed>>

LoopTurn(C, R) ==
    MakesCall(C) \/ Ends \/ WorkerPerformsOne(R) \/ AnswerArrives \/ DisposeStarts \/ DisposeEnds

-----------------------------------------------------------------------------
\* The next continuation to run is k.
Resumes(k) == resumed # <<>> /\ Head(resumed).k = k
Result == Head(resumed).result
Socket == Head(resumed).socket
Rest == Tail(resumed)

=============================================================================
