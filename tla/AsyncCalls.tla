----------------------------- MODULE AsyncCalls -----------------------------
(***************************************************************************)
(* What the asynchronous API promises its users, with neither queues of    *)
(* callbacks nor threads: every call that is accepted is performed at most *)
(* once and in the order of acceptance; what was performed is answered in  *)
(* that order and with its own result, unless its timeout has given it up; *)
(* and the channel closes only when no accepted call is left open.         *)
(* AsyncSRT is shown to implement it, and the classes built on AsyncSRT    *)
(* rely on it (CallLoop).                                                  *)
(***************************************************************************)
EXTENDS Integers, Sequences

CONSTANTS Calls, TimeoutCalls

VARIABLES
    status,     \* of each call
    todo,       \* accepted calls not performed yet, in order
    performed,  \* calls performed whose answer has not come, in order
    phase       \* "open", "closing" or "closed"

vars == <<status, todo, performed, phase>>

TypeOK ==
    /\ status \in [Calls -> {"new", "open", "answered", "givenUp", "refused"}]
    /\ todo \in Seq(Calls)
    /\ performed \in Seq(Calls)
    /\ phase \in {"open", "closing", "closed"}

Init ==
    /\ status = [c \in Calls |-> "new"]
    /\ todo = <<>>
    /\ performed = <<>>
    /\ phase = "open"

Become(c, before, after) ==
    /\ status[c] = before
    /\ status' = [status EXCEPT ![c] = after]

Submit(c) ==
    /\ phase = "open"
    /\ Become(c, "new", "open")
    /\ todo' = Append(todo, c)
    /\ UNCHANGED <<performed, phase>>

Refuse(c) ==
    /\ Become(c, "new", "refused")
    /\ UNCHANGED <<todo, performed, phase>>

Perform ==
    /\ todo # <<>>
    /\ todo' = Tail(todo)
    /\ performed' = Append(performed, Head(todo))
    /\ UNCHANGED <<status, phase>>

Answer ==
    /\ performed # <<>>
    /\ performed' = Tail(performed)
    /\ Become(Head(performed), "open", "answered")
    /\ UNCHANGED <<todo, phase>>

GiveUp(c) ==
    /\ c \in TimeoutCalls
    /\ Become(c, "open", "givenUp")
    /\ UNCHANGED <<todo, performed, phase>>

\* A late answer goes nowhere.
AnswerLate ==
    /\ performed # <<>>
    /\ performed' = Tail(performed)
    /\ status[Head(performed)] # "open"
    /\ UNCHANGED <<status, todo, phase>>

StartClosing ==
    /\ phase = "open"
    /\ phase' = "closing"
    /\ UNCHANGED <<status, todo, performed>>

Close ==
    /\ phase # "closed"
    /\ \A c \in Calls : status[c] # "open"
    /\ phase' = "closed"
    /\ UNCHANGED <<status, todo, performed>>

\* What was given up may never be performed, or not be answered even late.
Discard ==
    /\ phase = "closed"
    /\ \/ todo' = <<>> /\ UNCHANGED performed
       \/ /\ performed # <<>>
          /\ performed' = SubSeq(performed, 1, Len(performed) - 1)
          /\ UNCHANGED todo
    /\ UNCHANGED <<status, phase>>

Next ==
    \/ \E c \in Calls : Submit(c) \/ Refuse(c) \/ GiveUp(c)
    \/ Perform
    \/ Answer \/ AnswerLate
    \/ StartClosing
    \/ Close
    \/ Discard

Spec == Init /\ [][Next]_vars

=============================================================================
