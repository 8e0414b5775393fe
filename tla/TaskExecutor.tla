----------------------------- MODULE TaskExecutor -----------------------------
(***************************************************************************)
(* What a TaskExecutor promises (thread/task_executor.h), whatever wakes    *)
(* and schedules it: items are executed one at a time from the head of one  *)
(* queue, Async puts an item last, AsyncFirst may put it ahead of others,    *)
(* and while the executor is active the queue keeps moving until an Exit     *)
(* item has been executed, after which it stops.                             *)
(***************************************************************************)
EXTENDS Integers, Sequences

CONSTANTS Items, Exit

VARIABLES queue,    \* items accepted and not yet executed, next one first
          active,   \* a thread is executing items
          closing   \* an Exit was executed since the executor was started

vars == <<queue, active, closing>>

Init == /\ queue = <<>>
        /\ active = FALSE
        /\ closing \in BOOLEAN

Async == /\ \E x \in Items : queue' = Append(queue, x)
         /\ UNCHANGED <<active, closing>>

(* x goes ahead of every item after the first k, for some k. *)
Overtake(x, k) == queue' = SubSeq(queue, 1, k) \o <<x>>
                             \o SubSeq(queue, k + 1, Len(queue))

AsyncFirst == /\ \E x \in Items : \E k \in 0..Len(queue) : Overtake(x, k)
              /\ UNCHANGED <<active, closing>>

Start == /\ ~active
         /\ active' = TRUE
         /\ closing' = FALSE
         /\ UNCHANGED queue

(* The destructor executes the backlog on its own thread, behind one more   *)
(* Exit.                                                                     *)
Destroy == /\ ~active
           /\ active' = TRUE
           /\ Overtake(Exit, 0)
           /\ UNCHANGED closing

Execute == /\ active
           /\ queue # <<>>
           /\ queue' = Tail(queue)
           /\ closing' = (closing \/ Head(queue) = Exit)
           /\ UNCHANGED active

Stop == /\ active
        /\ closing
        /\ active' = FALSE
        /\ UNCHANGED <<queue, closing>>

Next == Async \/ AsyncFirst \/ Start \/ Destroy \/ Execute \/ Stop

Spec == Init /\ [][Next]_vars

FairSpec == Spec /\ WF_vars(Execute) /\ WF_vars(Stop)

================================================================================
