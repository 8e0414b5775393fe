------------------------------- MODULE WorkerPool -------------------------------
(***************************************************************************)
(* A ThreadGroup of workers around a TaskQueue, the pool that net/socket.cpp  *)
(* does without ("WorkerPool", in Socket::Connect) and that these two classes *)
(* are made for.  The owner creates workers, adds tasks, gives exit permits   *)
(* and calls JoinAll; a task may call JoinAll, too.                           *)
(***************************************************************************)
EXTENDS TaskQueue, ThreadGroup

ASSUME PoolAssumption == Members = Workers

poolVars == <<vars, groupVars>>

PoolInit == Init /\ GroupInit

Created(w) == id[w] # NoId
Runs(w) == Created(w) /\ pc[w] # "ended"

IdsInUse == {id[w] : w \in {v \in Workers : Runs(v) \/ v \in joinable}}

Creates(w) == \E i \in Ids \ IdsInUse : CreateThread(w, i)

Owns == /\ \/ \E w \in Workers : \/ Creates(w)
                                 \/ Detach(w)
                                 \/ RemoveThread(w)
           \/ JoinAll(Owner)
           \/ DestroyGroup
        /\ UNCHANGED vars

(* The rest of JoinAll, which waits for one thread after the other. *)
Joins == /\ JoinReturns \/ \E w \in Workers : ~Runs(w) /\ JoinMember(w)
         /\ UNCHANGED vars

(* A worker, unless its task is inside JoinAll; a task of a member may call it. *)
Works(w) == Created(w) /\ id[w] # joiner /\ WorkerSteps(w) /\ UNCHANGED groupVars

CallsJoinAll(w) == /\ Runs(w) /\ pc[w] = "run" /\ id[w] \in DOMAIN threads_
                   /\ JoinAll(id[w])
                   /\ UNCHANGED vars

PoolPosts(t) == PostTask(t) /\ UNCHANGED groupVars

PoolNext ==
    /\ ~terminated
    /\ \/ Owns
       \/ Joins
       \/ \E w \in Workers : \/ Works(w)
                             \/ CallsJoinAll(w)
                             \/ WakesUp(w) /\ UNCHANGED groupVars
       \/ \E t \in Tasks : \/ AddTask(t) /\ UNCHANGED groupVars
                           \/ AddTaskFirst(t) /\ UNCHANGED groupVars
                           \/ PoolPosts(t)
       \/ \E n \in 1..MaxExits : PostExit(n) /\ UNCHANGED groupVars

PoolSpec == PoolInit /\ [][PoolNext]_poolVars

(* As FairSpec of TaskQueue, and JoinAll goes on when a thread has ended.     *)
PoolFairSpec ==
    /\ PoolSpec
    /\ \A t \in Tasks : WF_poolVars(~terminated /\ PoolPosts(t))
    /\ \A w \in Workers : WF_poolVars(~terminated /\ Works(w))
    /\ WF_poolVars(~terminated /\ Joins)
--------------------------------------------------------------------------------
PoolTypeOK == TypeOK /\ GroupTypeOK /\ \A w \in Workers : ~Created(w) => pc[w] = "wait"

(* A task that was added is executed unless all workers end, or there is none *)
(* (AddTask, GetTask; a worker is created at some time).                      *)
PoolTasksRun ==
    \A t \in Tasks :
        (t \in added /\ \E w \in Workers : Created(w))
            ~> (t \in done \/ terminated \/ \A w \in Workers : ~Runs(w))

(* With an exit permit for each worker JoinAll returns, whoever called it, and *)
(* all workers that were not detached have ended then.                        *)
JoinAllReturns ==
    (joiner # NoId /\ exits >= Cardinality(Workers))
        ~> \/ terminated
           \/ joiner = NoId /\ threads_ = <<>> /\ \A w \in joinable : ~Runs(w)
================================================================================
