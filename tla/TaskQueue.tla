------------------------------- MODULE TaskQueue -------------------------------
(***************************************************************************)
(* thread/task_queue.h: a list of tasks under a mutex and a semaphore that   *)
(* counts them, and also the permits with which PostExit tells workers to    *)
(* end.  Nothing in src/ uses the queue: the workers here are the loop that  *)
(* the parameter of PostExit, waiting_thread_num, is meant for:              *)
(* while (GetTask(f)) f().                                                   *)
(***************************************************************************)
EXTENDS Semaphore, Sequences

CONSTANTS Tasks,    \* each is added once
          NoTask,
          MaxExits  \* bound on the permits of PostExit

Workers == Threads

ASSUME QueueAssumption == /\ NoTask \notin Tasks
                          /\ MaxExits \in Nat
                          /\ IsFiniteSet(Workers) /\ Workers # {}

VARIABLES tasks_,
          unposted,  \* tasks that were put in tasks_ and whose Post is to come
          added,     \* tasks that AddTask or AddTaskFirst put in tasks_
          pc,        \* of each worker
          f,         \* the task it was given
          done,      \* tasks executed
          exits,     \* permits of PostExit so far
          owed       \* history: the tasks added before the first of them

queueVars == <<tasks_, unposted, added>>
workVars  == <<pc, f, done>>
exitVars  == <<exits, owed>>

vars == <<semVars, queueVars, workVars, exitVars>>
--------------------------------------------------------------------------------
Init == /\ SemInit
        /\ tasks_ = <<>>
        /\ unposted = {}
        /\ added = {}
        /\ pc = [w \in Workers |-> "wait"]
        /\ f = [w \in Workers |-> NoTask]
        /\ done = {}
        /\ exits = 0
        /\ owed = {}

Put(t) == /\ t \notin added
          /\ added' = added \cup {t}
          /\ UNCHANGED <<semVars, workVars, exitVars>>

AddTask(t) == /\ Put(t)
              /\ tasks_' = Append(tasks_, t)
              /\ unposted' = unposted \cup {t}

(* Mutant: without the Post. *)
AddTaskFirstSilently(t) == /\ Put(t)
                           /\ tasks_' = <<t>> \o tasks_
                           /\ UNCHANGED unposted

AddTaskFirst(t) == /\ Put(t)
                   /\ tasks_' = <<t>> \o tasks_
                   /\ unposted' = unposted \cup {t}

(* The second half of both, after the mutex. *)
PostTask(t) == /\ t \in unposted
               /\ unposted' = unposted \ {t}
               /\ Post(1)
               /\ UNCHANGED <<tasks_, added, workVars, exitVars>>

PostExit(n) == /\ exits + n <= MaxExits
               /\ exits' = exits + n
               /\ owed' = IF exits = 0 THEN added ELSE owed
               /\ Post(n)
               /\ UNCHANGED <<queueVars, workVars>>
--------------------------------------------------------------------------------
(* GetTask.                                                                  *)

WaitReturns(w) == /\ pc[w] = "wait"
                  /\ Wait(w)
                  /\ pc' = [pc EXCEPT ![w] = "pop"]
                  /\ UNCHANGED <<f, done, queueVars, exitVars>>

WaitSleeps(w) == /\ pc[w] = "wait"
                 /\ Sleep(w)
                 /\ UNCHANGED <<workVars, queueVars, exitVars>>

WakesUp(w) == /\ SpuriousWakeup(w)
              /\ UNCHANGED <<workVars, queueVars, exitVars>>

PopTask(w) == /\ pc[w] = "pop"
              /\ tasks_ # <<>>
              /\ f' = [f EXCEPT ![w] = Head(tasks_)]
              /\ tasks_' = Tail(tasks_)
              /\ pc' = [pc EXCEPT ![w] = "run"]
              /\ UNCHANGED <<done, semVars, unposted, added, exitVars>>

(* Mutant: a worker ends as soon as it is told to. *)
ReturnFalseAtOnce(w) == /\ pc[w] = "pop"
                        /\ tasks_ = <<>> \/ exits > 0
                        /\ pc' = [pc EXCEPT ![w] = "ended"]
                        /\ UNCHANGED <<f, done, semVars, queueVars, exitVars>>

ReturnFalse(w) == /\ pc[w] = "pop"
                  /\ tasks_ = <<>>
                  /\ pc' = [pc EXCEPT ![w] = "ended"]
                  /\ UNCHANGED <<f, done, semVars, queueVars, exitVars>>

(* The worker has executed its task and calls GetTask again. *)
TaskEnds(w) == /\ pc[w] = "run"
               /\ done' = done \cup {f[w]}
               /\ f' = [f EXCEPT ![w] = NoTask]
               /\ pc' = [pc EXCEPT ![w] = "wait"]
               /\ UNCHANGED <<semVars, queueVars, exitVars>>

WorkerSteps(w) == \/ WaitReturns(w)
                  \/ WaitSleeps(w)
                  \/ PopTask(w)
                  \/ ReturnFalse(w)
                  \/ TaskEnds(w)

Next == \/ \E t \in Tasks : AddTask(t) \/ AddTaskFirst(t) \/ PostTask(t)
        \/ \E n \in 1..MaxExits : PostExit(n)
        \/ \E w \in Workers : WorkerSteps(w) \/ WakesUp(w)

Spec == Init /\ [][Next]_vars

(* A caller inside AddTask finishes it, and tasks return.  A worker in Wait  *)
(* competes for the permits with the others: the count may be used up each   *)
(* time it looks, which only matters when there are too few.                 *)
FairSpec == /\ Spec
            /\ \A t \in Tasks : WF_vars(PostTask(t))
            /\ \A w \in Workers : WF_vars(WorkerSteps(w))
--------------------------------------------------------------------------------
TypeOK == /\ SemTypeOK
          /\ tasks_ \in Seq(added)
          /\ unposted \in SUBSET added
          /\ added \in SUBSET Tasks
          /\ pc \in [Workers -> {"wait", "pop", "run", "ended"}]
          /\ f \in [Workers -> added \cup {NoTask}]
          /\ \A w \in Workers : f[w] = NoTask <=> pc[w] # "run"
          /\ done \in SUBSET added
          /\ exits \in 0..MaxExits
          /\ owed \in SUBSET added

At(label) == {w \in Workers : pc[w] = label}

AllEnded == At("ended") = Workers

(* Permits and what they stand for balance at every step of AddTask, GetTask *)
(* and PostExit, although a worker may take a task with a permit meant for   *)
(* another one or for an exit.  So GetTask never returns false but for a     *)
(* permit of PostExit, and no task is left without a permit.                 *)
PermitsBalance ==
    count_ + Cardinality(At("pop")) + Cardinality(unposted)
      = Len(tasks_) + exits - Cardinality(At("ended"))

(* As long as a worker sleeps in Wait, every permit has another one on its   *)
(* way to it: notify_one is not too little for Post(1), nor is what a thief   *)
(* leaves behind (Semaphore::Post, Semaphore::Wait).                         *)
NoLostWakeup == sleeping # {} => count_ <= Cardinality(woken)

(* Workers that were told to end leave nothing behind that was added before. *)
NothingAbandoned == AllEnded => owed \subseteq done
================================================================================
