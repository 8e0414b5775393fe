------------------------------- MODULE Semaphore -------------------------------
(***************************************************************************)
(* The counting semaphore of thread/semaphore.h: a count and a condition     *)
(* variable under one mutex.  What happens under the mutex is one step; a    *)
(* thread that returns from cond_.wait tests the count again in a later one. *)
(* The count is 32 bits wide in the code, far more than the tasks or         *)
(* messages a process can hold: here it is a natural number.                 *)
(***************************************************************************)
EXTENDS Integers, FiniteSets

CONSTANT Threads  \* those that call Wait

VARIABLES count_,
          sleeping,  \* threads inside cond_.wait
          woken      \* threads that left it and have not tested count_ since

semVars == <<count_, sleeping, woken>>

SemTypeOK == /\ count_ \in Nat
             /\ sleeping \in SUBSET Threads
             /\ woken \in SUBSET (Threads \ sleeping)

SemInit == /\ count_ = 0
           /\ sleeping = {}
           /\ woken = {}

Wake(threads) == /\ sleeping' = sleeping \ threads
                 /\ woken' = woken \cup threads

(* Mutant: never notify_all. *)
PostNotifiesOne(n) ==
    /\ count_' = count_ + n
    /\ \/ sleeping = {} /\ UNCHANGED <<sleeping, woken>>
       \/ \E t \in sleeping : Wake({t})

Post(n) == /\ count_' = count_ + n
           /\ \/ n = 1 /\ sleeping = {} /\ UNCHANGED <<sleeping, woken>>
              \/ n = 1 /\ \E t \in sleeping : Wake({t})
              \/ n # 1 /\ Wake(sleeping)

(* Mutant: tests the count once, before it sleeps. *)
WaitTrustsWakeup(t) == /\ t \notin sleeping
                       /\ count_ > 0 \/ t \in woken
                       /\ count_' = count_ - 1
                       /\ woken' = woken \ {t}
                       /\ UNCHANGED sleeping

(* Wait of thread t returns. *)
Wait(t) == /\ t \notin sleeping
           /\ count_ > 0
           /\ count_' = count_ - 1
           /\ woken' = woken \ {t}
           /\ UNCHANGED sleeping

(* Wait of thread t finds nothing: it goes to sleep, for the first time or again. *)
Sleep(t) == /\ t \notin sleeping
            /\ count_ = 0
            /\ sleeping' = sleeping \cup {t}
            /\ woken' = woken \ {t}
            /\ UNCHANGED count_

(* cond_.wait may return without a notification. *)
SpuriousWakeup(t) == /\ t \in sleeping
                     /\ Wake({t})
                     /\ UNCHANGED count_
================================================================================
