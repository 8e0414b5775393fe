--------------------------- MODULE WorkerPoolProofs ----------------------------
(***************************************************************************)
(* TaskQueue for any number of tasks, workers and permits: the permits        *)
(* balance, no wakeup is lost, and nothing is abandoned when workers end.     *)
(* Then a pool, which uses its TaskQueue as the specification of that         *)
(* component allows, so that what is proved of the queue holds within it.     *)
(***************************************************************************)
EXTENDS WorkerPool, SequenceTheorems, FiniteSetTheorems, TLAPS

LEMMA SemNext ==
    ASSUME SemTypeOK,
           \/ \E n \in Nat : Post(n)
           \/ \E t \in Threads : Wait(t) \/ Sleep(t) \/ SpuriousWakeup(t)
           \/ UNCHANGED semVars
    PROVE  SemTypeOK'
<1>1. ASSUME NEW n \in Nat, Post(n) PROVE SemTypeOK'
  BY <1>1 DEF SemTypeOK, Post, Wake
<1>2. ASSUME NEW t \in Threads, Wait(t) \/ Sleep(t) \/ SpuriousWakeup(t)
      PROVE  SemTypeOK'
  BY <1>2 DEF SemTypeOK, Wait, Sleep, SpuriousWakeup, Wake
<1>3. CASE UNCHANGED semVars
  BY <1>3 DEF SemTypeOK, semVars
<1> QED
  BY <1>1, <1>2, <1>3

(* What a task put at either end does to the list. *)
LEMMA PutType ==
    ASSUME NEW S, NEW s \in Seq(S), NEW t
    PROVE  /\ Append(s, t) \in Seq(S \cup {t})
           /\ <<t>> \o s \in Seq(S \cup {t})
           /\ Len(Append(s, t)) = Len(s) + 1
           /\ Len(<<t>> \o s) = Len(s) + 1
<1>1. <<t>> \in Seq(S \cup {t}) /\ Len(<<t>>) = 1
  OBVIOUS
<1>2. s \in Seq(S \cup {t})
  OBVIOUS
<1> QED
  BY <1>1, <1>2, AppendProperties, ConcatProperties, LenProperties

LEMMA TypeNext == TypeOK /\ [Next]_vars => TypeOK'
<1> SUFFICES ASSUME TypeOK, [Next]_vars
             PROVE  TypeOK'
  OBVIOUS
<1> USE DEF TypeOK, queueVars, workVars, exitVars, Workers
<1>1. ASSUME NEW t \in Tasks, AddTask(t) \/ AddTaskFirst(t) PROVE TypeOK'
  <2>1. /\ tasks_' \in Seq(added')
        /\ added' = added \cup {t}
        /\ unposted' = unposted \cup {t}
    <3>1. \/ tasks_' = Append(tasks_, t)
          \/ tasks_' = <<t>> \o tasks_
      BY <1>1 DEF AddTask, AddTaskFirst
    <3>2. /\ Append(tasks_, t) \in Seq(added \cup {t})
          /\ <<t>> \o tasks_ \in Seq(added \cup {t})
      <4>1. tasks_ \in Seq(added)
        OBVIOUS
      <4> HIDE DEF TypeOK
      <4> QED
        BY <4>1, PutType
    <3> QED
      BY <1>1, <3>1, <3>2 DEF AddTask, AddTaskFirst, Put
  <2> QED
    BY <1>1, <2>1, SemNext DEF AddTask, AddTaskFirst, Put
<1>2. ASSUME NEW t \in Tasks, PostTask(t) PROVE TypeOK'
  BY <1>2, SemNext DEF PostTask
<1>3. ASSUME NEW n \in 1..MaxExits, PostExit(n) PROVE TypeOK'
  <2>1. SemTypeOK'
    BY <1>3, SemNext, QueueAssumption DEF PostExit
  <2> QED
    BY <1>3, <2>1, QueueAssumption DEF PostExit
<1>4. ASSUME NEW w \in Workers, WaitReturns(w) PROVE TypeOK'
  BY <1>4, SemNext DEF WaitReturns
<1>5. ASSUME NEW w \in Workers, WaitSleeps(w) PROVE TypeOK'
  BY <1>5, SemNext DEF WaitSleeps
<1>6. ASSUME NEW w \in Workers, WakesUp(w) PROVE TypeOK'
  BY <1>6, SemNext DEF WakesUp
<1>7. ASSUME NEW w \in Workers, PopTask(w) PROVE TypeOK'
  <2>1. Head(tasks_) \in added /\ Tail(tasks_) \in Seq(added)
    BY <1>7, HeadTailProperties DEF PopTask
  <2>2. Head(tasks_) # NoTask
    BY <2>1, QueueAssumption
  <2> QED
    BY <1>7, <2>1, <2>2, SemNext DEF PopTask
<1>8. ASSUME NEW w \in Workers, ReturnFalse(w) PROVE TypeOK'
  BY <1>8, SemNext DEF ReturnFalse
<1>9. ASSUME NEW w \in Workers, TaskEnds(w) PROVE TypeOK'
  BY <1>9, SemNext DEF TaskEnds
<1>10. CASE UNCHANGED vars
  BY <1>10, SemNext DEF vars
<1> QED
  BY <1>1, <1>2, <1>3, <1>4, <1>5, <1>6, <1>7, <1>8, <1>9, <1>10
     DEF Next, WorkerSteps

LEMMA TypeInit == Init => TypeOK
  BY EmptySeq, QueueAssumption DEF Init, SemInit, TypeOK, SemTypeOK

(* Every variable of the queue keeps its type; a worker holds a task exactly  *)
(* while it executes it, one that was added.                                  *)
THEOREM TypeCorrect == Spec => []TypeOK
  BY TypeInit, TypeNext, PTL DEF Spec
--------------------------------------------------------------------------------
WakeupInv == TypeOK /\ NoLostWakeup

(* The sets of threads are finite. *)
LEMMA Counts ==
    ASSUME SemTypeOK
    PROVE  IsFiniteSet(woken) /\ Cardinality(woken) \in Nat
  BY FS_Subset, FS_CardinalityType, QueueAssumption DEF SemTypeOK, Workers

LEMMA SemWakeup ==
    ASSUME SemTypeOK, NoLostWakeup,
           \/ \E n \in Nat : Post(n)
           \/ \E t \in Threads : Wait(t) \/ Sleep(t) \/ SpuriousWakeup(t)
           \/ UNCHANGED semVars
    PROVE  NoLostWakeup'
<1> USE Counts DEF NoLostWakeup, SemTypeOK
<1>1. ASSUME NEW n \in Nat, Post(n) PROVE NoLostWakeup'
  <2>1. CASE sleeping' = {}
    BY <2>1
  <2>2. CASE n = 1 /\ \E t \in sleeping : Wake({t})
    <3>1. PICK t \in sleeping : Wake({t})
      BY <2>2
    <3>2. Cardinality(woken') = Cardinality(woken) + 1
      BY <3>1, FS_AddElement DEF Wake
    <3> QED
      BY <1>1, <2>2, <3>1, <3>2 DEF Post
  <2> QED
    BY <1>1, <2>1, <2>2 DEF Post, Wake
<1>2. ASSUME NEW t \in Threads, Wait(t) PROVE NoLostWakeup'
  <2>1. Cardinality(woken') >= Cardinality(woken) - 1
    <3>1. woken' = woken \ {t}
      BY <1>2 DEF Wait
    <3>2. \/ Cardinality(woken') = Cardinality(woken) - 1
          \/ Cardinality(woken') = Cardinality(woken)
      BY <3>1, FS_RemoveElement
    <3> QED
      BY <3>2
  <2>2. Cardinality(woken') \in Nat
    BY <1>2, FS_RemoveElement, FS_CardinalityType DEF Wait
  <2> QED
    BY <1>2, <2>1, <2>2 DEF Wait
<1>3. ASSUME NEW t \in Threads, Sleep(t) PROVE NoLostWakeup'
  <2>1. Cardinality(woken') \in Nat
    BY <1>3, FS_RemoveElement, FS_CardinalityType DEF Sleep
  <2> QED
    BY <1>3, <2>1 DEF Sleep
<1>4. ASSUME NEW t \in Threads, SpuriousWakeup(t) PROVE NoLostWakeup'
  <2>1. Cardinality(woken') = Cardinality(woken) + 1
    BY <1>4, FS_AddElement DEF SpuriousWakeup, Wake
  <2> QED
    BY <1>4, <2>1 DEF SpuriousWakeup, Wake
<1>5. CASE UNCHANGED semVars
  BY <1>5 DEF semVars
<1> QED
  BY <1>1, <1>2, <1>3, <1>4, <1>5

(* How a step of the queue uses the semaphore. *)
LEMMA StepOfSemaphore ==
    ASSUME [Next]_vars
    PROVE  \/ \E n \in Nat : Post(n)
           \/ \E t \in Threads : Wait(t) \/ Sleep(t) \/ SpuriousWakeup(t)
           \/ UNCHANGED semVars
<1>1. ASSUME NEW n \in 1..MaxExits, PostExit(n) PROVE n \in Nat /\ Post(n)
  BY <1>1, QueueAssumption DEF PostExit
<1>2. ASSUME NEW t \in Tasks, PostTask(t) PROVE Post(1)
  BY <1>2 DEF PostTask
<1>3. ASSUME NEW t \in Tasks, AddTask(t) \/ AddTaskFirst(t) PROVE UNCHANGED semVars
  BY <1>3 DEF AddTask, AddTaskFirst, Put
<1>4. ASSUME NEW w \in Workers, WorkerSteps(w) \/ WakesUp(w)
      PROVE  Wait(w) \/ Sleep(w) \/ SpuriousWakeup(w) \/ UNCHANGED semVars
  BY <1>4 DEF WorkerSteps, WaitReturns, WaitSleeps, WakesUp, PopTask, ReturnFalse,
              TaskEnds
<1>5. CASE UNCHANGED vars
  BY <1>5 DEF vars
<1> QED
  BY <1>1, <1>2, <1>3, <1>4, <1>5 DEF Next, Workers

(* While a worker sleeps every permit has a wakeup on its way, for any number *)
(* of workers: Post(1) may notify only one of them.                           *)
THEOREM WakeupCorrect == Spec => []NoLostWakeup
<1>1. Init => WakeupInv
  BY TypeInit DEF Init, SemInit, WakeupInv, NoLostWakeup
<1>2. WakeupInv /\ [Next]_vars => WakeupInv'
  BY TypeNext, StepOfSemaphore, SemWakeup DEF WakeupInv, TypeOK
<1> QED
  BY <1>1, <1>2, PTL DEF Spec, WakeupInv
--------------------------------------------------------------------------------
BalanceInv == TypeOK /\ IsFiniteSet(unposted) /\ PermitsBalance

LEMMA AtFinite ==
    ASSUME NEW label
    PROVE  IsFiniteSet(At(label)) /\ Cardinality(At(label)) \in Nat
<1>1. At(label) \in SUBSET Workers
  BY DEF At
<1> QED
  BY <1>1, FS_Subset, FS_CardinalityType, QueueAssumption

(* A worker moves from one label to another. *)
LEMMA Moves ==
    ASSUME TypeOK, NEW w \in Workers, NEW old, NEW new, old # new, pc[w] = old,
           pc' = [pc EXCEPT ![w] = new]
    PROVE  /\ Cardinality(At(old)') = Cardinality(At(old)) - 1
           /\ Cardinality(At(new)') = Cardinality(At(new)) + 1
<1> USE DEF At, TypeOK
<1>1. At(old)' = At(old) \ {w} /\ w \in At(old)
  OBVIOUS
<1>2. At(new)' = At(new) \cup {w} /\ w \notin At(new)
  OBVIOUS
<1>3. /\ IsFiniteSet(At(old)) /\ Cardinality(At(old)) \in Nat
      /\ IsFiniteSet(At(new)) /\ Cardinality(At(new)) \in Nat
  BY AtFinite
<1> HIDE DEF At, TypeOK
<1>4. Cardinality(At(old)') = Cardinality(At(old)) - 1
  BY <1>1, <1>3, FS_RemoveElement
<1>5. Cardinality(At(new)') = Cardinality(At(new)) + 1
  BY <1>2, <1>3, FS_AddElement
<1> QED
  BY <1>4, <1>5

(* How the terms of PermitsBalance move in a step that keeps it.              *)
LEMMA StillBalanced ==
    ASSUME NEW c \in Nat, NEW p \in Nat, NEW u \in Nat,
           NEW t \in Nat, NEW x \in Nat, NEW e \in Nat,
           c + p + u = t + x - e
    PROVE  /\ \A n \in Nat : (c + n) + p + u = t + (x + n) - e
           /\ (c - 1) + (p + 1) + u = t + x - e
           /\ c + (p - 1) + u = (t - 1) + x - e
           /\ c + (p - 1) + u = t + x - (e + 1)
  OBVIOUS

LEMMA BalanceNext == BalanceInv /\ [Next]_vars => BalanceInv'
<1> SUFFICES ASSUME BalanceInv, [Next]_vars
             PROVE  IsFiniteSet(unposted)' /\ PermitsBalance'
  BY TypeNext DEF BalanceInv
<1>0. /\ TypeOK
      /\ count_ \in Nat
      /\ Len(tasks_) \in Nat
      /\ exits \in Nat
      /\ Cardinality(unposted) \in Nat
      /\ Cardinality(At("pop")) \in Nat
      /\ Cardinality(At("ended")) \in Nat
      /\ count_ + Cardinality(At("pop")) + Cardinality(unposted)
            = Len(tasks_) + exits - Cardinality(At("ended"))
  BY AtFinite, LenProperties, FS_CardinalityType, QueueAssumption
     DEF BalanceInv, TypeOK, SemTypeOK, PermitsBalance
<1>f. IsFiniteSet(unposted)
  BY DEF BalanceInv
<1>m. /\ \A n \in Nat : (count_ + n) + Cardinality(At("pop")) + Cardinality(unposted)
                          = Len(tasks_) + (exits + n) - Cardinality(At("ended"))
      /\ (count_ - 1) + (Cardinality(At("pop")) + 1) + Cardinality(unposted)
            = Len(tasks_) + exits - Cardinality(At("ended"))
      /\ count_ + (Cardinality(At("pop")) - 1) + Cardinality(unposted)
            = (Len(tasks_) - 1) + exits - Cardinality(At("ended"))
      /\ count_ + (Cardinality(At("pop")) - 1) + Cardinality(unposted)
            = Len(tasks_) + exits - (Cardinality(At("ended")) + 1)
  <2> DEFINE p == Cardinality(At("pop"))
             u == Cardinality(unposted)
             t == Len(tasks_)
             e == Cardinality(At("ended"))
  <2>1. /\ count_ \in Nat /\ p \in Nat /\ u \in Nat
        /\ t \in Nat /\ exits \in Nat /\ e \in Nat
        /\ count_ + p + u = t + exits - e
    BY <1>0
  <2> HIDE DEF p, u, t, e
  <2>2. /\ \A n \in Nat : (count_ + n) + p + u = t + (exits + n) - e
        /\ (count_ - 1) + (p + 1) + u = t + exits - e
        /\ count_ + (p - 1) + u = (t - 1) + exits - e
        /\ count_ + (p - 1) + u = t + exits - (e + 1)
    BY <2>1, StillBalanced
  <2> QED
    BY <2>2 DEF p, u, t, e
<1> USE <1>0, <1>f DEF queueVars, workVars, exitVars
<1>1. ASSUME NEW t \in Tasks, AddTask(t) \/ AddTaskFirst(t)
      PROVE  IsFiniteSet(unposted)' /\ PermitsBalance'
  <2>1. IsFiniteSet(unposted') /\ Cardinality(unposted') = Cardinality(unposted) + 1
    <3>1. t \notin unposted /\ unposted' = unposted \cup {t}
      BY <1>1 DEF AddTask, AddTaskFirst, Put, TypeOK
    <3> QED
      BY <3>1, FS_AddElement
  <2>2. Len(tasks_') = Len(tasks_) + 1
    <3>1. tasks_ \in Seq(added) /\ tasks_' \in {Append(tasks_, t), <<t>> \o tasks_}
      BY <1>1 DEF AddTask, AddTaskFirst, TypeOK
    <3> QED
      BY <3>1, PutType
  <2>3. At("pop")' = At("pop") /\ At("ended")' = At("ended")
    BY <1>1 DEF AddTask, AddTaskFirst, Put, At
  <2>4. count_' = count_ /\ exits' = exits
    BY <1>1 DEF AddTask, AddTaskFirst, Put, semVars
  <2> QED
    BY <2>1, <2>2, <2>3, <2>4 DEF PermitsBalance
<1>2. ASSUME NEW t \in Tasks, PostTask(t)
      PROVE  IsFiniteSet(unposted)' /\ PermitsBalance'
  <2>1. IsFiniteSet(unposted') /\ Cardinality(unposted') = Cardinality(unposted) - 1
    BY <1>2, FS_RemoveElement DEF PostTask
  <2>2. At("pop")' = At("pop") /\ At("ended")' = At("ended")
    BY <1>2 DEF PostTask, At
  <2>3. count_' = count_ + 1 /\ exits' = exits /\ tasks_' = tasks_
    BY <1>2 DEF PostTask, Post
  <2> QED
    BY <2>1, <2>2, <2>3 DEF PermitsBalance
<1>3. ASSUME NEW n \in 1..MaxExits, PostExit(n)
      PROVE  IsFiniteSet(unposted)' /\ PermitsBalance'
  <2>1. At("pop")' = At("pop") /\ At("ended")' = At("ended")
    BY <1>3 DEF PostExit, At
  <2>2. /\ count_' = count_ + n /\ exits' = exits + n
        /\ UNCHANGED <<tasks_, unposted>>
    BY <1>3 DEF PostExit, Post
  <2>3. n \in Nat
    BY QueueAssumption
  <2> QED
    BY <2>1, <2>2, <2>3, <1>m, <1>f, Zenon DEF PermitsBalance
<1>4. ASSUME NEW w \in Workers, WaitReturns(w)
      PROVE  IsFiniteSet(unposted)' /\ PermitsBalance'
  <2>0. At("ended")' = At("ended")
    BY <1>4 DEF WaitReturns, At, TypeOK
  <2>1. Cardinality(At("pop")') = Cardinality(At("pop")) + 1
    BY <1>4, Moves DEF WaitReturns
  <2>2. /\ count_' = count_ - 1
        /\ UNCHANGED <<tasks_, unposted, exits>>
    BY <1>4 DEF WaitReturns, Wait
  <2> QED
    BY <2>0, <2>1, <2>2, <1>m, <1>f, Zenon DEF PermitsBalance
<1>5. ASSUME NEW w \in Workers, WaitSleeps(w) \/ WakesUp(w)
      PROVE  IsFiniteSet(unposted)' /\ PermitsBalance'
  <2>1. UNCHANGED <<pc, count_, tasks_, unposted, exits>>
    BY <1>5 DEF WaitSleeps, WakesUp, Sleep, SpuriousWakeup
  <2> QED
    BY <2>1 DEF PermitsBalance, At
<1>6. ASSUME NEW w \in Workers, PopTask(w)
      PROVE  IsFiniteSet(unposted)' /\ PermitsBalance'
  <2>0. At("ended")' = At("ended")
    BY <1>6 DEF PopTask, At, TypeOK
  <2>1. Cardinality(At("pop")') = Cardinality(At("pop")) - 1
    BY <1>6, Moves DEF PopTask
  <2>2. Len(tasks_') = Len(tasks_) - 1
    BY <1>6, HeadTailProperties DEF PopTask, TypeOK
  <2>3. UNCHANGED <<count_, unposted, exits>>
    BY <1>6 DEF PopTask, semVars
  <2> QED
    BY <2>0, <2>1, <2>2, <2>3, <1>m, <1>f, Zenon DEF PermitsBalance
<1>7. ASSUME NEW w \in Workers, ReturnFalse(w)
      PROVE  IsFiniteSet(unposted)' /\ PermitsBalance'
  <2>1. /\ Cardinality(At("pop")') = Cardinality(At("pop")) - 1
        /\ Cardinality(At("ended")') = Cardinality(At("ended")) + 1
    BY <1>7, Moves DEF ReturnFalse
  <2>2. UNCHANGED <<count_, tasks_, unposted, exits>>
    BY <1>7 DEF ReturnFalse, semVars
  <2> QED
    BY <2>1, <2>2, <1>m, <1>f, Zenon DEF PermitsBalance
<1>8. ASSUME NEW w \in Workers, TaskEnds(w)
      PROVE  IsFiniteSet(unposted)' /\ PermitsBalance'
  <2>1. At("pop")' = At("pop") /\ At("ended")' = At("ended")
    BY <1>8 DEF TaskEnds, At, TypeOK
  <2>2. UNCHANGED <<count_, tasks_, unposted, exits>>
    BY <1>8 DEF TaskEnds, semVars
  <2> QED
    BY <2>1, <2>2 DEF PermitsBalance
<1>9. CASE UNCHANGED vars
  BY <1>9 DEF vars, semVars, PermitsBalance, At
<1> QED
  BY <1>1, <1>2, <1>3, <1>4, <1>5, <1>6, <1>7, <1>8, <1>9 DEF Next, WorkerSteps

LEMMA BalanceInit == Init => BalanceInv
<1> SUFFICES ASSUME Init PROVE BalanceInv
  OBVIOUS
<1>1. At("pop") = {} /\ At("ended") = {}
  BY DEF Init, At
<1>2. count_ = 0 /\ unposted = {} /\ Len(tasks_) = 0 /\ exits = 0
  BY DEF Init, SemInit
<1>3. IsFiniteSet({}) /\ Cardinality({}) = 0
  BY FS_EmptySet
<1>4. /\ Cardinality(At("pop")) = 0
      /\ Cardinality(At("ended")) = 0
      /\ Cardinality(unposted) = 0
      /\ IsFiniteSet(unposted)
  BY <1>1, <1>2, <1>3, Zenon
<1>5. PermitsBalance
  BY <1>2, <1>4 DEF PermitsBalance
<1> QED
  BY <1>4, <1>5, TypeInit DEF BalanceInv

(* Permits and tasks balance for any number of workers, tasks and exits:      *)
(* GetTask returns false only on a permit of PostExit.                        *)
THEOREM BalanceCorrect == Spec => []PermitsBalance
  BY BalanceInit, BalanceNext, PTL DEF Spec, BalanceInv
--------------------------------------------------------------------------------
Holds(list, t) == \E i \in 1..Len(list) : list[i] = t
Queued(t) == Holds(tasks_, t)
Kept(t) == t \in done \/ \E w \in Workers : f[w] = t

(* Every task is in the queue, in a worker's hand or executed, and the owed   *)
(* ones have left the queue once a worker has ended.                          *)
AbandonInv == /\ BalanceInv
              /\ \A t \in added : Queued(t) \/ Kept(t)
              /\ At("ended") # {} => exits > 0 /\ \A t \in owed : Kept(t)

(* No step puts a task back that is executed or in a worker's hand. *)
LEMMA KeptStays ==
    ASSUME TypeOK, [Next]_vars, NEW t \in added, Kept(t)
    PROVE  Kept(t)'
<1> USE DEF Kept, queueVars, workVars, exitVars
<1>0. t # NoTask
  BY QueueAssumption DEF TypeOK
<1>1. ASSUME NEW w \in Workers, PopTask(w) PROVE Kept(t)'
  <2>1. f[w] = NoTask
    BY <1>1 DEF PopTask, TypeOK
  <2> QED
    BY <1>0, <1>1, <2>1 DEF PopTask, TypeOK
<1>2. ASSUME NEW w \in Workers, TaskEnds(w) PROVE Kept(t)'
  BY <1>2 DEF TaskEnds, TypeOK
<1>3. ASSUME NEW w \in Workers,
             WaitReturns(w) \/ WaitSleeps(w) \/ ReturnFalse(w) \/ WakesUp(w)
      PROVE  Kept(t)'
  BY <1>3 DEF WaitReturns, WaitSleeps, ReturnFalse, WakesUp
<1>4. ASSUME NEW u \in Tasks, AddTask(u) \/ AddTaskFirst(u) \/ PostTask(u)
      PROVE  Kept(t)'
  BY <1>4 DEF AddTask, AddTaskFirst, Put, PostTask
<1>5. ASSUME NEW n \in 1..MaxExits, PostExit(n) PROVE Kept(t)'
  BY <1>5 DEF PostExit
<1>6. CASE UNCHANGED vars
  BY <1>6 DEF vars
<1> QED
  BY <1>1, <1>2, <1>3, <1>4, <1>5, <1>6 DEF Next, WorkerSteps

(* A task at either end leaves the others queued. *)
LEMMA PutKeepsQueued ==
    ASSUME NEW S, NEW s \in Seq(S), NEW u, NEW r \in {Append(s, u), <<u>> \o s}
    PROVE  Holds(r, u) /\ \A t : Holds(s, t) => Holds(r, t)
<1> USE DEF Holds
<1>0. Len(s) \in Nat
  BY LenProperties
<1>1. CASE r = Append(s, u)
  <2>1. /\ Len(s) + 1 \in 1..Len(r)
        /\ r[Len(s) + 1] = u
    BY <1>0, <1>1, AppendProperties
  <2>2. ASSUME NEW i \in 1..Len(s) PROVE i \in 1..Len(r) /\ r[i] = s[i]
    BY <1>0, <1>1, AppendProperties
  <2> QED
    BY <2>1, <2>2
<1>2. CASE r = <<u>> \o s
  <2>1. 1 \in 1..Len(r) /\ r[1] = u
    BY <1>0, <1>2
  <2>2. ASSUME NEW i \in 1..Len(s) PROVE i + 1 \in 1..Len(r) /\ r[i + 1] = s[i]
    BY <1>0, <1>2
  <2> QED
    BY <2>1, <2>2
<1> QED
  BY <1>1, <1>2

LEMMA Accounted ==
    ASSUME TypeOK, TypeOK', [Next]_vars, \A t \in added : Queued(t) \/ Kept(t)
    PROVE  \A t \in added' : (Queued(t) \/ Kept(t))'
<1> USE DEF queueVars, workVars, exitVars
<1>1. ASSUME NEW u \in Tasks, AddTask(u) \/ AddTaskFirst(u), NEW t \in added'
      PROVE  Queued(t)' \/ Kept(t)'
  <2>1. /\ tasks_ \in Seq(added)
        /\ tasks_' \in {Append(tasks_, u), <<u>> \o tasks_}
        /\ added' = added \cup {u}
    BY <1>1 DEF AddTask, AddTaskFirst, Put, TypeOK
  <2>2. CASE t = u
    BY <2>1, <2>2, PutKeepsQueued DEF Queued
  <2>3. CASE t \in added /\ Queued(t)
    BY <2>1, <2>3, PutKeepsQueued DEF Queued
  <2>4. CASE t \in added /\ Kept(t)
    BY <2>4, KeptStays
  <2> QED
    BY <1>1, <2>1, <2>2, <2>3, <2>4
<1>2. ASSUME NEW w \in Workers, PopTask(w), NEW t \in added'
      PROVE  Queued(t)' \/ Kept(t)'
  <2>1. t \in added /\ added' = added
    BY <1>2 DEF PopTask
  <2>2. CASE Queued(t)
    <3>1. PICK i \in 1..Len(tasks_) : tasks_[i] = t
      BY <2>2 DEF Queued, Holds
    <3>2. CASE i = 1
      BY <3>1, <3>2, <1>2 DEF PopTask, TypeOK, Kept
    <3>3. CASE i # 1
      <4>1. i - 1 \in 1..Len(tasks_') /\ tasks_'[i - 1] = t
        BY <3>1, <3>3, <1>2, HeadTailProperties, LenProperties DEF PopTask, TypeOK
      <4> QED
        BY <4>1 DEF Queued, Holds
    <3> QED
      BY <3>2, <3>3
  <2>3. CASE Kept(t)
    BY <2>1, <2>3, KeptStays
  <2> QED
    BY <2>1, <2>2, <2>3
<1>3. ASSUME UNCHANGED <<tasks_, added>>, NEW t \in added'
      PROVE  Queued(t)' \/ Kept(t)'
  BY <1>3, KeptStays DEF Queued
<1>4. \/ \E u \in Tasks : AddTask(u) \/ AddTaskFirst(u)
      \/ \E w \in Workers : PopTask(w)
      \/ UNCHANGED <<tasks_, added>>
  BY DEF Next, WorkerSteps, PostTask, PostExit, WaitReturns, WaitSleeps, WakesUp,
         ReturnFalse, TaskEnds, vars
<1> QED
  BY <1>1, <1>2, <1>3, <1>4

LEMMA AbandonNext == AbandonInv /\ [Next]_vars => AbandonInv'
<1> SUFFICES ASSUME AbandonInv, [Next]_vars
             PROVE  AbandonInv'
  OBVIOUS
<1>0. BalanceInv /\ BalanceInv' /\ TypeOK /\ TypeOK'
  BY BalanceNext, TypeNext DEF AbandonInv, BalanceInv
<1>1. \A t \in added' : (Queued(t) \/ Kept(t))'
  BY <1>0, Accounted DEF AbandonInv
<1>2. ASSUME At("ended")' # {}
      PROVE  exits' > 0 /\ \A t \in owed' : Kept(t)'
  <2>1. CASE At("ended") # {}
    <3>1. exits > 0 /\ \A t \in owed : t \in added /\ Kept(t)
      BY <2>1, <1>0 DEF AbandonInv, TypeOK
    <3>2. exits' > 0 /\ owed' = owed
      <4>1. ASSUME NEW n \in 1..MaxExits, PostExit(n)
            PROVE  exits' > 0 /\ owed' = owed
        BY <4>1, <3>1, <1>0, QueueAssumption DEF PostExit, TypeOK
      <4>2. CASE \A n \in 1..MaxExits : ~PostExit(n)
        <5>1. UNCHANGED exitVars
          BY <4>2 DEF Next, WorkerSteps, AddTask, AddTaskFirst, Put, PostTask,
                      WaitReturns, WaitSleeps, WakesUp, PopTask, ReturnFalse, TaskEnds,
                      vars
        <5> QED
          BY <5>1, <3>1 DEF exitVars
      <4> QED
        BY <4>1, <4>2
    <3> QED
      BY <3>1, <3>2, <1>0, KeptStays
  <2>2. CASE At("ended") = {}
    <3>1. PICK w \in Workers : ReturnFalse(w)
      BY <1>0, <1>2, <2>2
         DEF At, TypeOK, Next, WorkerSteps, AddTask, AddTaskFirst, Put, PostTask,
             PostExit, WaitReturns, WaitSleeps, WakesUp, PopTask, TaskEnds, vars,
             workVars
    <3>2. UNCHANGED <<exits, owed>> /\ Len(tasks_) = 0
      BY <3>1, LenProperties DEF ReturnFalse, exitVars
    <3>3. exits > 0
      <4>1. w \in At("pop")
        BY <3>1 DEF ReturnFalse, At
      <4>2. At("pop") # {} /\ Cardinality(At("ended")) = 0
        BY <4>1, <2>2, FS_EmptySet
      <4>3. Cardinality(At("pop")) > 0
        BY <4>2, AtFinite, FS_EmptySet
      <4>4. count_ \in Nat /\ Cardinality(unposted) \in Nat /\ exits \in Nat
        BY <1>0, FS_CardinalityType, QueueAssumption DEF BalanceInv, TypeOK, SemTypeOK
      <4>5. count_ + Cardinality(At("pop")) + Cardinality(unposted)
               = Len(tasks_) + exits - Cardinality(At("ended"))
        BY <1>0 DEF BalanceInv, PermitsBalance
      <4> QED
        BY <3>2, <4>2, <4>3, <4>4, <4>5, AtFinite
    <3>4. \A t \in owed : t \in added /\ Kept(t)
      BY <3>2, <1>0 DEF AbandonInv, Queued, Holds, TypeOK
    <3> QED
      BY <3>2, <3>3, <3>4, <1>0, KeptStays
  <2> QED
    BY <2>1, <2>2
<1> QED
  BY <1>0, <1>1, <1>2 DEF AbandonInv

(* Workers that were all told to end leave nothing behind that was added      *)
(* before PostExit: GetTask returns false only when the list is empty.        *)
THEOREM AbandonCorrect == Spec => []NothingAbandoned
<1>1. Init => AbandonInv
  BY BalanceInit DEF Init, AbandonInv, At
<1>2. AbandonInv => NothingAbandoned
  <2> SUFFICES ASSUME AbandonInv, AllEnded, NEW t \in owed PROVE t \in done
    BY DEF NothingAbandoned
  <2>1. At("ended") # {}
    BY QueueAssumption DEF AllEnded
  <2>2. Kept(t) /\ t \in added
    BY <2>1 DEF AbandonInv, BalanceInv, TypeOK
  <2>3. \A w \in Workers : pc[w] = "ended"
    BY DEF AllEnded, At
  <2>4. t # NoTask
    BY <2>2, QueueAssumption DEF AbandonInv, BalanceInv, TypeOK
  <2> QED
    BY <2>2, <2>3, <2>4 DEF Kept, AbandonInv, BalanceInv, TypeOK
<1> QED
  BY <1>1, <1>2, AbandonNext, PTL DEF Spec
--------------------------------------------------------------------------------
(* The pool around it. *)

LEMMA StepOfQueue == PoolNext => [Next]_vars
<1>1. Owns \/ Joins => UNCHANGED vars
  BY DEF Owns, Joins
<1>2. ASSUME NEW w \in Workers, Works(w) \/ CallsJoinAll(w) \/ WakesUp(w)
      PROVE  [Next]_vars
  BY <1>2 DEF Works, CallsJoinAll, Next
<1>3. ASSUME NEW t \in Tasks, AddTask(t) \/ AddTaskFirst(t) \/ PoolPosts(t)
      PROVE  [Next]_vars
  BY <1>3 DEF PoolPosts, Next
<1>4. ASSUME NEW n \in 1..MaxExits, PostExit(n)
      PROVE  [Next]_vars
  BY <1>4 DEF Next
<1> QED
  BY <1>1, <1>2, <1>3, <1>4 DEF PoolNext

(* Whenever workers are created, detached and joined, and whatever ids they    *)
(* get, the queue sees what TaskQueue describes.                               *)
THEOREM UsesTaskQueue == PoolSpec => Spec
<1>1. PoolInit => Init
  BY DEF PoolInit
<1>2. [PoolNext]_poolVars => [Next]_vars
  BY StepOfQueue DEF poolVars
<1> QED
  BY <1>1, <1>2, PTL DEF PoolSpec, Spec

(* In the pool too, permits balance tasks and exits at every step of GetTask,  *)
(* AddTask and PostExit.                                                       *)
THEOREM PoolBalance == PoolSpec => []PermitsBalance
  BY UsesTaskQueue, BalanceCorrect, PTL

(* When all workers of the pool have ended, every task added before the first  *)
(* PostExit is done.                                                           *)
THEOREM PoolAbandonsNothing == PoolSpec => []NothingAbandoned
  BY UsesTaskQueue, AbandonCorrect, PTL
--------------------------------------------------------------------------------
LEMMA EraseKeeps ==
    ASSUME GroupTypeOK, ~terminated, NEW ids \in SUBSET DOMAIN threads_, Erase(ids),
           UNCHANGED <<thread_id_, id, joinable>>, joiner' \in Ids \cup {Owner, NoId}
    PROVE  GroupTypeOK'
<1>1. /\ DOMAIN threads_' = DOMAIN threads_ \ ids
      /\ \A i \in DOMAIN threads_' : threads_'[i] = threads_[i]
      /\ terminated' \in BOOLEAN
  BY DEF Erase, Restrict
<1>2. terminated' \/ joinable' \subseteq Range(threads_')
  <2> SUFFICES ASSUME ~terminated', NEW m \in joinable
               PROVE  m \in Range(threads_')
    OBVIOUS
  <2>1. PICK i \in DOMAIN threads_ : threads_[i] = m
    BY DEF GroupTypeOK, Range
  <2>2. i \notin ids
    BY <2>1 DEF Erase
  <2> QED
    BY <1>1, <2>1, <2>2 DEF Range
<1> QED
  BY <1>1, <1>2 DEF GroupTypeOK, Range

LEMMA CreateKeeps ==
    ASSUME GroupTypeOK, ~terminated, NEW m \in Members, NEW i \in Ids \ IdsInUse,
           Members = Workers, CreateThread(m, i)
    PROVE  GroupTypeOK'
<1>1. /\ DOMAIN threads_' = DOMAIN threads_ \cup {i}
      /\ threads_'[i] = m
      /\ \A k \in DOMAIN threads_ : k # i => threads_'[k] = threads_[k]
  BY DEF CreateThread
<1>2. id' \in [Members -> Ids \cup {NoId}] /\ id'[m] = i
      /\ \A n \in Members : n # m => id'[n] = id[n]
  BY DEF CreateThread, GroupTypeOK
<1>3. \A k \in DOMAIN threads_ : threads_[k] # m
  BY GroupAssumption DEF GroupTypeOK, CreateThread
<1>4. \A k \in DOMAIN threads_' : threads_'[k] \in Members /\ id'[threads_'[k]] = k
  BY <1>1, <1>2, <1>3 DEF GroupTypeOK, Range
<1>5. joinable' \subseteq Range(threads_')
  <2> SUFFICES ASSUME NEW n \in joinable
               PROVE  n \in Range(threads_')
    BY <1>1 DEF CreateThread, Range
  <2>1. PICK k \in DOMAIN threads_ : threads_[k] = n
    BY DEF GroupTypeOK, Range
  <2>2. n \in Members /\ id[n] = k
    BY <2>1 DEF GroupTypeOK, Range
  <2>3. k # i
    BY <2>2 DEF IdsInUse
  <2> QED
    BY <1>1, <2>1, <2>3 DEF Range
<1>6. DOMAIN threads_' \subseteq Ids /\ Range(threads_') \subseteq Members
  BY <1>1, <1>4 DEF GroupTypeOK, Range
<1>7. /\ thread_id_' \in Ids \cup {NoId}
      /\ joiner' \in Ids \cup {Owner, NoId}
      /\ terminated' \in BOOLEAN
  BY DEF CreateThread, GroupTypeOK
<1> QED
  BY <1>2, <1>4, <1>5, <1>6, <1>7 DEF GroupTypeOK

LEMMA GroupNext == GroupTypeOK /\ [PoolNext]_poolVars => GroupTypeOK'
<1> SUFFICES ASSUME GroupTypeOK, [PoolNext]_poolVars
             PROVE  GroupTypeOK'
  OBVIOUS
<1>1. CASE UNCHANGED groupVars
  BY <1>1 DEF groupVars, GroupTypeOK, Range
<1>2. CASE ~terminated /\ Owns
  <2>1. ASSUME NEW w \in Workers, Creates(w) PROVE GroupTypeOK'
    BY <1>2, <2>1, CreateKeeps, PoolAssumption DEF Creates
  <2>2. ASSUME NEW w \in Workers, Detach(w) PROVE GroupTypeOK'
    BY <1>2, <2>2 DEF Detach, GroupTypeOK, Range
  <2>3. ASSUME NEW w \in Workers, RemoveThread(w) PROVE GroupTypeOK'
    <3>1. {get_id(w)} \in SUBSET DOMAIN threads_ /\ joiner' \in Ids \cup {Owner, NoId}
      BY <2>3 DEF RemoveThread, GroupTypeOK
    <3> QED
      BY <1>2, <2>3, <3>1, EraseKeeps DEF RemoveThread
  <2>4. CASE JoinAll(Owner)
    BY <2>4 DEF JoinAll, GroupTypeOK, Range
  <2>5. CASE DestroyGroup
    <3>1. joiner' \in Ids \cup {Owner, NoId}
      BY <2>5 DEF DestroyGroup, GroupTypeOK
    <3> QED
      BY <1>2, <2>5, <3>1, EraseKeeps DEF DestroyGroup
  <2> QED
    BY <1>2, <2>1, <2>2, <2>3, <2>4, <2>5 DEF Owns
<1>3. CASE ~terminated /\ Joins
  <2>1. CASE JoinReturns
    <3>1. joiner' \in Ids \cup {Owner, NoId}
      BY <2>1 DEF JoinReturns
    <3> QED
      BY <1>3, <2>1, <3>1, EraseKeeps DEF JoinReturns
  <2>2. ASSUME NEW w \in Workers, JoinMember(w) PROVE GroupTypeOK'
    BY <2>2 DEF JoinMember, GroupTypeOK, Range
  <2> QED
    BY <1>3, <2>1, <2>2 DEF Joins
<1>4. ASSUME NEW w \in Workers, CallsJoinAll(w) PROVE GroupTypeOK'
  <2>1. id[w] \in Ids
    BY <1>4 DEF CallsJoinAll, GroupTypeOK
  <2> QED
    BY <1>4, <2>1 DEF CallsJoinAll, JoinAll, GroupTypeOK, Range
<1>5. ASSUME NEW w \in Workers, Works(w) \/ (WakesUp(w) /\ UNCHANGED groupVars)
      PROVE  GroupTypeOK'
  BY <1>1, <1>5 DEF Works
<1>6. ASSUME NEW t \in Tasks, PoolPosts(t) PROVE GroupTypeOK'
  BY <1>1, <1>6 DEF PoolPosts
<1> QED
  BY <1>1, <1>2, <1>3, <1>4, <1>5, <1>6 DEF PoolNext, poolVars

LEMMA UncreatedNext ==
    ASSUME TypeOK, GroupTypeOK, Members = Workers, [PoolNext]_poolVars,
           \A w \in Workers : ~Created(w) => pc[w] = "wait"
    PROVE  (\A w \in Workers : ~Created(w) => pc[w] = "wait")'
<1> SUFFICES ASSUME NEW w \in Workers, id'[w] = NoId
             PROVE  pc'[w] = "wait"
  BY DEF Created
<1>1. id[w] = NoId
  BY DEF PoolNext, poolVars, groupVars, Owns, Joins, Creates, CreateThread, Detach,
         RemoveThread, JoinAll, DestroyGroup, JoinReturns, JoinMember, CallsJoinAll,
         Works, PoolPosts, GroupTypeOK
<1>2. pc' = pc \/ \E v \in Workers : v # w /\ WorkerSteps(v)
  BY <1>1 DEF PoolNext, poolVars, vars, workVars, Owns, Joins, CallsJoinAll, Works,
              Created, WakesUp, PoolPosts, AddTask, AddTaskFirst, Put, PostTask, PostExit
<1>3. pc'[w] = pc[w]
  BY <1>2 DEF WorkerSteps, WaitReturns, WaitSleeps, PopTask, ReturnFalse, TaskEnds,
              TypeOK, workVars
<1> QED
  BY <1>1, <1>3 DEF Created

(* Types of the pool; and however ids are used again, every thread that can    *)
(* still be joined is found under its id, so that JoinAll joins it.            *)
THEOREM PoolTypeCorrect == PoolSpec => []PoolTypeOK
<1>1. PoolInit => PoolTypeOK
  <2> SUFFICES ASSUME PoolInit PROVE PoolTypeOK
    OBVIOUS
  <2>1. TypeOK /\ \A w \in Workers : pc[w] = "wait"
    BY TypeInit DEF PoolInit, Init
  <2>2. DOMAIN threads_ = {} /\ Range(threads_) = {}
    BY DEF PoolInit, GroupInit, Range
  <2>3. GroupTypeOK
    BY <2>2 DEF PoolInit, GroupInit, GroupTypeOK
  <2> QED
    BY <2>1, <2>3 DEF PoolTypeOK
<1>2. PoolTypeOK /\ [PoolNext]_poolVars => PoolTypeOK'
  <2>1. [PoolNext]_poolVars => [Next]_vars
    BY StepOfQueue DEF poolVars
  <2> QED
    BY <2>1, TypeNext, GroupNext, UncreatedNext, PoolAssumption DEF PoolTypeOK
<1> QED
  BY <1>1, <1>2, PTL DEF PoolSpec
================================================================================
