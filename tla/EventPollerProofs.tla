--------------------------- MODULE EventPollerProofs ---------------------------
(* Theorems about EventPoller, for every number of tasks, timers, signals    *)
(* and bytes of the pipe, and every clock.                                   *)
EXTENDS EventPoller, SequenceTheorems, FiniteSetTheorems, TLAPS

(* What is left of a batch is the tail of one. *)
LEMMA EventsTail ==
    ASSUME events \in Batches \cup {<<"pipe">>, <<>>}, events # <<>>
    PROVE  /\ Tail(events) \in Batches \cup {<<"pipe">>, <<>>}
           /\ Head(events) # "pipe" /\ HasPipe(events) => HasPipe(Tail(events))
<1>1. /\ HasPipe(<<"pipe">>)
      /\ ~HasPipe(<<"fd">>)
  BY 1 \in DOMAIN <<"pipe">> DEF HasPipe
<1>2. CASE events = <<"pipe">>
  BY <1>2
<1>3. CASE events = <<"fd">>
  <2>1. Tail(events) = <<>>
    BY <1>3
  <2>2. ~HasPipe(events)
    BY <1>1, <1>3
  <2> QED
    BY <2>1, <2>2
<1>4. CASE events = <<"fd", "pipe">>
  <2>1. Tail(events) = <<"pipe">>
    BY <1>4
  <2> QED
    BY <1>1, <2>1
<1>5. CASE events = <<"pipe", "fd">>
  <2>1. Head(events) = "pipe" /\ Tail(events) = <<"fd">>
    BY <1>5
  <2> QED
    BY <2>1 DEF Batches
<1> QED
  BY <1>2, <1>3, <1>4, <1>5 DEF Batches

LEMMA TimelineType ==
    ASSUME NEW d \in Nat, NEW t \in Nat
    PROVE  Timeline(d, t) \in Times
  BY PollerAssumption DEF Timeline, Times

LEMMA ToIntType ==
    ASSUME NEW d \in Int
    PROVE  EpollTimeout(d) \in Int
  BY PollerAssumption DEF EpollTimeout, ToInt

LEMMA WaitForType ==
    ASSUME NEW entries \in SUBSET DelayRec, NEW t \in Nat, WaitFor(entries, t)
    PROVE  timeout' \in Int /\ pc' \in PCs
<1>1. timeout' \in Int
  <2>1. CASE entries = {}
    BY <2>1, ToIntType DEF WaitFor, Earliest
  <2>2. CASE \E e \in entries : timeout' = EpollTimeout(e.at - t)
    <3>1. PICK e \in entries : timeout' = EpollTimeout(e.at - t)
      BY <2>2
    <3>2. e.at - t \in Int
      BY <3>1, PollerAssumption DEF DelayRec, Times
    <3> QED
      BY <3>1, <3>2, ToIntType
  <2> QED
    BY <2>1, <2>2 DEF WaitFor
<1> QED
  BY <1>1 DEF WaitFor, PCs, UserStates

LEMMA WriteType == PipeTypeOK /\ Write => PipeTypeOK'
<1> SUFFICES ASSUME PipeTypeOK, Write PROVE PipeTypeOK'
  OBVIOUS
<1>1. pipe' \in 0..PipeCap
  BY PipeAssumption DEF PipeTypeOK, Write
<1>2. edge' \in BOOLEAN
  BY DEF PipeTypeOK, Write
<1>3. errno' \in Errnos
  BY DEF PipeTypeOK, Write, Errnos
<1> QED
  BY <1>1, <1>2, <1>3 DEF PipeTypeOK

LEMMA ReadType == PipeTypeOK /\ Read => PipeTypeOK'
  BY PipeAssumption DEF PipeTypeOK, Read, Errnos

LEMMA TaskType ==
    /\ \A t \in Tasks : UserTask(t) \in TaskRec
    /\ ExitTask \in TaskRec
    /\ \A d \in Timers, at \in Times :
          ArmTask(d, at) \in TaskRec /\ Entry(d, at) \in DelayRec
  BY PollerAssumption DEF TaskRec, Entry, DelayRec

LEMMA AsyncType ==
    ASSUME NEW task \in TaskRec, NEW first \in BOOLEAN, async(task, first), TypeOK
    PROVE  PipeTypeOK' /\ task_list_' \in Seq(TaskRec)
<1>1. PipeTypeOK'
  BY WriteType DEF async, TypeOK
<1>2. task_list_' \in Seq(TaskRec)
  BY DEF async, TypeOK
<1> QED
  BY <1>1, <1>2

LEMMA TypeInit == Init => TypeOK
<1> SUFFICES ASSUME Init PROVE TypeOK
  OBVIOUS
<1>1. PipeTypeOK
  <2>1. pipe \in 0..PipeCap
    BY PipeAssumption DEF Init, PipeInit
  <2> QED
    BY <2>1 DEF Init, PipeInit, PipeTypeOK
<1>2. pc \in PCs /\ shutdowns \in 0..MaxShutdowns
  BY PollerAssumption DEF Init, PCs, UserStates
<1>3. state \in [Ids -> {"new", "pending", "done"}]
  BY DEF Init
<1>4. task_list_ \in Seq(TaskRec) /\ swap_list \in Seq(TaskRec)
  BY DEF Init
<1>5. cur \in IF pc = "delay" THEN delay_tasks_copy ELSE {NoEntry}
  BY DEF Init
<1>6. exit_flag_ \in BOOLEAN /\ destroying \in BOOLEAN
  BY DEF Init
<1>7. clock \in Nat /\ now \in Nat /\ timeout \in Int
  BY DEF Init
<1> QED
  BY <1>1, <1>2, <1>3, <1>4, <1>5, <1>6, <1>7 DEF Init, TypeOK

LEMMA TypeNext == TypeOK /\ [Next]_vars => TypeOK'
<1> SUFFICES ASSUME TypeOK, [Next]_vars PROVE TypeOK'
  OBVIOUS
<1> USE DEF TypeOK, pipeVars, taskVars, delayVars, dtorVars, userVars, outerVars
<1>1. ASSUME NEW t \in Tasks, Async(t) PROVE TypeOK'
  <2>1. PipeTypeOK' /\ task_list_' \in Seq(TaskRec)
    BY <1>1, AsyncType, TaskType DEF Async
  <2>2. state' \in [Ids -> {"new", "pending", "done"}]
    BY <1>1 DEF Async, Submit
  <2> QED
    BY <1>1, <2>1, <2>2 DEF Async, Submit
<1>2. ASSUME NEW t \in Tasks, AsyncFirst(t) PROVE TypeOK'
  <2>1. PipeTypeOK' /\ task_list_' \in Seq(TaskRec)
    BY <1>2, AsyncType, TaskType DEF AsyncFirst
  <2>2. state' \in [Ids -> {"new", "pending", "done"}]
    BY <1>2 DEF AsyncFirst, Submit
  <2> QED
    BY <1>2, <2>1, <2>2 DEF AsyncFirst, Submit
<1>3. ASSUME NEW d \in Timers, NEW delay_ms \in Delays \cup {0},
               DoDelayTask(d, delay_ms)
        PROVE  TypeOK'
  <2>1. Timeline(delay_ms, clock) \in Times
    BY TimelineType, PollerAssumption
  <2>2. PipeTypeOK' /\ task_list_' \in Seq(TaskRec)
    BY <1>3, <2>1, AsyncType, TaskType DEF DoDelayTask
  <2>3. state' \in [Ids -> {"new", "pending", "done"}]
    BY <1>3 DEF DoDelayTask, Submit
  <2> QED
    BY <1>3, <2>2, <2>3 DEF DoDelayTask, Submit
<1>4. ASSUME NEW x \in Ids, Cancel(x) PROVE TypeOK'
  BY <1>4 DEF Cancel, PipeTypeOK
<1>5. CASE Shutdown
  <2>1. PipeTypeOK' /\ task_list_' \in Seq(TaskRec)
    BY <1>5, AsyncType, TaskType DEF Shutdown
  <2>2. shutdowns' \in 0..MaxShutdowns
    BY <1>5, PollerAssumption DEF Shutdown
  <2> QED
    BY <1>5, <2>1, <2>2 DEF Shutdown
<1>6. CASE RunLoop
  BY <1>6 DEF RunLoop, PipeTypeOK, PCs
<1>7. CASE Destroy
  <2>1. PipeTypeOK' /\ task_list_' \in Seq(TaskRec)
    BY <1>7, AsyncType, TaskType DEF Destroy
  <2>2. owed' \subseteq Tasks /\ pc' \in PCs
    BY <1>7 DEF Destroy, PCs
  <2> QED
    BY <1>7, <2>1, <2>2 DEF Destroy
<1>8. CASE LeaveLoop
  BY <1>8 DEF LeaveLoop, Goto, PipeTypeOK, PCs, UserStates
<1>9. CASE GetMinDelay
  <2>1. timeout' \in Int /\ pc' \in PCs
    BY <1>9, WaitForType DEF GetMinDelay
  <2> QED
    BY <1>9, <2>1 DEF GetMinDelay, WaitFor, PipeTypeOK
<1>10. CASE StartFlush
  BY <1>10 DEF StartFlush, PipeTypeOK, PCs
<1>11. CASE SkipDelayTask
  <2>1. PICK e \in delay_tasks_copy : SkipDelayTask!(e)
    BY <1>11 DEF SkipDelayTask
  <2>2. delay_tasks_copy' \in SUBSET DelayRec
    BY <2>1
  <2>3. state' \in [Ids -> {"new", "pending", "done"}]
    BY <2>1
  <2> QED
    BY <2>1, <2>2, <2>3 DEF NextDue, PipeTypeOK
<1>12. CASE StartDelayTask
  <2>1. PICK e \in delay_tasks_copy : StartDelayTask!(e)
    BY <1>12 DEF StartDelayTask
  <2>2. cur' \in delay_tasks_copy' /\ pc' = "delay"
    BY <2>1
  <2> QED
    BY <2>1, <2>2 DEF PipeTypeOK, PCs, UserStates
<1>13. ASSUME NEW next_delay \in Delays \cup {0}, DelayTaskReturns(next_delay)
        PROVE  TypeOK'
  <2>1. state' \in [Ids -> {"new", "pending", "done"}]
    BY <1>13 DEF DelayTaskReturns
  <2>2. delay_tasks_copy' \in SUBSET DelayRec
    <3>1. Timeline(next_delay, now) \in Times
      BY TimelineType, PollerAssumption
    <3>2. cur.id \in Timers
      BY <1>13 DEF DelayTaskReturns, DelayRec
    <3> QED
      BY <1>13, <3>1, <3>2, TaskType DEF DelayTaskReturns
  <2> QED
    BY <1>13, <2>1, <2>2 DEF DelayTaskReturns, PipeTypeOK, PCs
<1>14. CASE EndFlush
  <2>1. timeout' \in Int /\ pc' \in PCs
    BY <1>14, WaitForType DEF EndFlush
  <2>2. delay_tasks_' \in SUBSET DelayRec /\ delay_tasks_copy' \in SUBSET DelayRec
    BY <1>14 DEF EndFlush
  <2> QED
    BY <1>14, <2>1, <2>2 DEF EndFlush, WaitFor, PipeTypeOK
<1>15. CASE EndOfBatch
  BY <1>15 DEF EndOfBatch, Goto, PipeTypeOK, PCs
<1>16. CASE Dispatch
  <2>1. events' \in Batches \cup {<<"pipe">>, <<>>}
    BY <1>16, EventsTail DEF Dispatch
  <2> QED
    BY <1>16, <2>1 DEF Dispatch, PipeTypeOK, PCs, UserStates
<1>17. CASE EventReturns
  BY <1>17 DEF EventReturns, ReturnTo, PipeTypeOK, PCs
<1>18. CASE DrainPipe
  BY <1>18, ReadType DEF DrainPipe, PCs
<1>19. CASE SwapLists
  BY <1>19 DEF SwapLists, PipeTypeOK, PCs
<1>20. CASE RunExitTask
  BY <1>20 DEF RunExitTask, NextTask, PipeTypeOK
<1>21. CASE RunArmTask
  <2>1. /\ Head(swap_list) \in TaskRec
        /\ swap_list' \in Seq(TaskRec)
    BY <1>21 DEF RunArmTask, NextTask
  <2>2. delay_tasks_' \in SUBSET DelayRec
    BY <1>21, <2>1, TaskType DEF RunArmTask, NextTask, TaskRec, UserTask, ExitTask, ArmTask
  <2> QED
    BY <1>21, <2>1, <2>2 DEF RunArmTask, PipeTypeOK
<1>22. CASE RunUserTask
  <2>1. swap_list' \in Seq(TaskRec) /\ pc' \in PCs
    BY <1>22 DEF RunUserTask, NextTask, PCs, UserStates
  <2>2. state' \in [Ids -> {"new", "pending", "done"}]
    BY <1>22 DEF RunUserTask
  <2> QED
    BY <1>22, <2>1, <2>2 DEF RunUserTask, NextTask, PipeTypeOK
<1>23. CASE TaskReturns
  BY <1>23 DEF TaskReturns, ReturnTo, PipeTypeOK, PCs
<1>24. CASE EndOfTasks
  BY <1>24 DEF EndOfTasks, Goto, PipeTypeOK, PCs
<1>25. CASE EpollWait
  <2>1. events' \in Batches \cup {<<"pipe">>, <<>>}
    BY <1>25 DEF EpollWait
  <2>2. PipeTypeOK'
    BY <1>25 DEF EpollWait, Awake, PipeTypeOK
  <2> QED
    BY <1>25, <2>1, <2>2 DEF EpollWait, Awake, PCs
<1>26. CASE EpollTimesOut
  BY <1>26 DEF EpollTimesOut, Awake, PipeTypeOK, PCs
<1>27. CASE EpollInterrupted
  BY <1>27 DEF EpollInterrupted, Awake, PipeTypeOK, Errnos, PCs
<1>28. CASE Tick
  BY <1>28 DEF Tick, PipeTypeOK
<1>29. CASE UNCHANGED vars
  BY <1>29 DEF vars, PipeTypeOK
<1> QED
  BY <1>1, <1>2, <1>3, <1>4, <1>5, <1>6, <1>7, <1>8, <1>9, <1>10, <1>11, <1>12, <1>13, <1>14, <1>15, <1>16, <1>17, <1>18, <1>19, <1>20, <1>21, <1>22, <1>23, <1>24, <1>25, <1>26, <1>27, <1>28, <1>29
  DEF Next, UserCalls, LoopSteps, FlushSteps, PipeEventSteps

(* Every variable keeps its type, whatever users and signals do. *)
THEOREM TypeCorrect == Spec => []TypeOK
<1> QED
  BY TypeInit, TypeNext, PTL DEF Spec
--------------------------------------------------------------------------------
LEMMA NoPipeInEmpty == ~HasPipe(<<>>)
  BY DEF HasPipe

(* A submission is announced, or finds on_pipe_event on its way. *)
LEMMA AsyncWakes ==
    ASSUME WakeupInv, NEW task, NEW first, async(task, first),
           UNCHANGED events, pc' = pc \/ pc' = "drain"
    PROVE  NoLostWakeup' /\ FullPipeIsSeen'
<1> USE PipeAssumption
        DEF WakeupInv, TypeOK, PipeTypeOK, FullPipeIsSeen, NoLostWakeup, PipeEventDue,
            ReadReady
<1>1. CASE pipe < PipeCap /\ pipe' = pipe + 1 /\ edge'
  BY <1>1
<1>2. CASE pipe = PipeCap /\ UNCHANGED <<pipe, edge>>
  <2>1. edge \/ HasPipe(events)' \/ pc' = "drain"
    BY <1>2
  <2> QED
    BY <1>2, <2>1
<1> QED
  BY <1>1, <1>2 DEF async, Write

LEMMA WakeupNext == WakeupInv /\ [Next]_vars => WakeupInv'
<1> SUFFICES ASSUME WakeupInv, [Next]_vars
             PROVE  NoLostWakeup' /\ FullPipeIsSeen' /\ BatchInScope'
  BY TypeNext DEF WakeupInv
<1> USE DEF WakeupInv, pipeVars, taskVars, delayVars, dtorVars, userVars, outerVars
<1>1. ASSUME NEW t \in Tasks, Async(t)
        PROVE NoLostWakeup' /\ FullPipeIsSeen' /\ BatchInScope'
  BY <1>1, AsyncWakes DEF Async, Submit, BatchInScope
<1>2. ASSUME NEW t \in Tasks, AsyncFirst(t)
        PROVE NoLostWakeup' /\ FullPipeIsSeen' /\ BatchInScope'
  BY <1>2, AsyncWakes DEF AsyncFirst, Submit, BatchInScope
<1>3. ASSUME NEW d \in Timers, NEW delay_ms \in Delays \cup {0},
               DoDelayTask(d, delay_ms)
        PROVE  NoLostWakeup' /\ FullPipeIsSeen' /\ BatchInScope'
  BY <1>3, AsyncWakes DEF DoDelayTask, Submit, BatchInScope
<1>4. CASE Shutdown
  BY <1>4, AsyncWakes DEF Shutdown, BatchInScope
<1>5. CASE Destroy
  BY <1>5, AsyncWakes DEF Destroy, BatchInScope
<1>6. ASSUME NEW x \in Ids, Cancel(x)
        PROVE  NoLostWakeup' /\ FullPipeIsSeen' /\ BatchInScope'
  BY <1>6 DEF Cancel, NoLostWakeup, FullPipeIsSeen, BatchInScope, PipeEventDue, ReadReady
<1>7. CASE RunLoop
  BY <1>7 DEF RunLoop, NoLostWakeup, FullPipeIsSeen, BatchInScope, PipeEventDue, ReadReady
<1>8. CASE LeaveLoop
  BY <1>8 DEF LeaveLoop, Goto, NoLostWakeup, FullPipeIsSeen, BatchInScope, PipeEventDue, ReadReady
<1>9. CASE GetMinDelay
  BY <1>9 DEF GetMinDelay, WaitFor, NoLostWakeup, FullPipeIsSeen, BatchInScope, PipeEventDue, ReadReady
<1>10. CASE StartFlush
  BY <1>10 DEF StartFlush, NoLostWakeup, FullPipeIsSeen, BatchInScope, PipeEventDue, ReadReady
<1>11. CASE SkipDelayTask
  BY <1>11 DEF SkipDelayTask, NextDue, NoLostWakeup, FullPipeIsSeen, BatchInScope, PipeEventDue, ReadReady
<1>12. CASE StartDelayTask
  BY <1>12 DEF StartDelayTask, NextDue, NoLostWakeup, FullPipeIsSeen, BatchInScope, PipeEventDue, ReadReady
<1>13. ASSUME NEW next_delay \in Delays \cup {0}, DelayTaskReturns(next_delay)
        PROVE  NoLostWakeup' /\ FullPipeIsSeen' /\ BatchInScope'
  BY <1>13 DEF DelayTaskReturns, NoLostWakeup, FullPipeIsSeen, BatchInScope, PipeEventDue, ReadReady
<1>14. CASE EndFlush
  BY <1>14 DEF EndFlush, WaitFor, NoLostWakeup, FullPipeIsSeen, BatchInScope, PipeEventDue, ReadReady
<1>15. CASE EndOfBatch
  BY <1>15 DEF EndOfBatch, Goto, NoLostWakeup, FullPipeIsSeen, BatchInScope, PipeEventDue, ReadReady
<1>16. CASE EventReturns
  BY <1>16 DEF EventReturns, ReturnTo, NoLostWakeup, FullPipeIsSeen, BatchInScope, PipeEventDue, ReadReady
<1>17. CASE RunExitTask
  BY <1>17 DEF RunExitTask, NextTask, NoLostWakeup, FullPipeIsSeen, BatchInScope, PipeEventDue, ReadReady
<1>18. CASE RunArmTask
  BY <1>18 DEF RunArmTask, NextTask, NoLostWakeup, FullPipeIsSeen, BatchInScope, PipeEventDue, ReadReady
<1>19. CASE RunUserTask
  BY <1>19 DEF RunUserTask, NextTask, NoLostWakeup, FullPipeIsSeen, BatchInScope, PipeEventDue, ReadReady
<1>20. CASE TaskReturns
  BY <1>20 DEF TaskReturns, ReturnTo, NoLostWakeup, FullPipeIsSeen, BatchInScope, PipeEventDue, ReadReady
<1>21. CASE EndOfTasks
  BY <1>21 DEF EndOfTasks, Goto, NoLostWakeup, FullPipeIsSeen, BatchInScope, PipeEventDue, ReadReady
<1>22. CASE EpollTimesOut
  BY <1>22 DEF EpollTimesOut, Awake, NoLostWakeup, FullPipeIsSeen, BatchInScope, PipeEventDue, ReadReady
<1>23. CASE EpollInterrupted
  BY <1>23 DEF EpollInterrupted, Awake, NoLostWakeup, FullPipeIsSeen, BatchInScope, PipeEventDue, ReadReady
<1>24. CASE Tick
  BY <1>24 DEF Tick, NoLostWakeup, FullPipeIsSeen, BatchInScope, PipeEventDue, ReadReady
<1>25. CASE EpollWait
  <2>1. events = <<>> /\ ~HasPipe(events)
    BY <1>25, NoPipeInEmpty DEF EpollWait, BatchInScope
  <2>2. ReadReady => HasPipe(events)'
    BY <1>25 DEF EpollWait
  <2>3. NoLostWakeup'
    BY <1>25, <2>1, <2>2 DEF EpollWait, Awake, NoLostWakeup, PipeEventDue
  <2>4. FullPipeIsSeen'
    <3>1. pipe = PipeCap => pipe > 0
      BY PipeAssumption
    <3> QED
      BY <1>25, <2>1, <2>2, <3>1
      DEF EpollWait, Awake, FullPipeIsSeen, ReadReady
  <2>5. BatchInScope'
    BY <1>25, <2>1 DEF EpollWait, Awake, BatchInScope
  <2> QED
    BY <2>3, <2>4, <2>5
<1>26. CASE Dispatch
  BY <1>26, EventsTail DEF Dispatch, TypeOK, NoLostWakeup, FullPipeIsSeen, BatchInScope, PipeEventDue, ReadReady
<1>27. CASE DrainPipe
  <2>1. pc' # "drain" => pc' = "swap" /\ pipe' # PipeCap
    BY <1>27, PipeAssumption DEF DrainPipe, Read, TypeOK, PipeTypeOK
  <2> QED
    BY <1>27, <2>1 DEF DrainPipe, NoLostWakeup, FullPipeIsSeen, BatchInScope, PipeEventDue, ReadReady
<1>28. CASE SwapLists
  BY <1>28 DEF SwapLists, NoLostWakeup, FullPipeIsSeen, BatchInScope, PipeEventDue, ReadReady
<1>29. CASE UNCHANGED vars
  BY <1>29 DEF vars, NoLostWakeup, FullPipeIsSeen, BatchInScope, PipeEventDue, ReadReady
<1> QED
  BY <1>1, <1>2, <1>3, <1>4, <1>5, <1>6, <1>7, <1>8, <1>9, <1>10, <1>11, <1>12, <1>13, <1>14, <1>15, <1>16, <1>17, <1>18, <1>19, <1>20, <1>21, <1>22, <1>23, <1>24, <1>25, <1>26, <1>27, <1>28, <1>29
  DEF Next, UserCalls, LoopSteps, FlushSteps, PipeEventSteps

LEMMA WakeupInit == Init => WakeupInv
<1> SUFFICES ASSUME Init PROVE WakeupInv
  OBVIOUS
<1>1. pipe # PipeCap
  BY PipeAssumption DEF Init, PipeInit
<1> QED
  BY <1>1, TypeInit
  DEF Init, WakeupInv, NoLostWakeup, FullPipeIsSeen, BatchInScope

(* The loop never sleeps on a task it was given: the self-pipe of async and  *)
(* on_pipe_event wakes it up for every capacity of the pipe, every size of   *)
(* its reads and every errno the callbacks leave behind.                     *)
THEOREM WakeupCorrect == Spec => []NoLostWakeup
<1>1. Init => WakeupInv
  BY WakeupInit
<1>2. WakeupInv => NoLostWakeup
  BY DEF WakeupInv
<1> QED
  BY <1>1, <1>2, WakeupNext, PTL DEF Spec
--------------------------------------------------------------------------------
LEMMA SmallModulo == \A m \in Nat \ {0}, d \in Nat : d < m => d % m = d
  OBVIOUS

(* A delay that an int can say is passed to epoll_wait unchanged. *)
LEMMA TimeoutInRange ==
    ASSUME NEW d \in Nat \ {0}, d <= IntMax
    PROVE  EpollTimeout(d) = d
<1>1. IntMax \in Nat \ {0}
  BY PollerAssumption
<1>2. d % (2 * (IntMax + 1)) = d
  BY <1>1, SmallModulo
<1> QED
  BY <1>1, <1>2 DEF EpollTimeout, ToInt

LEMMA WaitForEarliest ==
    ASSUME NEW entries \in SUBSET DelayRec, NEW t \in Nat, WaitFor(entries, t),
           \A e \in entries : e.at > t
    PROVE  IF entries = {}
           THEN timeout' = -1
           ELSE \E e \in entries :
                   /\ Earliest(e, entries)
                   /\ t < e.at
                   /\ e.at - t <= IntMax => timeout' = e.at - t
<1>1. CASE entries = {}
  BY <1>1 DEF WaitFor, EpollTimeout
<1>2. CASE entries # {}
  <2>1. PICK e \in entries : /\ Earliest(e, entries)
                             /\ timeout' = EpollTimeout(e.at - t)
    BY <1>2 DEF WaitFor
  <2>2. e.at \in Nat
    BY <2>1, PollerAssumption DEF DelayRec, Times
  <2>3. e.at - t \in Nat \ {0}
    BY <2>1, <2>2
  <2> QED
    BY <1>2, <2>1, <2>2, <2>3, TimeoutInRange
<1> QED
  BY <1>1, <1>2

LEMMA SleepNext ==
    TypeOK /\ SleepsUntilEarliest /\ [Next]_vars => SleepsUntilEarliest'
<1> SUFFICES ASSUME TypeOK, SleepsUntilEarliest, [Next]_vars, pc' = "wait"
             PROVE  SleepsUntilEarliest'
  BY DEF SleepsUntilEarliest
<1>1. CASE GetMinDelay
  BY <1>1, WaitForEarliest DEF GetMinDelay, SleepsUntilEarliest, TypeOK, Earliest
<1>2. CASE EndFlush
  BY <1>2, WaitForEarliest DEF EndFlush, SleepsUntilEarliest, TypeOK, Earliest
<1>3. ASSUME ~GetMinDelay, ~EndFlush
      PROVE  pc = "wait" /\ UNCHANGED <<now, timeout, delay_tasks_>>
  BY <1>3
  DEF outerVars, Next, UserCalls, LoopSteps, FlushSteps, PipeEventSteps, vars, delayVars,
      Async, AsyncFirst, DoDelayTask, Submit, Cancel, Shutdown, RunLoop, Destroy,
      UserInControl, LeaveLoop, StartFlush, SkipDelayTask, StartDelayTask, NextDue,
      DelayTaskReturns, EndOfBatch, Dispatch, EventReturns, DrainPipe, SwapLists,
      RunExitTask, RunArmTask, RunUserTask, NextTask, TaskReturns, EndOfTasks,
      EpollWait, EpollTimesOut, EpollInterrupted, Awake, Goto, ReturnTo, Tick
<1> QED
  BY <1>1, <1>2, <1>3 DEF SleepsUntilEarliest, Earliest

(* The loop never oversleeps a delay task by more than epoll_wait itself     *)
(* does, whatever the delays, as long as they fit in an int; it sleeps       *)
(* without end only when there is nothing to wait for.                       *)
THEOREM SleepCorrect == Spec => []SleepsUntilEarliest
<1>1. Init => SleepsUntilEarliest
  BY DEF Init, SleepsUntilEarliest
<1> QED
  BY <1>1, TypeCorrect, SleepNext, PTL DEF Spec
--------------------------------------------------------------------------------
(* Conservation: what EventPoller holds, its two lists and two multimaps, are *)
(* the pending tasks.                                                         *)

(* The ids a list of tasks holds, those a set of entries holds. *)
IdsIn(list) == {list[i].id : i \in DOMAIN list} \ {NoId}
IdsOf(entries) == {e.id : e \in entries}

NoRepeat(list) ==
    \A i, j \in DOMAIN list : list[i].id = list[j].id /\ list[i].id # NoId => i = j
OneEach(entries) == \A e, f \in entries : e.id = f.id => e = f

(* on_pipe_event starts with an empty swap_list. *)
ListInScope == swap_list # <<>> => pc \in {"tasks", "task"}

(* While flush_delay_tasks has the entries, delay_tasks_ has none. *)
CopyInScope == IF pc \in {"flush", "delay"} THEN delay_tasks_ = {}
                                            ELSE delay_tasks_copy = {}

Pending == {x \in Ids : state[x] = "pending"}

(* The two lists and the two multimaps share the pending tasks out: each is  *)
(* in one of them, once.                                                     *)
HeldOnce ==
    /\ NoRepeat(swap_list) /\ NoRepeat(task_list_)
    /\ OneEach(delay_tasks_) /\ OneEach(delay_tasks_copy)
    /\ IdsIn(swap_list) \cap IdsIn(task_list_) = {}
    /\ IdsOf(delay_tasks_) \cap IdsOf(delay_tasks_copy) = {}
    /\ (IdsIn(swap_list) \cup IdsIn(task_list_)) \cap
          (IdsOf(delay_tasks_) \cup IdsOf(delay_tasks_copy)) = {}
    /\ IdsIn(swap_list) \cup IdsIn(task_list_) \cup
          IdsOf(delay_tasks_) \cup IdsOf(delay_tasks_copy)
          = Pending

ConservedInv == TypeOK /\ ListInScope /\ CopyInScope /\ HeldOnce

(* What ~EventPoller owes is done, or is in the list it is about to take or  *)
(* in the one it took.                                                       *)
BacklogAhead ==
    /\ pc = "destroyed" => destroying
    /\ destroying => \A t \in owed :
          \/ state[t] = "done"
          \/ state[t] = "pending" /\ (pc \in {"drain", "swap"} \/ t \in IdsIn(swap_list))
--------------------------------------------------------------------------------
LEMMA TaskIds == \A x \in TaskRec : /\ x.id \in Ids \cup {NoId}
                                    /\ x.kind = "exit" => x.id = NoId
                                    /\ x.kind = "user" => x.id \in Tasks
                                    /\ x.kind = "arm" => x.id \in Timers
  BY DEF TaskRec, UserTask, ExitTask, ArmTask, Ids

LEMMA IdsInEmpty == IdsIn(<<>>) = {} /\ NoRepeat(<<>>)
  BY DEF IdsIn, NoRepeat

LEMMA AppendIds ==
    ASSUME NEW s \in Seq(TaskRec), NEW x \in TaskRec
    PROVE  /\ IdsIn(Append(s, x)) = IdsIn(s) \cup ({x.id} \ {NoId})
           /\ NoRepeat(s) /\ x.id \notin IdsIn(s) => NoRepeat(Append(s, x))
<1>1. /\ DOMAIN s = 1..Len(s)
      /\ DOMAIN Append(s, x) = 1..(Len(s) + 1)
      /\ Len(s) \in Nat
  BY AppendProperties, LenProperties
<1>2. /\ \A i \in 1..Len(s) : Append(s, x)[i] = s[i]
      /\ Append(s, x)[Len(s) + 1] = x
  BY AppendProperties
<1>3. 1..(Len(s) + 1) = (1..Len(s)) \cup {Len(s) + 1}
  BY <1>1
<1> HIDE DEF TaskRec
<1>4. IdsIn(Append(s, x)) = IdsIn(s) \cup ({x.id} \ {NoId})
  BY <1>1, <1>2, <1>3 DEF IdsIn
<1>5. ASSUME NoRepeat(s), x.id \notin IdsIn(s) PROVE NoRepeat(Append(s, x))
  BY <1>1, <1>2, <1>3, <1>5 DEF IdsIn, NoRepeat
<1> QED
  BY <1>4, <1>5

LEMMA PrependIds ==
    ASSUME NEW s \in Seq(TaskRec), NEW x \in TaskRec
    PROVE  /\ IdsIn(<<x>> \o s) = IdsIn(s) \cup ({x.id} \ {NoId})
           /\ NoRepeat(s) /\ x.id \notin IdsIn(s) => NoRepeat(<<x>> \o s)
<1> DEFINE p == <<x>> \o s
<1>1. /\ DOMAIN s = 1..Len(s)
      /\ Len(s) \in Nat
      /\ p \in Seq(TaskRec)
      /\ Len(p) = Len(s) + 1
      /\ DOMAIN p = 1..(Len(s) + 1)
  BY ConcatProperties, LenProperties
<1>2. /\ p[1] = x
      /\ \A i \in 1..Len(s) : p[i + 1] = s[i]
  BY ConcatProperties, LenProperties
<1> HIDE DEF p
<1>3. \A i \in DOMAIN p : \/ i = 1 /\ p[i] = x
                          \/ i - 1 \in DOMAIN s /\ p[i] = s[i - 1]
  <2> TAKE i \in DOMAIN p
  <2>1. CASE i = 1
    BY <2>1, <1>2
  <2>2. CASE i # 1
    <3>1. i - 1 \in 1..Len(s) /\ (i - 1) + 1 = i
      BY <2>2, <1>1
    <3> QED
      BY <3>1, <1>1, <1>2
  <2> QED
    BY <2>1, <2>2
<1>4. IdsIn(p) = IdsIn(s) \cup ({x.id} \ {NoId})
  <2>1. IdsIn(p) \subseteq IdsIn(s) \cup ({x.id} \ {NoId})
    BY <1>3 DEF IdsIn
  <2>2. \A i \in DOMAIN s : i + 1 \in DOMAIN p /\ p[i + 1] = s[i]
    BY <1>1, <1>2
  <2>3. 1 \in DOMAIN p
    BY <1>1
  <2>4. IdsIn(s) \subseteq IdsIn(p)
    BY <2>2 DEF IdsIn
  <2>5. {x.id} \ {NoId} \subseteq IdsIn(p)
    BY <2>3, <1>2 DEF IdsIn
  <2> QED
    BY <2>1, <2>4, <2>5
<1>5. ASSUME NoRepeat(s), x.id \notin IdsIn(s) PROVE NoRepeat(p)
  <2> SUFFICES ASSUME NEW i \in DOMAIN p, NEW j \in DOMAIN p,
                      p[i].id = p[j].id, p[i].id # NoId
               PROVE  i = j
    BY DEF NoRepeat
  <2>1. i \in Nat /\ j \in Nat
    BY <1>1
  <2>2. CASE i = 1 /\ j = 1
    BY <2>2
  <2>3. CASE i # 1 /\ j # 1
    <3>1. i - 1 = j - 1
      BY <2>3, <1>3, <1>5 DEF NoRepeat
    <3> QED
      BY <3>1, <2>1
  <2>4. CASE i = 1 /\ j # 1
    BY <2>4, <1>2, <1>3, <1>5 DEF IdsIn
  <2>5. CASE i # 1 /\ j = 1
    BY <2>5, <1>2, <1>3, <1>5 DEF IdsIn
  <2> QED
    BY <2>2, <2>3, <2>4, <2>5
<1> QED
  BY <1>4, <1>5 DEF p

LEMMA TailIds ==
    ASSUME NEW s \in Seq(TaskRec), s # <<>>
    PROVE  /\ Head(s) \in TaskRec
           /\ IdsIn(s) = IdsIn(Tail(s)) \cup ({Head(s).id} \ {NoId})
           /\ NoRepeat(s) => NoRepeat(Tail(s)) /\ Head(s).id \notin IdsIn(Tail(s))
<1> DEFINE t == Tail(s)
<1>1. /\ DOMAIN s = 1..Len(s)
      /\ Len(s) \in Nat \ {0}
      /\ t \in Seq(TaskRec)
      /\ DOMAIN t = 1..(Len(s) - 1)
      /\ Head(s) = s[1]
      /\ Head(s) \in TaskRec
  BY HeadTailProperties, LenProperties, EmptySeq
<1>2. \A i \in DOMAIN t : t[i] = s[i + 1] /\ i + 1 \in DOMAIN s /\ i + 1 # 1
  BY <1>1, HeadTailProperties
<1> HIDE DEF t
<1>3. \A i \in DOMAIN s : \/ i = 1
                          \/ i - 1 \in DOMAIN t /\ s[i] = t[i - 1]
  <2> TAKE i \in DOMAIN s
  <2>1. CASE i # 1
    <3>1. i - 1 \in DOMAIN t /\ (i - 1) + 1 = i
      BY <2>1, <1>1
    <3> QED
      BY <3>1, <1>2
  <2> QED
    BY <2>1
<1>4. 1 \in DOMAIN s
  BY <1>1
<1>5. IdsIn(s) = IdsIn(t) \cup ({Head(s).id} \ {NoId})
  <2>1. IdsIn(s) \subseteq IdsIn(t) \cup ({Head(s).id} \ {NoId})
    BY <1>1, <1>3 DEF IdsIn
  <2>2. IdsIn(t) \subseteq IdsIn(s)
    BY <1>2 DEF IdsIn
  <2>3. {Head(s).id} \ {NoId} \subseteq IdsIn(s)
    BY <1>1, <1>4 DEF IdsIn
  <2> QED
    BY <2>1, <2>2, <2>3
<1>6. ASSUME NoRepeat(s) PROVE NoRepeat(t) /\ Head(s).id \notin IdsIn(t)
  <2>1. NoRepeat(t)
    <3> SUFFICES ASSUME NEW i \in DOMAIN t, NEW j \in DOMAIN t,
                        t[i].id = t[j].id, t[i].id # NoId
                 PROVE  i = j
      BY DEF NoRepeat
    <3>1. i + 1 = j + 1
      BY <1>2, <1>6 DEF NoRepeat
    <3> QED
      BY <3>1, <1>1
  <2>2. Head(s).id \notin IdsIn(t)
    BY <1>1, <1>2, <1>4, <1>6 DEF IdsIn, NoRepeat
  <2> QED
    BY <2>1, <2>2
<1> QED
  BY <1>1, <1>5, <1>6 DEF t

LEMMA AsyncIds ==
    ASSUME TypeOK, HeldOnce, NEW task \in TaskRec, NEW first, async(task, first),
           task.id \notin IdsIn(task_list_)
    PROVE  /\ IdsIn(task_list_)' = IdsIn(task_list_) \cup ({task.id} \ {NoId})
           /\ NoRepeat(task_list_)'
<1>1. task_list_ \in Seq(TaskRec) /\ NoRepeat(task_list_)
  BY DEF TypeOK, HeldOnce
<1>2. CASE task_list_' = <<task>> \o task_list_
  <2>1. IdsIn(<<task>> \o task_list_) = IdsIn(task_list_) \cup ({task.id} \ {NoId})
    BY <1>1, PrependIds
  <2>2. NoRepeat(<<task>> \o task_list_)
    BY <1>1, PrependIds
  <2>3. IdsIn(task_list_)' = IdsIn(<<task>> \o task_list_)
    BY <1>2 DEF IdsIn
  <2>4. NoRepeat(task_list_)'
    BY <1>2, <2>2 DEF NoRepeat
  <2> QED
    BY <2>1, <2>3, <2>4
<1>3. CASE task_list_' = Append(task_list_, task)
  <2>1. IdsIn(Append(task_list_, task)) = IdsIn(task_list_) \cup ({task.id} \ {NoId})
    BY <1>1, AppendIds
  <2>2. NoRepeat(Append(task_list_, task))
    BY <1>1, AppendIds
  <2>3. IdsIn(task_list_)' = IdsIn(Append(task_list_, task))
    BY <1>3 DEF IdsIn
  <2>4. NoRepeat(task_list_)'
    BY <1>3, <2>2 DEF NoRepeat
  <2> QED
    BY <2>1, <2>3, <2>4
<1> QED
  BY <1>2, <1>3 DEF async

(* A step that touches none of what holds tasks, nor their states. *)
LEMMA HeldKept ==
    HeldOnce /\ UNCHANGED <<swap_list, task_list_, delay_tasks_, delay_tasks_copy, state>>
        => HeldOnce'
<1> SUFFICES ASSUME HeldOnce, UNCHANGED <<swap_list, task_list_, delay_tasks_,
                                          delay_tasks_copy, state>>
             PROVE  HeldOnce'
  OBVIOUS
<1>1. /\ IdsIn(swap_list)' = IdsIn(swap_list) /\ NoRepeat(swap_list)'
      /\ IdsIn(task_list_)' = IdsIn(task_list_) /\ NoRepeat(task_list_)'
      /\ IdsOf(delay_tasks_)' = IdsOf(delay_tasks_) /\ OneEach(delay_tasks_)'
      /\ IdsOf(delay_tasks_copy)' = IdsOf(delay_tasks_copy) /\ OneEach(delay_tasks_copy)'
      /\ Pending' = Pending
  BY DEF HeldOnce, IdsIn, IdsOf, NoRepeat, OneEach, Pending
<1> QED
  BY <1>1 DEF HeldOnce

(* A submission makes its task pending and puts it into task_list_. *)
LEMMA SubmitHeld ==
    ASSUME TypeOK, HeldOnce, NEW x \in Ids, NEW task \in TaskRec, task.id = x,
           NEW first, async(task, first), Submit(x)
    PROVE  HeldOnce'
<1>1. x \notin IdsIn(swap_list) /\ x \notin IdsIn(task_list_)
      /\ x \notin IdsOf(delay_tasks_) /\ x \notin IdsOf(delay_tasks_copy)
  BY DEF HeldOnce, Pending, Submit
<1>2. IdsIn(task_list_)' = IdsIn(task_list_) \cup {x} /\ NoRepeat(task_list_)'
  BY <1>1, AsyncIds, PollerAssumption
<1>3. {y \in Ids : state[y] = "pending"}' = {y \in Ids : state[y] = "pending"} \cup {x}
  BY DEF Submit, TypeOK
<1>4. /\ IdsIn(swap_list)' = IdsIn(swap_list) /\ NoRepeat(swap_list)'
      /\ IdsOf(delay_tasks_)' = IdsOf(delay_tasks_) /\ OneEach(delay_tasks_)'
      /\ IdsOf(delay_tasks_copy)' = IdsOf(delay_tasks_copy) /\ OneEach(delay_tasks_copy)'
  BY DEF Submit, delayVars, HeldOnce, IdsIn, IdsOf, NoRepeat, OneEach
<1> QED
  BY <1>1, <1>2, <1>3, <1>4 DEF HeldOnce, Pending

(* An ExitException counts for no task. *)
LEMMA ExitHeld ==
    ASSUME TypeOK, HeldOnce, NEW first, async(ExitTask, first),
           UNCHANGED <<swap_list, delay_tasks_, delay_tasks_copy, state>>
    PROVE  HeldOnce'
<1>1. IdsIn(task_list_)' = IdsIn(task_list_) /\ NoRepeat(task_list_)'
  BY AsyncIds, TaskType DEF ExitTask, IdsIn
<1>2. /\ IdsIn(swap_list)' = IdsIn(swap_list) /\ NoRepeat(swap_list)'
      /\ IdsOf(delay_tasks_)' = IdsOf(delay_tasks_) /\ OneEach(delay_tasks_)'
      /\ IdsOf(delay_tasks_copy)' = IdsOf(delay_tasks_copy) /\ OneEach(delay_tasks_copy)'
      /\ Pending' = Pending
  BY DEF HeldOnce, IdsIn, IdsOf, NoRepeat, OneEach, Pending
<1> QED
  BY <1>1, <1>2 DEF HeldOnce

(* The task at the head of swap_list leaves it. *)
LEMMA NextTaskIds ==
    ASSUME TypeOK, HeldOnce, NEW kind, NextTask(kind)
    PROVE  /\ Head(swap_list) \in TaskRec
           /\ NoRepeat(swap_list)'
           /\ Head(swap_list).id \notin IdsIn(swap_list)'
           /\ IdsIn(swap_list) = IdsIn(swap_list)' \cup ({Head(swap_list).id} \ {NoId})
<1>1. swap_list \in Seq(TaskRec) /\ swap_list # <<>> /\ NoRepeat(swap_list)
  BY DEF TypeOK, HeldOnce, NextTask
<1>2. IdsIn(swap_list)' = IdsIn(Tail(swap_list))
  BY DEF NextTask, IdsIn
<1>3. NoRepeat(swap_list)' <=> NoRepeat(Tail(swap_list))
  BY DEF NextTask, NoRepeat
<1> QED
  BY <1>1, <1>2, <1>3, TailIds

(* The copy of the multimap, with an entry less or put back later. *)
LEMMA CopyHeld ==
    ASSUME TypeOK, HeldOnce, NEW d \in Timers, NEW e \in delay_tasks_copy, e.id = d,
           UNCHANGED <<swap_list, task_list_, delay_tasks_>>,
           \/ /\ delay_tasks_copy' = delay_tasks_copy \ {e}
              /\ state' = [state EXCEPT ![d] = "done"]
           \/ /\ \E at : delay_tasks_copy' = (delay_tasks_copy \ {e}) \cup {Entry(d, at)}
              /\ UNCHANGED state
    PROVE  HeldOnce'
<1>1. /\ IdsIn(swap_list)' = IdsIn(swap_list) /\ NoRepeat(swap_list)'
      /\ IdsIn(task_list_)' = IdsIn(task_list_) /\ NoRepeat(task_list_)'
      /\ IdsOf(delay_tasks_)' = IdsOf(delay_tasks_) /\ OneEach(delay_tasks_)'
  BY DEF HeldOnce, IdsIn, IdsOf, NoRepeat, OneEach
<1>2. \A f \in delay_tasks_copy : f.id = d => f = e
  BY DEF HeldOnce, OneEach
<1>3. CASE /\ delay_tasks_copy' = delay_tasks_copy \ {e}
           /\ state' = [state EXCEPT ![d] = "done"]
  <2>1. OneEach(delay_tasks_copy)'
    BY <1>3 DEF HeldOnce, OneEach
  <2>2. IdsOf(delay_tasks_copy)' = IdsOf(delay_tasks_copy) \ {d}
    BY <1>2, <1>3 DEF IdsOf
  <2>3. Pending' = Pending \ {d}
    BY <1>3 DEF Pending, TypeOK
  <2>4. d \in IdsOf(delay_tasks_copy)
    BY DEF IdsOf
  <2> QED
    BY <1>1, <2>1, <2>2, <2>3, <2>4 DEF HeldOnce
<1>4. ASSUME NEW at, delay_tasks_copy' = (delay_tasks_copy \ {e}) \cup {Entry(d, at)},
             UNCHANGED state
      PROVE  HeldOnce'
  <2>1. Entry(d, at).id = d
    BY DEF Entry
  <2>2. OneEach(delay_tasks_copy)'
    BY <1>2, <1>4, <2>1 DEF HeldOnce, OneEach
  <2>3. IdsOf(delay_tasks_copy)' = IdsOf(delay_tasks_copy)
    BY <1>2, <1>4, <2>1 DEF IdsOf
  <2>4. Pending' = Pending
    BY <1>4 DEF Pending
  <2> QED
    BY <1>1, <2>2, <2>3, <2>4 DEF HeldOnce
<1> QED
  BY <1>3, <1>4

LEMMA HeldInit == Init => ListInScope /\ CopyInScope /\ HeldOnce
<1> SUFFICES ASSUME Init PROVE ListInScope /\ CopyInScope /\ HeldOnce
  OBVIOUS
<1>1. IdsIn(swap_list) = {} /\ IdsIn(task_list_) = {}
  BY IdsInEmpty DEF Init
<1>2. IdsOf(delay_tasks_) = {} /\ IdsOf(delay_tasks_copy) = {} /\ Pending = {}
  BY DEF Init, IdsOf, Pending
<1>3. /\ NoRepeat(swap_list) /\ NoRepeat(task_list_)
      /\ OneEach(delay_tasks_) /\ OneEach(delay_tasks_copy)
  BY IdsInEmpty DEF Init, OneEach
<1> QED
  BY <1>1, <1>2, <1>3 DEF Init, ListInScope, CopyInScope, HeldOnce

LEMMA HeldNext == ConservedInv /\ [Next]_vars => HeldOnce'
<1> SUFFICES ASSUME ConservedInv, [Next]_vars PROVE HeldOnce'
  OBVIOUS
<1> USE DEF ConservedInv, pipeVars, taskVars, delayVars, dtorVars, userVars, outerVars
<1>1. ASSUME NEW t \in Tasks, Async(t) PROVE HeldOnce'
  BY <1>1, SubmitHeld, TaskType DEF Async, UserTask, Ids
<1>2. ASSUME NEW t \in Tasks, AsyncFirst(t) PROVE HeldOnce'
  BY <1>2, SubmitHeld, TaskType DEF AsyncFirst, UserTask, Ids
<1>3. ASSUME NEW d \in Timers, NEW delay_ms \in Delays \cup {0}, DoDelayTask(d, delay_ms)
      PROVE  HeldOnce'
  <2>1. ArmTask(d, Timeline(delay_ms, clock)) \in TaskRec
    BY TimelineType, TaskType, PollerAssumption DEF TypeOK
  <2> QED
    BY <1>3, <2>1, SubmitHeld DEF DoDelayTask, ArmTask, Ids
<1>4. CASE Shutdown
  BY <1>4, ExitHeld DEF Shutdown
<1>5. CASE Destroy
  BY <1>5, ExitHeld DEF Destroy
<1>6. CASE StartFlush
  <2>1. delay_tasks_copy = {}
    BY <1>6 DEF StartFlush, CopyInScope
  <2>2. /\ IdsOf(delay_tasks_copy)' = IdsOf(delay_tasks_)
        /\ IdsOf(delay_tasks_)' = {}
        /\ IdsOf(delay_tasks_copy) = {}
        /\ OneEach(delay_tasks_)' /\ OneEach(delay_tasks_copy)'
    BY <1>6, <2>1 DEF StartFlush, HeldOnce, IdsOf, OneEach
  <2>3. /\ IdsIn(swap_list)' = IdsIn(swap_list) /\ NoRepeat(swap_list)'
        /\ IdsIn(task_list_)' = IdsIn(task_list_) /\ NoRepeat(task_list_)'
        /\ Pending' = Pending
    BY <1>6 DEF StartFlush, HeldOnce, IdsIn, NoRepeat, Pending
  <2> QED
    BY <2>2, <2>3 DEF HeldOnce
<1>7. CASE SkipDelayTask
  <2>1. PICK e \in delay_tasks_copy : SkipDelayTask!(e)
    BY <1>7 DEF SkipDelayTask
  <2>2. e.id \in Timers
    BY <2>1 DEF TypeOK, DelayRec
  <2> QED
    BY <2>1, <2>2, CopyHeld
<1>8. ASSUME NEW next_delay \in Delays \cup {0}, DelayTaskReturns(next_delay)
      PROVE  HeldOnce'
  <2>1. cur \in delay_tasks_copy /\ cur.id \in Timers
    BY <1>8 DEF DelayTaskReturns, TypeOK, DelayRec
  <2>2. UNCHANGED <<swap_list, task_list_, delay_tasks_>>
    BY <1>8 DEF DelayTaskReturns
  <2>3. \/ /\ delay_tasks_copy' = delay_tasks_copy \ {cur}
           /\ state' = [state EXCEPT ![cur.id] = "done"]
        \/ /\ \E at : delay_tasks_copy' = (delay_tasks_copy \ {cur}) \cup {Entry(cur.id, at)}
           /\ UNCHANGED state
    BY <1>8 DEF DelayTaskReturns
  <2> QED
    BY <2>1, <2>2, <2>3, CopyHeld
<1>9. CASE EndFlush
  <2>1. delay_tasks_ = {}
    BY <1>9 DEF EndFlush, CopyInScope
  <2>2. /\ IdsOf(delay_tasks_)' = IdsOf(delay_tasks_copy)
        /\ IdsOf(delay_tasks_copy)' = {}
        /\ IdsOf(delay_tasks_) = {}
        /\ OneEach(delay_tasks_)' /\ OneEach(delay_tasks_copy)'
    BY <1>9, <2>1 DEF EndFlush, HeldOnce, IdsOf, OneEach
  <2>3. /\ IdsIn(swap_list)' = IdsIn(swap_list) /\ NoRepeat(swap_list)'
        /\ IdsIn(task_list_)' = IdsIn(task_list_) /\ NoRepeat(task_list_)'
        /\ Pending' = Pending
    BY <1>9 DEF EndFlush, HeldOnce, IdsIn, NoRepeat, Pending
  <2> QED
    BY <2>2, <2>3 DEF HeldOnce
<1>10. CASE SwapLists
  <2>1. swap_list = <<>>
    BY <1>10 DEF SwapLists, ListInScope
  <2>2. /\ IdsIn(swap_list)' = IdsIn(task_list_)
        /\ IdsIn(task_list_)' = {}
        /\ IdsIn(swap_list) = {}
        /\ NoRepeat(swap_list)' /\ NoRepeat(task_list_)'
    BY <1>10, <2>1, IdsInEmpty DEF SwapLists, HeldOnce, IdsIn, NoRepeat
  <2>3. /\ IdsOf(delay_tasks_)' = IdsOf(delay_tasks_) /\ OneEach(delay_tasks_)'
        /\ IdsOf(delay_tasks_copy)' = IdsOf(delay_tasks_copy) /\ OneEach(delay_tasks_copy)'
        /\ Pending' = Pending
    BY <1>10 DEF SwapLists, HeldOnce, IdsOf, OneEach, Pending
  <2> QED
    BY <2>2, <2>3 DEF HeldOnce
<1>11. CASE RunExitTask
  <2>1. Head(swap_list) \in TaskRec /\ NoRepeat(swap_list)'
    BY <1>11, NextTaskIds DEF RunExitTask
  <2>2. Head(swap_list).id = NoId
    BY <1>11, <2>1, TaskIds DEF RunExitTask, NextTask
  <2>3. IdsIn(swap_list)' = IdsIn(swap_list)
    BY <1>11, <2>2, NextTaskIds DEF RunExitTask, IdsIn
  <2>4. /\ IdsIn(task_list_)' = IdsIn(task_list_) /\ NoRepeat(task_list_)'
        /\ IdsOf(delay_tasks_)' = IdsOf(delay_tasks_) /\ OneEach(delay_tasks_)'
        /\ IdsOf(delay_tasks_copy)' = IdsOf(delay_tasks_copy) /\ OneEach(delay_tasks_copy)'
        /\ Pending' = Pending
    BY <1>11 DEF RunExitTask, HeldOnce, IdsIn, IdsOf, NoRepeat, OneEach, Pending
  <2> QED
    BY <2>1, <2>3, <2>4 DEF HeldOnce
<1>12. CASE RunArmTask
  <2> DEFINE d == Head(swap_list).id
  <2>1. Head(swap_list) \in TaskRec /\ NoRepeat(swap_list)' /\ d \notin IdsIn(swap_list)'
    BY <1>12, NextTaskIds DEF RunArmTask
  <2>2. d \in Timers /\ d # NoId
    BY <1>12, <2>1, TaskIds, PollerAssumption DEF RunArmTask, NextTask, Ids
  <2>3. IdsIn(swap_list) = IdsIn(swap_list)' \cup {d}
    BY <1>12, <2>2, NextTaskIds DEF RunArmTask
  <2>4. d \notin IdsOf(delay_tasks_) /\ d \notin IdsOf(delay_tasks_copy)
        /\ d \notin IdsIn(task_list_)
    BY <2>3 DEF HeldOnce
  <2>5. Entry(d, Head(swap_list).at).id = d
    BY DEF Entry
  <2>6. delay_tasks_' = delay_tasks_ \cup {Entry(d, Head(swap_list).at)}
    BY <1>12 DEF RunArmTask
  <2> HIDE DEF d
  <2>7. IdsOf(delay_tasks_)' = IdsOf(delay_tasks_) \cup {d}
    BY <2>5, <2>6 DEF IdsOf
  <2>8. OneEach(delay_tasks_)'
    BY <2>4, <2>5, <2>6 DEF HeldOnce, OneEach, IdsOf
  <2>9. /\ IdsIn(task_list_)' = IdsIn(task_list_) /\ NoRepeat(task_list_)'
        /\ IdsOf(delay_tasks_copy)' = IdsOf(delay_tasks_copy) /\ OneEach(delay_tasks_copy)'
        /\ Pending' = Pending
    BY <1>12 DEF RunArmTask, HeldOnce, IdsIn, IdsOf, NoRepeat, OneEach, Pending
  <2> QED
    BY <2>1, <2>3, <2>4, <2>7, <2>8, <2>9 DEF HeldOnce
<1>13. CASE RunUserTask
  <2> DEFINE t == Head(swap_list).id
  <2>1. Head(swap_list) \in TaskRec /\ NoRepeat(swap_list)' /\ t \notin IdsIn(swap_list)'
    BY <1>13, NextTaskIds DEF RunUserTask
  <2>2. t \in Tasks /\ t \in Ids /\ t # NoId
    BY <1>13, <2>1, TaskIds, PollerAssumption DEF RunUserTask, NextTask, Ids
  <2>3. IdsIn(swap_list) = IdsIn(swap_list)' \cup {t}
    BY <1>13, <2>2, NextTaskIds DEF RunUserTask
  <2>4. Pending' = Pending \ {t}
    BY <1>13, <2>2 DEF RunUserTask, Pending, TypeOK
  <2>5. /\ IdsIn(task_list_)' = IdsIn(task_list_) /\ NoRepeat(task_list_)'
        /\ IdsOf(delay_tasks_)' = IdsOf(delay_tasks_) /\ OneEach(delay_tasks_)'
        /\ IdsOf(delay_tasks_copy)' = IdsOf(delay_tasks_copy) /\ OneEach(delay_tasks_copy)'
    BY <1>13 DEF RunUserTask, HeldOnce, IdsIn, IdsOf, NoRepeat, OneEach
  <2> HIDE DEF t
  <2> QED
    BY <2>1, <2>3, <2>4, <2>5 DEF HeldOnce
<1>14. ASSUME NEW x \in Ids, Cancel(x) PROVE HeldOnce'
  BY <1>14, HeldKept DEF Cancel
<1>15. CASE RunLoop
  BY <1>15, HeldKept DEF RunLoop
<1>16. CASE LeaveLoop \/ EndOfBatch \/ EndOfTasks
  BY <1>16, HeldKept DEF LeaveLoop, EndOfBatch, EndOfTasks, Goto
<1>17. CASE EventReturns \/ TaskReturns
  BY <1>17, HeldKept DEF EventReturns, TaskReturns, ReturnTo
<1>18. CASE GetMinDelay
  BY <1>18, HeldKept DEF GetMinDelay
<1>19. CASE StartDelayTask
  BY <1>19, HeldKept DEF StartDelayTask
<1>20. CASE Dispatch \/ DrainPipe \/ Tick
  BY <1>20, HeldKept DEF Dispatch, DrainPipe, Tick
<1>21. CASE EpollWait \/ EpollTimesOut \/ EpollInterrupted
  BY <1>21, HeldKept DEF EpollWait, EpollTimesOut, EpollInterrupted, Awake
<1>22. CASE UNCHANGED vars
  BY <1>22, HeldKept DEF vars
<1> QED
  BY <1>1, <1>2, <1>3, <1>4, <1>5, <1>6, <1>7, <1>8, <1>9, <1>10, <1>11, <1>12, <1>13, <1>14,
     <1>15, <1>16, <1>17, <1>18, <1>19, <1>20, <1>21, <1>22
  DEF Next, UserCalls, LoopSteps, FlushSteps, PipeEventSteps

LEMMA ScopeNext == ConservedInv /\ [Next]_vars => ListInScope' /\ CopyInScope'
<1> SUFFICES ASSUME ConservedInv, [Next]_vars PROVE ListInScope' /\ CopyInScope'
  OBVIOUS
<1> USE DEF ConservedInv, ListInScope, CopyInScope,
            pipeVars, taskVars, delayVars, dtorVars, userVars, outerVars
<1>1. ASSUME NEW x \in Ids, Submit(x) PROVE ListInScope' /\ CopyInScope'
  BY <1>1 DEF Submit
<1>2. ASSUME NEW x \in Ids, Cancel(x) PROVE ListInScope' /\ CopyInScope'
  BY <1>2 DEF Cancel
<1>3. CASE Shutdown \/ RunLoop \/ Destroy
  BY <1>3 DEF Shutdown, RunLoop, Destroy
<1>4. CASE LeaveLoop \/ EndOfBatch \/ EndOfTasks
  BY <1>4 DEF LeaveLoop, EndOfBatch, EndOfTasks, Goto
<1>5. CASE EventReturns \/ TaskReturns
  BY <1>5 DEF EventReturns, TaskReturns, ReturnTo
<1>6. CASE GetMinDelay \/ StartFlush \/ EndFlush
  BY <1>6 DEF GetMinDelay, StartFlush, EndFlush, WaitFor
<1>7. CASE SkipDelayTask \/ StartDelayTask
  BY <1>7 DEF SkipDelayTask, StartDelayTask, NextDue
<1>8. ASSUME NEW next_delay \in Delays \cup {0}, DelayTaskReturns(next_delay)
      PROVE  ListInScope' /\ CopyInScope'
  BY <1>8 DEF DelayTaskReturns
<1>9. CASE Dispatch \/ DrainPipe \/ SwapLists
  BY <1>9 DEF Dispatch, DrainPipe, SwapLists
<1>10. CASE RunExitTask \/ RunArmTask \/ RunUserTask
  BY <1>10 DEF RunExitTask, RunArmTask, RunUserTask, NextTask
<1>11. CASE EpollWait \/ EpollTimesOut \/ EpollInterrupted
  BY <1>11 DEF EpollWait, EpollTimesOut, EpollInterrupted, Awake
<1>12. CASE Tick
  BY <1>12 DEF Tick
<1>13. CASE UNCHANGED vars
  BY <1>13 DEF vars
<1> QED
  BY <1>1, <1>2, <1>3, <1>4, <1>5, <1>6, <1>7, <1>8, <1>9, <1>10, <1>11, <1>12, <1>13
  DEF Ids, Next, UserCalls, LoopSteps, FlushSteps, PipeEventSteps, Async, AsyncFirst, DoDelayTask

LEMMA ConservedNext == ConservedInv /\ [Next]_vars => ConservedInv'
  BY TypeNext, ScopeNext, HeldNext DEF ConservedInv

LEMMA ConservedAlways == Spec => []ConservedInv
<1>1. Init => ConservedInv
  BY TypeInit, HeldInit DEF ConservedInv
<1> QED
  BY <1>1, ConservedNext, PTL DEF Spec
--------------------------------------------------------------------------------
LEMMA ConcatIds ==
    ASSUME NEW s \in Seq(TaskRec), NEW r \in Seq(TaskRec)
    PROVE  /\ IdsIn(s \o r) = IdsIn(s) \cup IdsIn(r)
           /\ NoRepeat(s) /\ NoRepeat(r) /\ IdsIn(s) \cap IdsIn(r) = {} => NoRepeat(s \o r)
<1> DEFINE q == s \o r
<1>1. /\ DOMAIN s = 1..Len(s) /\ DOMAIN r = 1..Len(r)
      /\ Len(s) \in Nat /\ Len(r) \in Nat
      /\ DOMAIN q = 1..(Len(s) + Len(r))
  BY ConcatProperties, LenProperties
<1>2. /\ \A i \in DOMAIN s : i \in DOMAIN q /\ q[i] = s[i]
      /\ \A j \in DOMAIN r : Len(s) + j \in DOMAIN q /\ q[Len(s) + j] = r[j]
  <2>1. \A i \in DOMAIN s : i \in DOMAIN q /\ q[i] = s[i]
    BY <1>1, ConcatProperties
  <2>2. ASSUME NEW j \in DOMAIN r PROVE Len(s) + j \in DOMAIN q /\ q[Len(s) + j] = r[j]
    <3>1. Len(s) + j \in 1..(Len(s) + Len(r)) /\ Len(s) + j > Len(s) /\ Len(s) + j - Len(s) = j
      BY <1>1
    <3>2. q[Len(s) + j] = r[Len(s) + j - Len(s)]
      BY <3>1, ConcatProperties
    <3> QED
      BY <3>1, <3>2, <1>1
  <2> QED
    BY <2>1, <2>2
<1>3. \A i \in DOMAIN q : \/ i \in DOMAIN s /\ q[i] = s[i]
                          \/ i - Len(s) \in DOMAIN r /\ q[i] = r[i - Len(s)]
  BY <1>1, ConcatProperties
<1>4. \A i \in DOMAIN q : i \in Int
  BY <1>1
<1> HIDE DEF q
<1>5. IdsIn(q) = IdsIn(s) \cup IdsIn(r)
  <2>1. IdsIn(q) \subseteq IdsIn(s) \cup IdsIn(r)
    BY <1>3 DEF IdsIn
  <2>2. IdsIn(s) \cup IdsIn(r) \subseteq IdsIn(q)
    BY <1>2 DEF IdsIn
  <2> QED
    BY <2>1, <2>2
<1>6. ASSUME NoRepeat(s), NoRepeat(r), IdsIn(s) \cap IdsIn(r) = {} PROVE NoRepeat(q)
  <2> SUFFICES ASSUME NEW i \in DOMAIN q, NEW j \in DOMAIN q,
                      q[i].id = q[j].id, q[i].id # NoId
               PROVE  i = j
    BY DEF NoRepeat
  <2>1. CASE /\ i \in DOMAIN s /\ q[i] = s[i]
             /\ j \in DOMAIN s /\ q[j] = s[j]
    BY <2>1, <1>6 DEF NoRepeat
  <2>2. CASE /\ i - Len(s) \in DOMAIN r /\ q[i] = r[i - Len(s)]
             /\ j - Len(s) \in DOMAIN r /\ q[j] = r[j - Len(s)]
    <3>1. i - Len(s) = j - Len(s)
      BY <2>2, <1>6 DEF NoRepeat
    <3> QED
      BY <3>1, <1>1, <1>4
  <2>3. CASE /\ i \in DOMAIN s /\ q[i] = s[i]
             /\ j - Len(s) \in DOMAIN r /\ q[j] = r[j - Len(s)]
    BY <2>3, <1>6 DEF IdsIn
  <2>4. CASE /\ i - Len(s) \in DOMAIN r /\ q[i] = r[i - Len(s)]
             /\ j \in DOMAIN s /\ q[j] = s[j]
    BY <2>4, <1>6 DEF IdsIn
  <2> QED
    BY <1>3, <2>1, <2>2, <2>3, <2>4
<1> QED
  BY <1>5, <1>6 DEF q

(* How many places of the queue a task has. *)
LEMMA PlacesCount ==
    ASSUME ConservedInv, NEW x \in Ids
    PROVE  Cardinality(Places(x))
             = IF x \in IdsIn(swap_list) \cup IdsIn(task_list_) THEN 1 ELSE 0
<1>1. /\ NoRepeat(Queue)
      /\ IdsIn(Queue) = IdsIn(swap_list) \cup IdsIn(task_list_)
  BY ConcatIds DEF ConservedInv, TypeOK, HeldOnce, Queue
<1>2. CASE x \in IdsIn(Queue)
  <2>1. PICK i \in DOMAIN Queue : Queue[i].id = x
    BY <1>2 DEF IdsIn
  <2>2. Places(x) = {i}
    BY <1>1, <1>2, <2>1 DEF Places, NoRepeat, IdsIn
  <2> QED
    BY <1>1, <1>2, <2>2, FS_Singleton
<1>3. CASE x \notin IdsIn(Queue)
  <2>1. Places(x) = {}
    BY <1>3, PollerAssumption DEF Places, IdsIn
  <2> QED
    BY <1>1, <1>3, <2>1, FS_EmptySet
<1> QED
  BY <1>2, <1>3

LEMMA EntriesCount ==
    ASSUME NEW entries, OneEach(entries), NEW d
    PROVE  Cardinality({e \in entries : e.id = d}) = IF d \in IdsOf(entries) THEN 1 ELSE 0
<1>1. CASE d \in IdsOf(entries)
  <2>1. PICK e \in entries : e.id = d
    BY <1>1 DEF IdsOf
  <2>2. {f \in entries : f.id = d} = {e}
    BY <2>1 DEF OneEach
  <2> QED
    BY <1>1, <2>2, FS_Singleton
<1>2. CASE d \notin IdsOf(entries)
  <2>1. {f \in entries : f.id = d} = {}
    BY <1>2 DEF IdsOf
  <2> QED
    BY <1>2, <2>1, FS_EmptySet
<1> QED
  BY <1>1, <1>2

(* No task is lost or executed twice, however many there are and wherever a  *)
(* submission, a swap of the lists or ~EventPoller falls (async,             *)
(* on_pipe_event).                                                           *)
THEOREM TasksExecutedOnce == Spec => []TaskConserved
<1>1. ConservedInv => TaskConserved
  <2> SUFFICES ASSUME ConservedInv, NEW t \in Tasks
               PROVE  Cardinality(Places(t)) = IF state[t] = "pending" THEN 1 ELSE 0
    BY DEF TaskConserved
  <2>1. t \in Ids /\ t \notin Timers
    BY PollerAssumption DEF Ids
  <2>2. t \notin IdsOf(delay_tasks_) /\ t \notin IdsOf(delay_tasks_copy)
    BY <2>1 DEF ConservedInv, TypeOK, DelayRec, IdsOf
  <2>3. t \in IdsIn(swap_list) \cup IdsIn(task_list_) <=> state[t] = "pending"
    BY <2>1, <2>2 DEF ConservedInv, HeldOnce, Pending
  <2> QED
    BY <2>1, <2>3, PlacesCount
<1> QED
  BY <1>1, ConservedAlways, PTL

(* flush_delay_tasks loses no delay task although it replaces delay_tasks_,  *)
(* for any number of them, delays and clocks: what DoDelayTask submits       *)
(* meanwhile waits in task_list_.                                            *)
THEOREM TimersKept == Spec => []TimerConserved
<1>1. ConservedInv => TimerConserved
  <2> SUFFICES ASSUME ConservedInv, NEW d \in Timers
               PROVE  Cardinality(Places(d)) + Cardinality({e \in delay_tasks_ : e.id = d})
                          + Cardinality({e \in delay_tasks_copy : e.id = d})
                        = IF state[d] = "pending" THEN 1 ELSE 0
    BY DEF TimerConserved
  <2>1. d \in Ids
    BY DEF Ids
  <2>2. Cardinality(Places(d)) = IF d \in IdsIn(swap_list) \cup IdsIn(task_list_) THEN 1 ELSE 0
    BY <2>1, PlacesCount
  <2>3. Cardinality({e \in delay_tasks_ : e.id = d}) = IF d \in IdsOf(delay_tasks_) THEN 1 ELSE 0
    BY EntriesCount DEF ConservedInv, HeldOnce
  <2>4. Cardinality({e \in delay_tasks_copy : e.id = d})
          = IF d \in IdsOf(delay_tasks_copy) THEN 1 ELSE 0
    BY EntriesCount DEF ConservedInv, HeldOnce
  <2>5. state[d] = "pending" <=> \/ d \in IdsIn(swap_list) \cup IdsIn(task_list_)
                                \/ d \in IdsOf(delay_tasks_)
                                \/ d \in IdsOf(delay_tasks_copy)
    BY <2>1 DEF ConservedInv, HeldOnce, Pending
  <2>6. /\ ~(d \in IdsIn(swap_list) \cup IdsIn(task_list_) /\ d \in IdsOf(delay_tasks_))
        /\ ~(d \in IdsIn(swap_list) \cup IdsIn(task_list_) /\ d \in IdsOf(delay_tasks_copy))
        /\ ~(d \in IdsOf(delay_tasks_) /\ d \in IdsOf(delay_tasks_copy))
    BY DEF ConservedInv, HeldOnce
  <2> QED
    BY <2>2, <2>3, <2>4, <2>5, <2>6
<1> QED
  BY <1>1, ConservedAlways, PTL
--------------------------------------------------------------------------------
LEMMA BacklogNext ==
    ConservedInv /\ BatchInScope /\ BacklogAhead /\ [Next]_vars => BacklogAhead'
<1> SUFFICES ASSUME ConservedInv, BatchInScope, BacklogAhead, [Next]_vars
             PROVE  BacklogAhead'
  OBVIOUS
<1> USE DEF pipeVars, taskVars, delayVars, dtorVars, userVars, outerVars
<1>1. CASE Destroy
  BY <1>1 DEF Destroy, BacklogAhead
<1>2. ASSUME ~Destroy, NEW t \in owed', destroying'
      PROVE  \/ state'[t] = "done"
             \/ state'[t] = "pending" /\ (pc' \in {"drain", "swap"} \/ t \in IdsIn(swap_list)')
  <2>1. UNCHANGED <<destroying, owed>>
    BY <1>2
    DEF Next, UserCalls, LoopSteps, FlushSteps, PipeEventSteps, vars,
        Async, AsyncFirst, DoDelayTask, Submit, Cancel, Shutdown, RunLoop,
        LeaveLoop, GetMinDelay, StartFlush, SkipDelayTask, StartDelayTask, NextDue,
        DelayTaskReturns, EndFlush, EndOfBatch, Dispatch, EventReturns, DrainPipe, SwapLists,
        RunExitTask, RunArmTask, RunUserTask, NextTask, TaskReturns, EndOfTasks,
        EpollWait, EpollTimesOut, EpollInterrupted, Awake, Goto, ReturnTo, Tick
  <2>2. /\ t \in Tasks /\ t \in Ids
        /\ pc \in {"drain", "swap", "tasks", "task", "destroyed"}
        /\ \/ state[t] = "done"
           \/ state[t] = "pending" /\ (pc \in {"drain", "swap"} \/ t \in IdsIn(swap_list))
    BY <1>2, <2>1 DEF ConservedInv, TypeOK, Ids, BatchInScope, BacklogAhead
  <2>3. state \in [Ids -> {"new", "pending", "done"}]
    BY DEF ConservedInv, TypeOK
  <2>4. ASSUME NEW x \in Ids, Submit(x)
        PROVE  state'[t] = state[t] /\ UNCHANGED <<pc, swap_list>>
    BY <2>2, <2>3, <2>4 DEF Submit
  <2>5. CASE SwapLists
    <3>1. IdsIn(swap_list) = {}
      BY <2>5, IdsInEmpty DEF SwapLists, ConservedInv, ListInScope
    <3>2. state[t] = "pending" => t \in IdsIn(task_list_)
      <4>1. t \notin IdsOf(delay_tasks_) /\ t \notin IdsOf(delay_tasks_copy)
        BY <2>2, PollerAssumption DEF ConservedInv, TypeOK, DelayRec, IdsOf
      <4> QED
        BY <2>2, <3>1, <4>1 DEF ConservedInv, HeldOnce, Pending
    <3>3. IdsIn(swap_list)' = IdsIn(task_list_) /\ UNCHANGED state
      BY <2>5 DEF SwapLists, IdsIn
    <3> QED
      BY <2>2, <3>2, <3>3
  <2>6. CASE RunExitTask
    <3>1. Head(swap_list).id = NoId
      BY <2>6, NextTaskIds, TaskIds DEF RunExitTask, NextTask, ConservedInv
    <3>2. IdsIn(swap_list) = IdsIn(swap_list)'
      BY <2>6, <3>1, NextTaskIds DEF RunExitTask, ConservedInv, IdsIn
    <3> QED
      BY <2>2, <2>6, <3>2 DEF RunExitTask
  <2>7. CASE RunArmTask
    <3>1. Head(swap_list).id \in Timers
      BY <2>7, NextTaskIds, TaskIds DEF RunArmTask, NextTask, ConservedInv
    <3>2. t \in IdsIn(swap_list) => t \in IdsIn(swap_list)'
      BY <2>2, <2>7, <3>1, NextTaskIds, PollerAssumption DEF RunArmTask, ConservedInv
    <3> QED
      BY <2>2, <2>7, <3>2 DEF RunArmTask
  <2>8. CASE RunUserTask
    <3>1. t # Head(swap_list).id /\ t \in IdsIn(swap_list) => t \in IdsIn(swap_list)'
      BY <2>8, NextTaskIds DEF RunUserTask, ConservedInv
    <3>2. pc = "tasks" /\ state' = [state EXCEPT ![Head(swap_list).id] = "done"]
      BY <2>8 DEF RunUserTask, NextTask
    <3>3. CASE t = Head(swap_list).id
      BY <2>2, <2>3, <3>2, <3>3
    <3>4. CASE t # Head(swap_list).id
      <4>1. state'[t] = state[t]
        BY <2>2, <2>3, <3>2, <3>4
      <4> QED
        BY <2>2, <3>1, <3>2, <3>4, <4>1
    <3> QED
      BY <3>3, <3>4
  <2>9. CASE DrainPipe
    BY <2>2, <2>9 DEF DrainPipe
  <2>10. CASE TaskReturns \/ EndOfTasks
    BY <2>2, <2>10 DEF TaskReturns, ReturnTo, EndOfTasks, Goto, IdsIn
  <2>11. CASE Shutdown \/ Tick \/ UNCHANGED vars
    BY <2>2, <2>11 DEF Shutdown, Tick, vars, IdsIn
  <2>12. ASSUME NEW x \in Ids, Cancel(x)
         PROVE  UNCHANGED <<state, pc, swap_list>>
    BY <2>12 DEF Cancel
  <2>13. \/ \E x \in Ids : Submit(x) \/ Cancel(x)
         \/ SwapLists \/ RunExitTask \/ RunArmTask \/ RunUserTask \/ DrainPipe
         \/ TaskReturns \/ EndOfTasks \/ Shutdown \/ Tick \/ UNCHANGED vars
    BY <1>2, <2>2
    DEF Next, UserCalls, LoopSteps, FlushSteps, PipeEventSteps, Async, AsyncFirst,
        DoDelayTask, RunLoop, LeaveLoop, GetMinDelay, StartFlush, SkipDelayTask,
        StartDelayTask, NextDue, DelayTaskReturns, EndFlush, EndOfBatch, Dispatch,
        EventReturns, EpollWait, EpollTimesOut, EpollInterrupted, Awake, Ids
  <2> QED
    BY <2>2, <2>4, <2>5, <2>6, <2>7, <2>8, <2>9, <2>10, <2>11, <2>12, <2>13 DEF IdsIn
<1>3. pc' = "destroyed" => destroying'
  BY DEF BacklogAhead, Next, UserCalls, LoopSteps, FlushSteps, PipeEventSteps, vars,
      Async, AsyncFirst, DoDelayTask, Submit, Cancel, Shutdown, RunLoop, Destroy,
      LeaveLoop, GetMinDelay, WaitFor, StartFlush, SkipDelayTask, StartDelayTask, NextDue,
      DelayTaskReturns, EndFlush, EndOfBatch, Dispatch, EventReturns, DrainPipe, SwapLists,
      RunExitTask, RunArmTask, RunUserTask, NextTask, TaskReturns, EndOfTasks,
      EpollWait, EpollTimesOut, EpollInterrupted, Awake, Goto, ReturnTo, Tick
<1> QED
  BY <1>1, <1>2, <1>3 DEF BacklogAhead

(* ~EventPoller runs all that was submitted before it, whatever tasks submit *)
(* or signals shut down while it drains the pipe and runs the batch.         *)
THEOREM DestructorRunsBacklog == Spec => []DtorRunsBacklog
<1>1. Init => BacklogAhead
  BY DEF Init, BacklogAhead
<1>2. Spec => []BatchInScope
  <2>1. Init => WakeupInv
    BY WakeupInit
  <2>2. WakeupInv => BatchInScope
    BY DEF WakeupInv
  <2> QED
    BY <2>1, <2>2, WakeupNext, PTL DEF Spec
<1>3. ConservedInv /\ BatchInScope /\ BacklogAhead /\ [Next]_vars => BacklogAhead'
  BY BacklogNext
<1>4. ConservedInv /\ BatchInScope /\ BacklogAhead => DtorRunsBacklog
  <2> SUFFICES ASSUME ConservedInv, BacklogAhead, pc = "destroyed", NEW t \in owed
               PROVE  state[t] = "done"
    BY DEF DtorRunsBacklog
  <2>1. IdsIn(swap_list) = {}
    BY IdsInEmpty DEF ConservedInv, ListInScope
  <2> QED
    BY <2>1 DEF BacklogAhead
<1> QED
  BY <1>1, <1>2, <1>3, <1>4, ConservedAlways, PTL DEF Spec
--------------------------------------------------------------------------------
(* EventPoller implements TaskExecutor: the safety part, for every value of   *)
(* the constants.  The self-pipe, the two lists, the timers and the position  *)
(* of the loop are hidden; the queue of the abstract executor is the batch    *)
(* that on_pipe_event took followed by task_list_.                            *)

HasExit(list) == \E i \in DOMAIN list : list[i] = ExitTask

(* ~EventPoller does not finish before an ExitException has set exit_flag_. *)
ExitAhead ==
    /\ destroying => pc \in {"drain", "swap", "tasks", "task", "destroyed"}
    /\ destroying /\ pc \in {"drain", "swap"} => HasExit(task_list_)
    /\ destroying /\ pc \in {"tasks", "task", "destroyed"} =>
          exit_flag_ \/ HasExit(swap_list)

QueueInv == TypeOK /\ ListInScope /\ ExitAhead
--------------------------------------------------------------------------------
LEMMA ExitFirst == \A s \in Seq(TaskRec) : HasExit(<<ExitTask>> \o s)
<1> TAKE s \in Seq(TaskRec)
<1>1. /\ 1 \in DOMAIN (<<ExitTask>> \o s)
      /\ (<<ExitTask>> \o s)[1] = ExitTask
  <2>1. <<ExitTask>> \in Seq(TaskRec)
    BY TaskType
  <2> QED
    BY <2>1, ConcatProperties, LenProperties
<1> QED
  BY <1>1 DEF HasExit

LEMMA ExitKept ==
    ASSUME NEW s \in Seq(TaskRec), NEW x \in TaskRec, HasExit(s)
    PROVE  HasExit(<<x>> \o s) /\ HasExit(Append(s, x))
<1>1. PICK i \in 1..Len(s) : s[i] = ExitTask
  BY LenProperties DEF HasExit
<1>2. HasExit(<<x>> \o s)
  <2>1. /\ <<x>> \o s \in Seq(TaskRec)
        /\ i + 1 \in 1..Len(<<x>> \o s)
        /\ (<<x>> \o s)[i + 1] = ExitTask
    BY <1>1, ConcatProperties, LenProperties
  <2> QED
    BY <2>1, LenProperties DEF HasExit
<1>3. HasExit(Append(s, x))
  <2>1. /\ Append(s, x) \in Seq(TaskRec)
        /\ i \in 1..Len(Append(s, x))
        /\ Append(s, x)[i] = ExitTask
    BY <1>1, AppendProperties, LenProperties
  <2> QED
    BY <2>1, LenProperties DEF HasExit
<1> QED
  BY <1>2, <1>3

LEMMA ExitInTail ==
    ASSUME NEW s \in Seq(TaskRec), s # <<>>, HasExit(s), Head(s) # ExitTask
    PROVE  HasExit(Tail(s))
<1>1. PICK i \in 1..Len(s) : s[i] = ExitTask
  BY LenProperties DEF HasExit
<1>2. i # 1
  BY <1>1
<1>3. /\ Tail(s) \in Seq(TaskRec)
      /\ i - 1 \in 1..Len(Tail(s))
      /\ Tail(s)[i - 1] = ExitTask
  BY <1>1, <1>2, HeadTailProperties, LenProperties
<1> QED
  BY <1>3, LenProperties DEF HasExit

LEMMA NoExitInEmpty == ~HasExit(<<>>)
  BY DEF HasExit

LEMMA AsyncKeepsExit ==
    ASSUME TypeOK, NEW task \in TaskRec, NEW first, async(task, first), HasExit(task_list_)
    PROVE  HasExit(task_list_)'
  BY ExitKept DEF async, TypeOK, HasExit
--------------------------------------------------------------------------------
LEMMA QueueNext == QueueInv /\ [Next]_vars => QueueInv'
<1> SUFFICES ASSUME QueueInv, [Next]_vars PROVE ListInScope' /\ ExitAhead'
  BY TypeNext DEF QueueInv
<1> USE DEF QueueInv, pipeVars, taskVars, delayVars, dtorVars, userVars, outerVars
<1>1. ASSUME NEW t \in Tasks, Async(t)
       PROVE  ListInScope' /\ ExitAhead'
  BY <1>1 DEF Async, Submit, UserInControl, UserStates, ListInScope, ExitAhead, HasExit
<1>2. ASSUME NEW t \in Tasks, AsyncFirst(t)
       PROVE  ListInScope' /\ ExitAhead'
  BY <1>2 DEF AsyncFirst, Submit, UserInControl, UserStates, ListInScope, ExitAhead, HasExit
<1>3. ASSUME NEW d \in Timers, NEW delay_ms \in Delays \cup {0},
              DoDelayTask(d, delay_ms)
       PROVE  ListInScope' /\ ExitAhead'
  BY <1>3 DEF DoDelayTask, Submit, UserInControl, UserStates, ListInScope, ExitAhead, HasExit
<1>4. CASE Shutdown
  <2>1. HasExit(task_list_)'
    BY <1>4, ExitFirst DEF Shutdown, async, TypeOK, HasExit
  <2> QED
    BY <1>4, <2>1 DEF Shutdown, ListInScope, ExitAhead, HasExit
<1>5. CASE Destroy
  <2>1. HasExit(task_list_)'
    BY <1>5, ExitFirst DEF Destroy, async, TypeOK, HasExit
  <2> QED
    BY <1>5, <2>1 DEF Destroy, ListInScope, ExitAhead
<1>6. CASE SwapLists
  BY <1>6 DEF SwapLists, ListInScope, ExitAhead, HasExit
<1>7. CASE RunExitTask
  BY <1>7 DEF RunExitTask, NextTask, ListInScope, ExitAhead, HasExit
<1>8. CASE RunArmTask
  <2>1. /\ swap_list \in Seq(TaskRec) /\ swap_list # <<>>
        /\ Head(swap_list) # ExitTask
        /\ swap_list' = Tail(swap_list)
    BY <1>8 DEF RunArmTask, NextTask, ExitTask, TypeOK
  <2>2. HasExit(swap_list) => HasExit(swap_list)'
    BY <2>1, ExitInTail DEF HasExit
  <2> QED
    BY <1>8, <2>2 DEF RunArmTask, NextTask, ListInScope, ExitAhead, HasExit
<1>9. CASE RunUserTask
  <2>1. /\ swap_list \in Seq(TaskRec) /\ swap_list # <<>>
        /\ Head(swap_list) # ExitTask
        /\ swap_list' = Tail(swap_list)
    BY <1>9 DEF RunUserTask, NextTask, ExitTask, TypeOK
  <2>2. HasExit(swap_list) => HasExit(swap_list)'
    BY <2>1, ExitInTail DEF HasExit
  <2> QED
    BY <1>9, <2>2 DEF RunUserTask, NextTask, ListInScope, ExitAhead, HasExit
<1>10. CASE EndOfTasks
  BY <1>10 DEF EndOfTasks, Goto, ListInScope, ExitAhead, HasExit
<1>11. ASSUME NEW x \in Ids, Cancel(x)
       PROVE  ListInScope' /\ ExitAhead'
  BY <1>11 DEF Cancel, ListInScope, ExitAhead, HasExit
<1>12. CASE RunLoop
  BY <1>12 DEF RunLoop, ListInScope, ExitAhead, HasExit
<1>13. CASE LeaveLoop
  BY <1>13 DEF LeaveLoop, Goto, ListInScope, ExitAhead, HasExit
<1>14. CASE GetMinDelay
  BY <1>14 DEF GetMinDelay, WaitFor, ListInScope, ExitAhead, HasExit
<1>15. CASE StartFlush
  BY <1>15 DEF StartFlush, ListInScope, ExitAhead, HasExit
<1>16. CASE SkipDelayTask
  BY <1>16 DEF SkipDelayTask, NextDue, ListInScope, ExitAhead, HasExit
<1>17. CASE StartDelayTask
  BY <1>17 DEF StartDelayTask, NextDue, ListInScope, ExitAhead, HasExit
<1>18. ASSUME NEW next_delay \in Delays \cup {0}, DelayTaskReturns(next_delay)
       PROVE  ListInScope' /\ ExitAhead'
  BY <1>18 DEF DelayTaskReturns, ListInScope, ExitAhead, HasExit
<1>19. CASE EndFlush
  BY <1>19 DEF EndFlush, WaitFor, ListInScope, ExitAhead, HasExit
<1>20. CASE EndOfBatch
  BY <1>20 DEF EndOfBatch, Goto, ListInScope, ExitAhead, HasExit
<1>21. CASE Dispatch
  BY <1>21 DEF Dispatch, ListInScope, ExitAhead, HasExit
<1>22. CASE EventReturns
  BY <1>22 DEF EventReturns, ReturnTo, ListInScope, ExitAhead, HasExit
<1>23. CASE DrainPipe
  BY <1>23 DEF DrainPipe, ListInScope, ExitAhead, HasExit
<1>24. CASE TaskReturns
  BY <1>24 DEF TaskReturns, ReturnTo, ListInScope, ExitAhead, HasExit
<1>25. CASE EpollWait
  BY <1>25 DEF EpollWait, Awake, ListInScope, ExitAhead, HasExit
<1>26. CASE EpollTimesOut
  BY <1>26 DEF EpollTimesOut, Awake, ListInScope, ExitAhead, HasExit
<1>27. CASE EpollInterrupted
  BY <1>27 DEF EpollInterrupted, Awake, ListInScope, ExitAhead, HasExit
<1>28. CASE Tick
  BY <1>28 DEF Tick, ListInScope, ExitAhead, HasExit
<1>29. CASE UNCHANGED vars
  BY <1>29 DEF vars, ListInScope, ExitAhead, HasExit
<1> QED
  BY <1>1, <1>2, <1>3, <1>4, <1>5, <1>6, <1>7, <1>8, <1>9, <1>10, <1>11, <1>12, <1>13, <1>14, <1>15, <1>16, <1>17, <1>18, <1>19, <1>20, <1>21, <1>22, <1>23, <1>24, <1>25, <1>26, <1>27, <1>28, <1>29
  DEF Next, UserCalls, LoopSteps, FlushSteps, PipeEventSteps
--------------------------------------------------------------------------------
LEMMA QueueType == TypeOK => Queue \in Seq(TaskRec)
  BY ConcatProperties DEF TypeOK, Queue

(* Async puts the task behind the whole queue. *)
LEMMA AppendToQueue ==
    ASSUME TypeOK, NEW x \in TaskRec, async(x, FALSE), UNCHANGED swap_list
    PROVE  Queue' = Append(Queue, x)
<1>1. Queue' = swap_list \o Append(task_list_, x)
  BY DEF Queue, async
<1>2. @ = swap_list \o (task_list_ \o <<x>>)
  BY AppendIsConcat DEF TypeOK
<1>3. @ = (swap_list \o task_list_) \o <<x>>
  <2>1. <<x>> \in Seq(TaskRec)
    OBVIOUS
  <2> QED
    BY <2>1, ConcatAssociative DEF TypeOK
<1>4. @ = Append(Queue, x)
  BY QueueType, AppendIsConcat DEF Queue
<1> QED
  BY <1>1, <1>2, <1>3, <1>4

(* AsyncFirst puts the task behind the batch that was taken. *)
LEMMA OvertakeQueue ==
    ASSUME TypeOK, NEW x \in TaskRec, async(x, TRUE), UNCHANGED swap_list
    PROVE  Len(swap_list) \in 0..Len(Queue) /\ Executor!Overtake(x, Len(swap_list))
<1> DEFINE n == Len(swap_list)
<1>1. /\ n \in Nat
      /\ Queue \in Seq(TaskRec)
      /\ Len(Queue) = n + Len(task_list_)
      /\ Len(task_list_) \in Nat
  BY ConcatProperties, LenProperties DEF TypeOK, Queue
<1>2. SubSeq(Queue, 1, n) = swap_list
  <2>1. CASE n = 0
    BY <2>1, <1>1, SubSeqEmpty, LenProperties DEF TypeOK
  <2>2. CASE n > 0
    BY <2>2, <1>1, SubSeqOfConcat1, SubSeqFull DEF TypeOK, Queue
  <2> QED
    BY <1>1, <2>1, <2>2
<1>3. SubSeq(Queue, n + 1, Len(Queue)) = task_list_
  <2>1. CASE task_list_ = <<>>
    BY <2>1, <1>1, SubSeqEmpty
  <2>2. CASE task_list_ # <<>>
    <3>1. Len(task_list_) > 0
      BY <2>2, <1>1 DEF TypeOK
    <3>2. SubSeq(Queue, n + 1, Len(Queue)) = SubSeq(task_list_, 1, Len(task_list_))
      <4>1. /\ n + 1 \in n + 1..n + Len(task_list_)
            /\ n + Len(task_list_) \in n + 1..n + Len(task_list_)
            /\ n + 1 - n = 1
            /\ n + Len(task_list_) - n = Len(task_list_)
        BY <1>1, <3>1
      <4> QED
        BY <4>1, <1>1, SubSeqOfConcat2 DEF TypeOK, Queue
    <3> QED
      BY <3>2, SubSeqFull DEF TypeOK
  <2> QED
    BY <2>1, <2>2
<1>4. Queue' = SubSeq(Queue, 1, n) \o <<x>> \o SubSeq(Queue, n + 1, Len(Queue))
  <2>1. Queue' = swap_list \o (<<x>> \o task_list_)
    BY DEF Queue, async
  <2>2. <<x>> \in Seq(TaskRec)
    OBVIOUS
  <2>3. Queue' = swap_list \o <<x>> \o task_list_
    BY <2>1, <2>2, ConcatAssociative DEF TypeOK
  <2> QED
    BY <1>2, <1>3, <2>3
<1> QED
  BY <1>1, <1>4 DEF Executor!Overtake

(* on_pipe_event executes the head of the queue. *)
LEMMA TakeHead ==
    ASSUME TypeOK, swap_list # <<>>, swap_list' = Tail(swap_list), UNCHANGED task_list_
    PROVE  Queue # <<>> /\ Head(Queue) = Head(swap_list) /\ Queue' = Tail(Queue)
<1>1. /\ Queue \in Seq(TaskRec)
      /\ Len(swap_list) \in Nat \ {0}
      /\ Len(task_list_) \in Nat
      /\ Len(Queue) = Len(swap_list) + Len(task_list_)
      /\ \A i \in 1..Len(swap_list) + Len(task_list_) :
            Queue[i] = IF i <= Len(swap_list) THEN swap_list[i]
                       ELSE task_list_[i - Len(swap_list)]
  BY ConcatProperties, LenProperties DEF TypeOK, Queue
<1>2. Queue # <<>> /\ Head(Queue) = Head(swap_list)
  BY <1>1 DEF TypeOK
<1>3. /\ Tail(Queue) \in Seq(TaskRec)
      /\ Len(Tail(Queue)) = Len(Queue) - 1
      /\ \A i \in 1..Len(Tail(Queue)) : Tail(Queue)[i] = Queue[i + 1]
  BY <1>1, <1>2, HeadTailProperties
<1>4. /\ Tail(swap_list) \in Seq(TaskRec)
      /\ Len(Tail(swap_list)) = Len(swap_list) - 1
      /\ \A i \in 1..Len(Tail(swap_list)) : Tail(swap_list)[i] = swap_list[i + 1]
  BY HeadTailProperties DEF TypeOK
<1>5. /\ Queue' \in Seq(TaskRec)
      /\ Len(Queue') = Len(swap_list) - 1 + Len(task_list_)
      /\ \A i \in 1..Len(swap_list) - 1 + Len(task_list_) :
            Queue'[i] = IF i <= Len(swap_list) - 1 THEN Tail(swap_list)[i]
                        ELSE task_list_[i - (Len(swap_list) - 1)]
  BY <1>4, ConcatProperties DEF TypeOK, Queue
<1>6. \A i \in 1..Len(Queue') : Queue'[i] = Tail(Queue)[i]
  <2> TAKE i \in 1..Len(Queue')
  <2>1. i + 1 \in 1..Len(swap_list) + Len(task_list_) /\ i \in 1..Len(Tail(Queue))
    BY <1>1, <1>3, <1>5
  <2>2. CASE i <= Len(swap_list) - 1
    BY <2>1, <2>2, <1>1, <1>3, <1>4, <1>5
  <2>3. CASE ~(i <= Len(swap_list) - 1)
    <3>1. i - (Len(swap_list) - 1) = i + 1 - Len(swap_list) /\ ~(i + 1 <= Len(swap_list))
      BY <2>3, <1>1
    <3> QED
      BY <2>1, <2>3, <3>1, <1>1, <1>3, <1>5
  <2> QED
    BY <2>2, <2>3
<1>7. Queue' = Tail(Queue)
  BY <1>1, <1>3, <1>5, <1>6, SeqEqual
<1> QED
  BY <1>2, <1>7
--------------------------------------------------------------------------------
(* Every step of the poller is a step of the executor or changes nothing     *)
(* that the executor shows.                                                  *)
LEMMA StepRefines == QueueInv /\ [Next]_vars => [Executor!Next]_Executor!vars
<1> SUFFICES ASSUME QueueInv, [Next]_vars
             PROVE  Executor!Next \/ UNCHANGED <<Queue, Active, exit_flag_>>
  BY DEF Executor!vars
<1> USE DEF QueueInv, pipeVars, taskVars, delayVars, dtorVars, userVars, outerVars
<1> DEFINE Stutter == UNCHANGED <<Queue, Active, exit_flag_>>
<1>1. ASSUME NEW t \in Tasks, Async(t) PROVE Executor!Next
  <2>1. Queue' = Append(Queue, UserTask(t))
    BY <1>1, TaskType, AppendToQueue DEF Async, Submit
  <2>2. Executor!Async
    BY <1>1, <2>1, TaskType DEF Async, Submit, Executor!Async, Active
  <2> QED
    BY <2>2 DEF Executor!Next
<1>2. ASSUME NEW t \in Tasks, AsyncFirst(t) PROVE Executor!Next
  <2>1. /\ Len(swap_list) \in 0..Len(Queue)
        /\ Executor!Overtake(UserTask(t), Len(swap_list))
    BY <1>2, TaskType, OvertakeQueue DEF AsyncFirst, Submit
  <2>2. Executor!AsyncFirst
    BY <1>2, <2>1, TaskType DEF AsyncFirst, Submit, Executor!AsyncFirst, Active
  <2> QED
    BY <2>2 DEF Executor!Next
<1>3. ASSUME NEW d \in Timers, NEW delay_ms \in Delays \cup {0},
              DoDelayTask(d, delay_ms)
       PROVE  Executor!Next
  <2> DEFINE x == ArmTask(d, Timeline(delay_ms, clock))
  <2>0. x \in TaskRec
    BY TaskType, TimelineType, PollerAssumption DEF TypeOK
  <2>1. /\ Len(swap_list) \in 0..Len(Queue)
        /\ Executor!Overtake(x, Len(swap_list))
    BY <1>3, <2>0, TaskType, OvertakeQueue DEF DoDelayTask, Submit
  <2>2. Executor!AsyncFirst
    BY <1>3, <2>0, <2>1, TaskType DEF DoDelayTask, Submit, Executor!AsyncFirst, Active
  <2> QED
    BY <2>2 DEF Executor!Next
<1>4. CASE Shutdown
  <2>1. /\ Len(swap_list) \in 0..Len(Queue)
        /\ Executor!Overtake(ExitTask, Len(swap_list))
    BY <1>4, TaskType, OvertakeQueue DEF Shutdown
  <2>2. Executor!AsyncFirst
    BY <1>4, <2>1, TaskType DEF Shutdown, Executor!AsyncFirst, Active
  <2> QED
    BY <2>2 DEF Executor!Next
<1>5. CASE RunLoop
  <2>1. Executor!Start
    BY <1>5 DEF RunLoop, Executor!Start, Active, Queue
  <2> QED
    BY <2>1 DEF Executor!Next
<1>6. CASE Destroy
  <2>1. swap_list = <<>>
    BY <1>6 DEF Destroy, ListInScope
  <2>2. Len(swap_list) = 0
    BY <2>1
  <2>3. Executor!Overtake(ExitTask, 0)
    BY <1>6, <2>2, TaskType, OvertakeQueue DEF Destroy
  <2>4. Executor!Destroy
    BY <1>6, <2>3 DEF Destroy, Executor!Destroy, Active
  <2> QED
    BY <2>4 DEF Executor!Next
<1>7. CASE LeaveLoop
  <2>1. Executor!Stop
    BY <1>7 DEF LeaveLoop, Goto, Executor!Stop, Active, Queue
  <2> QED
    BY <2>1 DEF Executor!Next
<1>8. CASE SwapLists
  <2>1. Queue' = Queue
    BY <1>8, ConcatEmptySeq DEF SwapLists, ListInScope, Queue, TypeOK
  <2> QED
    BY <1>8, <2>1 DEF SwapLists, Active
<1>9. CASE RunExitTask
  <2>1. Queue # <<>> /\ Head(Queue) = Head(swap_list) /\ Queue' = Tail(Queue)
    BY <1>9, TakeHead DEF RunExitTask, NextTask
  <2>2. Head(swap_list) = ExitTask
    BY <1>9 DEF RunExitTask, NextTask, TypeOK, TaskRec, UserTask, ArmTask, ExitTask
  <2>3. Executor!Execute
    BY <1>9, <2>1, <2>2 DEF RunExitTask, NextTask, Executor!Execute, Active, TypeOK
  <2> QED
    BY <2>3 DEF Executor!Next
<1>10. CASE RunArmTask
  <2>1. Queue # <<>> /\ Head(Queue) = Head(swap_list) /\ Queue' = Tail(Queue)
    BY <1>10, TakeHead DEF RunArmTask, NextTask
  <2>2. Head(swap_list) # ExitTask
    BY <1>10 DEF RunArmTask, NextTask, ExitTask
  <2>3. Executor!Execute
    BY <1>10, <2>1, <2>2 DEF RunArmTask, NextTask, Executor!Execute, Active, TypeOK
  <2> QED
    BY <2>3 DEF Executor!Next
<1>11. CASE RunUserTask
  <2>1. Queue # <<>> /\ Head(Queue) = Head(swap_list) /\ Queue' = Tail(Queue)
    BY <1>11, TakeHead DEF RunUserTask, NextTask
  <2>2. Head(swap_list) # ExitTask
    BY <1>11 DEF RunUserTask, NextTask, ExitTask
  <2>3. Executor!Execute
    BY <1>11, <2>1, <2>2 DEF RunUserTask, NextTask, Executor!Execute, Active, TypeOK
  <2> QED
    BY <2>3 DEF Executor!Next
<1>12. CASE EndOfTasks
  <2>1. CASE destroying
    <3>1. exit_flag_
      BY <1>12, <2>1, NoExitInEmpty DEF EndOfTasks, Goto, ExitAhead
    <3>2. Executor!Stop
      BY <1>12, <2>1, <3>1 DEF EndOfTasks, Goto, Executor!Stop, Active, Queue
    <3> QED
      BY <3>2 DEF Executor!Next
  <2>2. CASE ~destroying
    BY <1>12, <2>2 DEF EndOfTasks, Goto, Active, Queue
  <2> QED
    BY <2>1, <2>2
<1>13. ASSUME NEW x \in Ids, Cancel(x)
       PROVE  Stutter
  BY <1>13 DEF Cancel, Active, Queue
<1>14. CASE GetMinDelay
  BY <1>14 DEF GetMinDelay, WaitFor, Active, Queue
<1>15. CASE StartFlush
  BY <1>15 DEF StartFlush, Active, Queue
<1>16. CASE SkipDelayTask
  BY <1>16 DEF SkipDelayTask, NextDue, Active, Queue
<1>17. CASE StartDelayTask
  BY <1>17 DEF StartDelayTask, NextDue, Active, Queue
<1>18. ASSUME NEW next_delay \in Delays \cup {0}, DelayTaskReturns(next_delay)
       PROVE  Stutter
  BY <1>18 DEF DelayTaskReturns, Active, Queue
<1>19. CASE EndFlush
  BY <1>19 DEF EndFlush, WaitFor, Active, Queue
<1>20. CASE EndOfBatch
  BY <1>20 DEF EndOfBatch, Goto, Active, Queue
<1>21. CASE Dispatch
  BY <1>21 DEF Dispatch, Active, Queue
<1>22. CASE EventReturns
  BY <1>22 DEF EventReturns, ReturnTo, Active, Queue
<1>23. CASE DrainPipe
  BY <1>23 DEF DrainPipe, Active, Queue
<1>24. CASE TaskReturns
  BY <1>24 DEF TaskReturns, ReturnTo, Active, Queue
<1>25. CASE EpollWait
  BY <1>25 DEF EpollWait, Awake, Active, Queue
<1>26. CASE EpollTimesOut
  BY <1>26 DEF EpollTimesOut, Awake, Active, Queue
<1>27. CASE EpollInterrupted
  BY <1>27 DEF EpollInterrupted, Awake, Active, Queue
<1>28. CASE Tick
  BY <1>28 DEF Tick, Active, Queue
<1>29. CASE UNCHANGED vars
  BY <1>29 DEF vars, Active, Queue
<1> QED
  BY <1>1, <1>2, <1>3, <1>4, <1>5, <1>6, <1>7, <1>8, <1>9, <1>10, <1>11, <1>12, <1>13, <1>14, <1>15, <1>16, <1>17, <1>18, <1>19, <1>20, <1>21, <1>22, <1>23, <1>24, <1>25, <1>26, <1>27, <1>28, <1>29
  DEF Next, UserCalls, LoopSteps, FlushSteps, PipeEventSteps

(* The poller is a TaskExecutor: it executes what was submitted in the order *)
(* of one queue, at most once, and it stops only after an exit task and, in  *)
(* ~EventPoller, after the batch that holds one.                             *)
THEOREM RefinesTaskExecutor == Spec => Executor!Spec
<1>1. Init => Executor!Init
  BY ConcatEmptySeq DEF Init, Executor!Init, Queue, Active
<1>2. Init => QueueInv
  BY TypeInit DEF Init, QueueInv, ListInScope, ExitAhead
<1> QED
  BY <1>1, <1>2, QueueNext, StepRefines, PTL DEF Spec, Executor!Spec
================================================================================
