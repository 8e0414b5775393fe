------------------------------ MODULE EventPoller ------------------------------
(***************************************************************************)
(* The event loop of poller/event_poller.cpp with the cancelable tasks of    *)
(* thread/task.h and the timers of poller/timer.cpp.                         *)
(*                                                                           *)
(* The library is single-threaded: tasks are submitted by the code that      *)
(* later calls RunLoop, or by the callbacks the loop runs.  The exception    *)
(* is Shutdown, which the programs under test/ call from a signal handler:   *)
(* here it may happen between any two steps.                                 *)
(*                                                                           *)
(* Each step is what the thread does between two points where other code     *)
(* (a callback, a signal handler, the clock thread, the kernel) can act.     *)
(***************************************************************************)
EXTENDS PipeWrapper, Sequences, FiniteSets

CONSTANTS Tasks,        \* the tasks users submit, each of them once
          Timers,       \* the delay tasks users submit, each of them once
          NoId,         \* the id of a task that is not one of those
          Delays,       \* delays in ms that users ask for, 0 apart
          TimeMod,      \* 2^64: clock values and delays are uint64_t
          IntMax,       \* 2^31-1: epoll_wait takes an int
          MaxClock,     \* bound: the clock stops here
          MaxShutdowns  \* bound on calls of Shutdown

Ids == Tasks \cup Timers

ASSUME PollerAssumption ==
    /\ NoId \notin Ids
    /\ Tasks \cap Timers = {}
    /\ Delays \subseteq Nat \ {0}
    /\ TimeMod \in Nat \ {0}
    /\ IntMax \in Nat \ {0}
    /\ MaxClock \in Nat
    /\ MaxClock < TimeMod
    /\ MaxShutdowns \in Nat

VARIABLES
    pc,                \* where the loop's thread is
    task_list_,        \* tasks submitted and not yet taken
    swap_list,         \* tasks of the batch on_pipe_event is executing
    exit_flag_,
    delay_tasks_,      \* entries of the multimap
    delay_tasks_copy,  \* the local of flush_delay_tasks, {} outside it
    cur,               \* the entry whose delay task is running
    events,            \* what is left of the batch epoll_wait returned
    clock,             \* get_current_milliseconds()
    now,               \* the clock as get_min_delay_ms read it, while in scope
    timeout,           \* what epoll_wait was given, while it waits
    state,             \* of each task and delay task
    cancelled,         \* those whose Cancel was called
    shutdowns,         \* calls of Shutdown so far
    destroying,        \* ~EventPoller was entered
    owed               \* history: the tasks submitted before it was

taskVars  == <<task_list_, swap_list>>
delayVars == <<delay_tasks_, delay_tasks_copy, cur, now, timeout>>
dtorVars  == <<destroying, owed>>
userVars  == <<state, cancelled, shutdowns>>

(* Most steps of the loop leave these alone. *)
outerVars == <<dtorVars, userVars, exit_flag_, clock>>

vars == <<pipeVars, taskVars, delayVars, outerVars, pc, events>>
--------------------------------------------------------------------------------
(* The three kinds of tasks: a user's, the one Shutdown submits (it throws   *)
(* ExitException), the one DoDelayTask submits to fill delay_tasks_.         *)
UserTask(t)    == [kind |-> "user", id |-> t, at |-> 0]
ExitTask       == [kind |-> "exit", id |-> NoId, at |-> 0]
ArmTask(d, at) == [kind |-> "arm", id |-> d, at |-> at]

Times == 0..(TimeMod - 1)

TaskRec == {UserTask(t) : t \in Tasks} \cup {ExitTask} \cup
           {ArmTask(d, at) : d \in Timers, at \in Times}

DelayRec == [id : Timers, at : Times]
Entry(d, at) == [id |-> d, at |-> at]
NoEntry == Entry(NoId, 0)

(* Entries with equal keys run in the order of their insertion in the code,  *)
(* in any order here.                                                        *)
Earliest(e, entries) == /\ e \in entries
                        /\ \A f \in entries : e.at <= f.at

Timeline(delay_ms, from) == (delay_ms + from) % TimeMod

(* uint64_t to int. *)
ToInt(d) == LET w == d % (2 * (IntMax + 1))
            IN IF w > IntMax THEN w - 2 * (IntMax + 1) ELSE w

(* delay_ms ? delay_ms : -1 *)
EpollTimeout(delay_ms) == IF delay_ms = 0 THEN -1 ELSE ToInt(delay_ms)

(* The batches epoll_wait may return.  "fd" stands for the descriptors of    *)
(* sockets: the module PollerEvents looks inside their callbacks.            *)
Batches == {<<"fd">>, <<"pipe">>, <<"fd", "pipe">>, <<"pipe", "fd">>}

HasPipe(batch) == \E i \in DOMAIN batch : batch[i] = "pipe"

UserStates == {"new", "ended", "event", "delay", "task"}

PCs == UserStates \cup
       {"top", "flush", "wait", "dispatch", "drain", "swap", "tasks", "destroyed"}

(* A thread is executing the poller's tasks. *)
Active == pc \notin {"new", "ended", "destroyed"}

Running == Active /\ ~destroying

(* Code of the user can call the poller: before and after the loop, and in   *)
(* the callbacks.                                                            *)
UserInControl == pc \in UserStates
--------------------------------------------------------------------------------
Init == /\ PipeInit
        /\ pc = "new"
        /\ task_list_ = <<>>
        /\ swap_list = <<>>
        /\ exit_flag_ \in BOOLEAN        \* no constructor initialises it
        /\ delay_tasks_ = {}
        /\ delay_tasks_copy = {}
        /\ cur = NoEntry
        /\ events = <<>>
        /\ clock = 0
        /\ now = 0
        /\ timeout = 0
        /\ state = [x \in Ids |-> "new"]
        /\ cancelled = {}
        /\ shutdowns = 0
        /\ destroying = FALSE
        /\ owed = {}
--------------------------------------------------------------------------------
(* What users call.                                                          *)

async(task, first) ==
    /\ task_list_' = IF first THEN <<task>> \o task_list_
                              ELSE Append(task_list_, task)
    /\ Write

Submit(x) == /\ UserInControl
             /\ state[x] = "new"
             /\ state' = [state EXCEPT ![x] = "pending"]
             /\ UNCHANGED <<swap_list, delayVars, dtorVars, cancelled,
                            shutdowns, pc, exit_flag_, events, clock>>

Async(t) == Submit(t) /\ async(UserTask(t), FALSE)

AsyncFirst(t) == Submit(t) /\ async(UserTask(t), TRUE)

(* Mutant: arms the timer itself instead of submitting a task that does. *)
DoDelayTaskAtOnce(d, delay_ms) ==
    /\ UserInControl
    /\ state[d] = "new"
    /\ state' = [state EXCEPT ![d] = "pending"]
    /\ delay_tasks_' = delay_tasks_ \cup {Entry(d, Timeline(delay_ms, clock))}
    /\ UNCHANGED <<pipeVars, taskVars, delay_tasks_copy, cur, now, timeout,
                   dtorVars, cancelled, shutdowns, pc, exit_flag_, events,
                   clock>>

DoDelayTask(d, delay_ms) ==
    Submit(d) /\ async(ArmTask(d, Timeline(delay_ms, clock)), TRUE)

(* TaskCancelableImpl::Cancel, of a task or, through ~Timer, a delay task. *)
Cancel(x) == /\ UserInControl
             /\ state[x] = "pending"
             /\ x \notin cancelled
             /\ cancelled' = cancelled \cup {x}
             /\ UNCHANGED <<pipeVars, taskVars, delayVars, dtorVars, state,
                            shutdowns, pc, exit_flag_, events, clock>>

(* Mutant: sets the flag instead of submitting a task. *)
ShutdownSetsFlag == /\ pc # "destroyed"
                    /\ shutdowns < MaxShutdowns
                    /\ shutdowns' = shutdowns + 1
                    /\ exit_flag_' = TRUE
                    /\ UNCHANGED <<pipeVars, taskVars, delayVars, dtorVars,
                                   state, cancelled, pc, events, clock>>

(* Shutdown comes from a user or from a signal handler. *)
Shutdown == /\ pc # "destroyed"
            /\ shutdowns < MaxShutdowns
            /\ shutdowns' = shutdowns + 1
            /\ async(ExitTask, TRUE)
            /\ UNCHANGED <<swap_list, delayVars, dtorVars, state, cancelled, pc,
                           exit_flag_, events, clock>>

(* The prologue of RunLoop.  Nothing keeps it from being called again. *)
RunLoop == /\ pc \in {"new", "ended"}
           /\ exit_flag_' = FALSE
           /\ pc' = "top"
           /\ UNCHANGED <<pipeVars, taskVars, delayVars, dtorVars, userVars,
                          events, clock>>

(* ~EventPoller: Shutdown, then on_pipe_event on the destroying thread. *)
Destroy == /\ pc \in {"new", "ended"}
           /\ destroying' = TRUE
           /\ owed' = {t \in Tasks : state[t] = "pending"}
           /\ async(ExitTask, TRUE)
           /\ pc' = "drain"
           /\ UNCHANGED <<swap_list, delayVars, userVars, exit_flag_, events,
                          clock>>
--------------------------------------------------------------------------------
(* The thread goes on elsewhere and changes nothing. *)
Goto(next) == /\ pc' = next
              /\ UNCHANGED <<pipeVars, taskVars, delayVars, outerVars, events>>

(* A callback returns to the loop, with any errno.  What it did to the poller *)
(* are calls of the user's, steps of their own.                              *)
ReturnTo(next) == /\ pc' = next
                  /\ errno' \in Errnos
                  /\ UNCHANGED <<pipe, edge, taskVars, delayVars, outerVars, events>>
--------------------------------------------------------------------------------
(* The head of the loop: exit_flag_, get_min_delay_ms, flush_delay_tasks.    *)

LeaveLoop == pc = "top" /\ exit_flag_ /\ Goto("ended")

(* Mutant: sleeps until the last of the entries. *)
WaitForLatest(entries, t) ==
    /\ \/ entries = {} /\ timeout' = EpollTimeout(0)
       \/ \E e \in entries : /\ \A f \in entries : e.at >= f.at
                             /\ timeout' = EpollTimeout(e.at - t)
    /\ pc' = "wait"

(* epoll_wait until the earliest of the entries, as seen from time t. *)
WaitFor(entries, t) ==
    /\ \/ /\ entries = {}
          /\ timeout' = EpollTimeout(0)
       \/ \E e \in entries : /\ Earliest(e, entries)
                             /\ timeout' = EpollTimeout(e.at - t)
    /\ pc' = "wait"

(* The loop goes on with nothing to flush. *)
GetMinDelay == /\ pc = "top"
               /\ ~exit_flag_
               /\ \A e \in delay_tasks_ : e.at > clock
               /\ WaitFor(delay_tasks_, clock)
               /\ now' = clock
               /\ UNCHANGED <<pipeVars, taskVars, outerVars, delay_tasks_,
                              delay_tasks_copy, cur, events>>

(* An entry is due: flush_delay_tasks takes all of them. *)
StartFlush == /\ pc = "top"
              /\ ~exit_flag_
              /\ \E e \in delay_tasks_ : e.at <= clock
              /\ now' = clock
              /\ delay_tasks_copy' = delay_tasks_
              /\ delay_tasks_' = {}
              /\ pc' = "flush"
              /\ UNCHANGED <<pipeVars, taskVars, outerVars, cur, timeout,
                             events>>

NextDue(e) == /\ pc = "flush"
              /\ Earliest(e, delay_tasks_copy)
              /\ e.at <= now

(* A cancelled delay task does nothing and returns 0. *)
SkipDelayTask ==
    \E e \in delay_tasks_copy :
        /\ NextDue(e)
        /\ e.id \in cancelled
        /\ delay_tasks_copy' = delay_tasks_copy \ {e}
        /\ state' = [state EXCEPT ![e.id] = "done"]
        /\ UNCHANGED <<pipeVars, taskVars, dtorVars, cancelled, shutdowns,
                       delay_tasks_, cur, now, timeout, pc, exit_flag_, events,
                       clock>>

(* Mutant: erases the entry before its delay task runs. *)
StartDelayTaskErases ==
    \E e \in delay_tasks_copy :
        /\ NextDue(e)
        /\ e.id \notin cancelled
        /\ cur' = e
        /\ delay_tasks_copy' = delay_tasks_copy \ {e}
        /\ pc' = "delay"
        /\ UNCHANGED <<pipeVars, taskVars, outerVars, delay_tasks_, now,
                       timeout, events>>

StartDelayTask ==
    \E e \in delay_tasks_copy :
        /\ NextDue(e)
        /\ e.id \notin cancelled
        /\ cur' = e
        /\ pc' = "delay"
        /\ UNCHANGED <<pipeVars, taskVars, outerVars, delay_tasks_,
                       delay_tasks_copy, now, timeout, events>>

(* The delay task returns 0 (or throws, or its timer's callback wants no      *)
(* more) and is dropped, or returns the delay after which to run it again.   *)
DelayTaskReturns(next_delay) ==
    /\ pc = "delay"
    /\ \/ /\ next_delay = 0
          /\ delay_tasks_copy' = delay_tasks_copy \ {cur}
          /\ state' = [state EXCEPT ![cur.id] = "done"]
       \/ /\ next_delay > 0
          /\ delay_tasks_copy' = (delay_tasks_copy \ {cur}) \cup
                                 {Entry(cur.id, Timeline(next_delay, now))}
          /\ UNCHANGED state
    /\ cur' = NoEntry
    /\ errno' \in Errnos
    /\ pc' = "flush"
    /\ UNCHANGED <<pipe, edge, taskVars, dtorVars, cancelled, shutdowns,
                   delay_tasks_, now, timeout, exit_flag_, events, clock>>

(* Mutant: returns 0, which RunLoop takes for "no delay task". *)
EndFlushReturnsZero ==
    /\ pc = "flush"
    /\ \A e \in delay_tasks_copy : e.at > now
    /\ delay_tasks_' = delay_tasks_copy
    /\ delay_tasks_copy' = {}
    /\ WaitFor({}, now)
    /\ UNCHANGED <<pipeVars, taskVars, outerVars, cur, now, events>>

(* Nothing more is due: the copy replaces whatever delay_tasks_ holds. *)
EndFlush == /\ pc = "flush"
            /\ \A e \in delay_tasks_copy : e.at > now
            /\ delay_tasks_' = delay_tasks_copy
            /\ delay_tasks_copy' = {}
            /\ WaitFor(delay_tasks_copy, now)
            /\ UNCHANGED <<pipeVars, taskVars, outerVars, cur, now, events>>
--------------------------------------------------------------------------------
(* epoll_wait and the dispatch of the batch it returns.                      *)

(* epoll_wait has returned: now and timeout are out of scope. *)
Awake(next) == /\ pc' = next
               /\ now' = 0
               /\ timeout' = 0
               /\ UNCHANGED <<pipe, taskVars, delay_tasks_, delay_tasks_copy,
                              cur, outerVars>>

EpollWait == /\ pc = "wait"
             /\ \E batch \in Batches :
                    /\ HasPipe(batch) <=> ReadReady
                    /\ events' = batch
             /\ edge' = FALSE
             /\ Awake("dispatch")
             /\ UNCHANGED errno

(* The time is up.  The clock thread lags behind the kernel's clock, so this *)
(* says nothing about clock.                                                 *)
EpollTimesOut == /\ pc = "wait"
                 /\ timeout >= 0
                 /\ ~ReadReady
                 /\ Awake("top")
                 /\ UNCHANGED <<edge, errno, events>>

(* A signal interrupts epoll_wait: EINTR. *)
EpollInterrupted == /\ pc = "wait"
                    /\ errno' = "OTHER"
                    /\ Awake("top")
                    /\ UNCHANGED <<edge, events>>

EndOfBatch == pc = "dispatch" /\ events = <<>> /\ Goto("top")

Dispatch == /\ pc = "dispatch"
            /\ events # <<>>
            /\ events' = Tail(events)
            /\ \/ Head(events) = "fd" /\ pc' = "event"
               \/ Head(events) = "pipe" /\ pc' = "drain"
            /\ UNCHANGED <<pipeVars, taskVars, delayVars, outerVars>>

EventReturns == pc = "event" /\ ReturnTo("dispatch")
--------------------------------------------------------------------------------
(* on_pipe_event.                                                            *)

(* One turn of the do-while: the condition reads errno even after a read     *)
(* that succeeded and did not set it.                                        *)
DrainPipe == /\ pc = "drain"
             /\ Read
             /\ pc' = IF errno' = "EAGAIN" THEN "swap" ELSE "drain"
             /\ UNCHANGED <<taskVars, delayVars, outerVars, events>>

(* Mutant: takes one task for each time the pipe wakes it up. *)
SwapOneTask == /\ pc = "swap"
               /\ swap_list' = SubSeq(task_list_, 1, 1)
               /\ task_list_' = SubSeq(task_list_, 2, Len(task_list_))
               /\ pc' = "tasks"
               /\ UNCHANGED <<pipeVars, delayVars, outerVars, events>>

SwapLists == /\ pc = "swap"
             /\ swap_list' = task_list_
             /\ task_list_' = <<>>
             /\ pc' = "tasks"
             /\ UNCHANGED <<pipeVars, delayVars, outerVars, events>>

(* for_each reaches the next task, of the given kind. *)
NextTask(kind) == /\ pc = "tasks"
                  /\ swap_list # <<>>
                  /\ Head(swap_list).kind = kind
                  /\ swap_list' = Tail(swap_list)

(* Mutant: the exception ends the for_each. *)
RunExitTaskEndsBatch == /\ NextTask("exit")
                        /\ exit_flag_' = TRUE
                        /\ pc' = IF destroying THEN "destroyed" ELSE "dispatch"
                        /\ UNCHANGED <<pipeVars, task_list_, delayVars,
                                       dtorVars, userVars, events, clock>>

RunExitTask == /\ NextTask("exit")
               /\ exit_flag_' = TRUE
               /\ UNCHANGED <<pipeVars, task_list_, delayVars, dtorVars,
                              userVars, pc, events, clock>>

RunArmTask ==
    /\ NextTask("arm")
    /\ delay_tasks_' = delay_tasks_ \cup {Entry(Head(swap_list).id, Head(swap_list).at)}
    /\ UNCHANGED <<pipeVars, task_list_, delay_tasks_copy, cur, now, timeout,
                   outerVars, pc, events>>

(* A cancelled task returns at once; the code of any other one takes over.   *)
RunUserTask ==
    /\ NextTask("user")
    /\ state' = [state EXCEPT ![Head(swap_list).id] = "done"]
    /\ \/ Head(swap_list).id \in cancelled /\ UNCHANGED pc
       \/ Head(swap_list).id \notin cancelled /\ pc' = "task"
    /\ UNCHANGED <<pipeVars, task_list_, delayVars, dtorVars, cancelled,
                   shutdowns, exit_flag_, events, clock>>

(* The task returns or throws. *)
TaskReturns == pc = "task" /\ ReturnTo("tasks")

(* Mutant: clears the list that was swapped, after running its tasks. *)
EndOfTasksClears == /\ pc = "tasks"
                    /\ swap_list = <<>>
                    /\ task_list_' = <<>>
                    /\ pc' = IF destroying THEN "destroyed" ELSE "dispatch"
                    /\ UNCHANGED <<pipeVars, swap_list, delayVars, outerVars,
                                   events>>

EndOfTasks == /\ pc = "tasks"
              /\ swap_list = <<>>
              /\ Goto(IF destroying THEN "destroyed" ELSE "dispatch")
--------------------------------------------------------------------------------
(* The thread update_time stores the time of day. *)
Tick == /\ clock < MaxClock
        /\ clock' = clock + 1
        /\ UNCHANGED <<pipeVars, taskVars, delayVars, dtorVars, userVars, pc,
                       exit_flag_, events>>

UserCalls == \/ \E t \in Tasks : Async(t) \/ AsyncFirst(t)
             \/ \E d \in Timers, delay_ms \in Delays \cup {0} : DoDelayTask(d, delay_ms)
             \/ \E x \in Ids : Cancel(x)
             \/ Shutdown
             \/ RunLoop
             \/ Destroy

FlushSteps == \/ SkipDelayTask
              \/ StartDelayTask
              \/ \E next_delay \in Delays \cup {0} : DelayTaskReturns(next_delay)
              \/ EndFlush

PipeEventSteps == \/ DrainPipe
                  \/ SwapLists
                  \/ RunExitTask
                  \/ RunArmTask
                  \/ RunUserTask
                  \/ TaskReturns
                  \/ EndOfTasks

LoopSteps == \/ LeaveLoop
             \/ GetMinDelay
             \/ StartFlush
             \/ FlushSteps
             \/ EndOfBatch
             \/ Dispatch
             \/ EventReturns
             \/ PipeEventSteps

Next == \/ UserCalls
        \/ LoopSteps
        \/ EpollWait
        \/ EpollTimesOut
        \/ EpollInterrupted
        \/ Tick

Spec == Init /\ [][Next]_vars

(* epoll_wait returns when the pipe is ready or its time is up; callbacks    *)
(* return; the clock moves.  Nobody has to submit anything, no descriptor    *)
(* has to become ready and no signal has to arrive.  Signals may interrupt   *)
(* epoll_wait again and again, but one that is entered with the pipe ready   *)
(* reports it before it looks at pending signals: hence SF.                  *)
Fairness == /\ WF_vars(LoopSteps)
            /\ SF_vars(EpollWait /\ ReadReady)
            /\ WF_vars(EpollTimesOut)
            /\ WF_vars(Tick)

FairSpec == Spec /\ Fairness
--------------------------------------------------------------------------------
TypeOK == /\ PipeTypeOK
          /\ pc \in PCs
          /\ task_list_ \in Seq(TaskRec)
          /\ swap_list \in Seq(TaskRec)
          /\ exit_flag_ \in BOOLEAN
          /\ delay_tasks_ \in SUBSET DelayRec
          /\ delay_tasks_copy \in SUBSET DelayRec
          /\ cur \in IF pc = "delay" THEN delay_tasks_copy ELSE {NoEntry}
          /\ events \in Batches \cup {<<"pipe">>, <<>>}
          /\ clock \in Nat
          /\ now \in Nat
          /\ timeout \in Int
          /\ state \in [Ids -> {"new", "pending", "done"}]
          /\ cancelled \subseteq Ids
          /\ shutdowns \in 0..MaxShutdowns
          /\ destroying \in BOOLEAN
          /\ owed \subseteq Tasks

(* on_pipe_event is running or will run before the next epoll_wait, and has  *)
(* yet to take task_list_.                                                   *)
PipeEventDue == HasPipe(events) \/ pc \in {"drain", "swap"}

(* No task waits while the loop could sleep: whatever is in task_list_, the  *)
(* next epoll_wait reports the pipe or on_pipe_event is on its way, although *)
(* a write to a full pipe is given up (async) and the drain loop of          *)
(* on_pipe_event may stop, on an errno left by an earlier call, with bytes   *)
(* still in the pipe.                                                        *)
NoLostWakeup == task_list_ # <<>> => ReadReady \/ PipeEventDue

(* Why it holds: a write is given up only when the pipe is full, and a full  *)
(* pipe that was not just written to is one that is about to be drained.     *)
FullPipeIsSeen == pipe = PipeCap => edge \/ HasPipe(events) \/ pc = "drain"

BatchInScope ==
    /\ events # <<>> =>
          pc \in {"dispatch", "event", "drain", "swap", "tasks", "task"}
    /\ destroying =>
          pc \in {"drain", "swap", "tasks", "task", "destroyed"} /\ events = <<>>

WakeupInv == TypeOK /\ NoLostWakeup /\ FullPipeIsSeen /\ BatchInScope

Queue == swap_list \o task_list_

Places(x) == {i \in DOMAIN Queue : Queue[i].id = x}

(* A task handed to Async or AsyncFirst is executed once: until then it is   *)
(* in exactly one place of task_list_ and the list on_pipe_event took, and   *)
(* afterwards in neither, wherever its submission fell between the swap and  *)
(* the end of the for_each.                                                  *)
TaskConserved ==
    \A t \in Tasks :
        Cardinality(Places(t)) = IF state[t] = "pending" THEN 1 ELSE 0

(* A delay task is never dropped before it returns 0 nor duplicated, not     *)
(* even one submitted by a delay task while flush_delay_tasks owns the       *)
(* timers and is about to overwrite delay_tasks_ (the warning at the end of  *)
(* flush_delay_tasks).                                                       *)
TimerConserved ==
    \A d \in Timers :
        Cardinality(Places(d)) + Cardinality({e \in delay_tasks_ : e.id = d})
            + Cardinality({e \in delay_tasks_copy : e.id = d})
          = IF state[d] = "pending" THEN 1 ELSE 0

(* While the loop sleeps, epoll_wait was told to return at the time of the   *)
(* earliest delay task, if an int can say it, and to sleep without end only  *)
(* if there is none: nothing was armed between the computation and the wait. *)
SleepsUntilEarliest ==
    pc = "wait" =>
        IF delay_tasks_ = {}
        THEN timeout = -1
        ELSE \E e \in delay_tasks_ :
                /\ Earliest(e, delay_tasks_)
                /\ now < e.at
                /\ e.at - now <= IntMax => timeout = e.at - now

(* ~EventPoller executes every task submitted before it, also those behind   *)
(* an ExitException and those submitted after the loop had ended.            *)
DtorRunsBacklog == pc = "destroyed" => \A t \in owed : state[t] = "done"

(* A delay task that is due while the loop runs is started, unless it was    *)
(* cancelled or the loop is told to end first (RunLoop, get_min_delay_ms).   *)
DueTimerFires ==
    \A d \in Timers :
        (Running /\ \E e \in delay_tasks_ : e.id = d /\ e.at <= clock)
            ~> (cur.id = d \/ d \in cancelled \/ ~Running)

(* What TaskExecutor promises is what the poller does: every task accepted   *)
(* is executed while the loop runs, in the order of the queue, and an exit   *)
(* task ends the loop.                                                       *)
Executor == INSTANCE TaskExecutor
            WITH Items <- TaskRec, Exit <- ExitTask, queue <- Queue,
                 active <- Active, closing <- exit_flag_

ImplementsTaskExecutor == Executor!FairSpec

(* "Once ended, the loop cannot be resumed" (event_poller.h, at Shutdown).   *)
NeverResumed == [][pc = "ended" => ~Running']_vars
================================================================================
