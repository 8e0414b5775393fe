------------------------------ MODULE SignalList ------------------------------
(***************************************************************************)
(* List of utils/list.h as task_list_ of the poller uses it, statement by     *)
(* statement, and a signal handler that calls Shutdown between any two of     *)
(* them, as the programs under test/ do.  The signal is delivered to the      *)
(* thread of the poller.                                                      *)
(*                                                                            *)
(* A node is the task it holds.  Only the handler shares fields with what it  *)
(* interrupts, so a statement that touches neither task_list_ nor a node that *)
(* is in it is part of the step of another one.                               *)
(***************************************************************************)
EXTENDS Integers, SequencesExt

CONSTANTS Tasks,  \* of the user, each submitted once
          Exit,   \* the task of the handler's Shutdown
          null

ASSUME ListAssumption == Exit \notin Tasks /\ null \notin Tasks \cup {Exit}

Nodes == Tasks \cup {Exit}

Empty == [front_ |-> null, tail_ |-> null, size_ |-> 0]

VARIABLES task_list_,
          swap_list,    \* the local of on_pipe_event
          next_,        \* of each node
          node, tmp,    \* locals of the operation that runs
          pc, caller,   \* where it is, and where it returns to
          ptr,          \* of for_each
          submitted,
          ran,          \* tasks executed
          deleted,      \* nodes
          expected,     \* history: task_list_ as a sequence
          signalled,    \* history: the handler has run
          interrupted   \* history: within an operation on task_list_

lists == <<task_list_, swap_list, next_>>
regs  == <<node, tmp, ptr>>
hist  == <<submitted, ran, deleted, expected>>
sig   == <<signalled, interrupted>>

vars == <<lists, regs, pc, caller, hist, sig>>
--------------------------------------------------------------------------------
Init == /\ task_list_ = Empty
        /\ swap_list = Empty
        /\ next_ = [n \in Nodes |-> null]
        /\ node = null
        /\ tmp = null
        /\ ptr = null
        /\ pc = "idle"
        /\ caller = "idle"
        /\ submitted = {}
        /\ ran = <<>>
        /\ deleted = {}
        /\ expected = <<>>
        /\ signalled = FALSE
        /\ interrupted = FALSE

GoTo(label) == pc' = label /\ UNCHANGED <<caller, hist, sig>>

(* The user calls Async or AsyncFirst, from a task or elsewhere on the thread. *)
Call(t, operation) ==
    /\ pc \in {"idle", "task"}
    /\ t \in Tasks \ submitted
    /\ submitted' = submitted \cup {t}
    /\ node' = t
    /\ caller' = pc
    /\ pc' = operation
    /\ expected' = IF operation = "back" THEN Append(expected, t) ELSE <<t>> \o expected
    /\ UNCHANGED <<lists, tmp, ptr, ran, deleted, sig>>
--------------------------------------------------------------------------------
(* emplace_back and emplace_front.                                             *)

TestTail == /\ pc = "back"
            /\ GoTo(IF task_list_.tail_ = null THEN "only" ELSE "back_link")
            /\ UNCHANGED <<lists, regs>>

BackLink == /\ pc = "back_link"
            /\ next_' = [next_ EXCEPT ![task_list_.tail_] = node]
            /\ GoTo("set_tail")
            /\ UNCHANGED <<task_list_, swap_list, regs>>

SetTail == /\ pc = "set_tail"
           /\ task_list_' = [task_list_ EXCEPT !.tail_ = node]
           /\ GoTo("grow")
           /\ UNCHANGED <<swap_list, next_, regs>>

TestFront == /\ pc = "front"
             /\ GoTo(IF task_list_.front_ = null THEN "only" ELSE "front_link")
             /\ UNCHANGED <<lists, regs>>

FrontLink == /\ pc = "front_link"
             /\ next_' = [next_ EXCEPT ![node] = task_list_.front_]
             /\ GoTo("set_front")
             /\ UNCHANGED <<task_list_, swap_list, regs>>

SetFront == /\ pc = "set_front"
            /\ task_list_' = [task_list_ EXCEPT !.front_ = node]
            /\ GoTo("grow")
            /\ UNCHANGED <<swap_list, next_, regs>>

(* Mutant: the first node of a list is not its last. *)
OnlyFront == /\ pc = "only"
             /\ GoTo("set_front")
             /\ UNCHANGED <<lists, regs>>

(* front_ = tail_ = node: tail_ first. *)
Only == /\ pc = "only"
        /\ task_list_' = [task_list_ EXCEPT !.tail_ = node]
        /\ GoTo("set_front")
        /\ UNCHANGED <<swap_list, next_, regs>>

Grow == /\ pc = "grow"
        /\ task_list_' = [task_list_ EXCEPT !.size_ = @ + 1]
        /\ pc' = caller
        /\ node' = null
        /\ UNCHANGED <<swap_list, next_, tmp, ptr, caller, hist, sig>>
--------------------------------------------------------------------------------
(* on_pipe_event: swap, for_each, and the end of swap_list.                    *)

Fields == <<"front_", "tail_", "size_">>
Take == <<"take_front_", "take_tail_", "take_size_">>
Give == <<"give_front_", "give_tail_", "give_size_">>

StartSwap == /\ pc = "idle"
             /\ GoTo(Take[1])
             /\ UNCHANGED <<lists, regs>>

(* Mutant: the other list keeps its field. *)
SwapTakeOnly(k) == /\ pc = Take[k]
                   /\ swap_list' = [swap_list EXCEPT ![Fields[k]] = task_list_[Fields[k]]]
                   /\ tmp' = task_list_[Fields[k]]
                   /\ GoTo(Give[k])
                   /\ UNCHANGED <<task_list_, next_, node, ptr>>

SwapTake(k) == /\ pc = Take[k]
               /\ tmp' = swap_list[Fields[k]]
               /\ swap_list' = [swap_list EXCEPT ![Fields[k]] = task_list_[Fields[k]]]
               /\ GoTo(Give[k])
               /\ UNCHANGED <<task_list_, next_, node, ptr>>

SwapGive(k) == /\ pc = Give[k]
               /\ task_list_' = [task_list_ EXCEPT ![Fields[k]] = tmp]
               /\ tmp' = null
               /\ IF k < Len(Fields)
                  THEN /\ pc' = Take[k + 1]
                       /\ UNCHANGED <<ptr, expected>>
                  ELSE /\ pc' = "each"
                       /\ ptr' = swap_list.front_
                       /\ expected' = <<>>
               /\ UNCHANGED <<swap_list, next_, node, caller, submitted, ran, deleted, sig>>

(* The task may call Async. *)
RunTask == /\ pc = "each"
           /\ ptr # null
           /\ ran' = Append(ran, ptr)
           /\ pc' = "task"
           /\ UNCHANGED <<lists, regs, caller, submitted, deleted, expected, sig>>

NextNode == /\ pc = "task"
            /\ ptr' = next_[ptr]
            /\ GoTo("each")
            /\ UNCHANGED <<lists, node, tmp>>

(* The nodes that a walk from n comes to: the least set that leads to no other. *)
Reach(n) == {m \in Nodes : \A S \in SUBSET Nodes :
                n \in S \cup {null} /\ (\A x \in S : next_[x] \in S \cup {null}) => m \in S}

(* A walk from n comes to the elements of s, in their order, and then to an end. *)
Leads(n, s) == /\ n = IF s = <<>> THEN null ELSE s[1]
               /\ \A i \in DOMAIN s : next_[s[i]] = IF i = Len(s) THEN null ELSE s[i + 1]

Clear == /\ pc = "each"
         /\ ptr = null
         /\ deleted' = deleted \cup Reach(swap_list.front_)
         /\ swap_list' = Empty
         /\ pc' = "idle"
         /\ UNCHANGED <<task_list_, next_, regs, caller, submitted, ran, expected, sig>>
--------------------------------------------------------------------------------
(* The handler: emplace_front, while nothing else runs. *)
Signal == /\ ~signalled
          /\ signalled' = TRUE
          /\ interrupted' = (pc \notin {"idle", "task", "each"})
          /\ IF task_list_.front_ = null
             THEN /\ task_list_' = [front_ |-> Exit, tail_ |-> Exit,
                                    size_ |-> task_list_.size_ + 1]
                  /\ UNCHANGED next_
             ELSE /\ task_list_' = [task_list_ EXCEPT !.front_ = Exit, !.size_ = @ + 1]
                  /\ next_' = [next_ EXCEPT ![Exit] = task_list_.front_]
          /\ expected' = <<Exit>> \o expected
          /\ UNCHANGED <<swap_list, regs, pc, caller, submitted, ran, deleted>>

Emplace == TestTail \/ BackLink \/ SetTail \/ TestFront \/ FrontLink \/ SetFront
           \/ Only \/ Grow

Next == \/ \E t \in Tasks, operation \in {"back", "front"} : Call(t, operation)
        \/ Emplace
        \/ StartSwap
        \/ \E k \in DOMAIN Fields : SwapTake(k) \/ SwapGive(k)
        \/ RunTask
        \/ NextNode
        \/ Clear
        \/ Signal

Spec == Init /\ [][Next]_vars
--------------------------------------------------------------------------------
Between == pc \in {"idle", "task", "each"}

(* Between two operations, task_list_ holds what was emplaced and not yet     *)
(* swapped out, in order, and tail_ and size_ agree with it, if the handler   *)
(* has interrupted none of them.                                              *)
SequenceUnlessInterrupted ==
    Between /\ ~interrupted =>
        /\ Leads(task_list_.front_, expected)
        /\ task_list_.tail_ = IF expected = <<>> THEN null ELSE Last(expected)
        /\ task_list_.size_ = Len(expected)

(* Wherever the handler runs, no list leads to a node that clear has deleted, *)
(* for_each does not stand on one, and no task runs twice: what an            *)
(* interruption can do is to lose tasks.                                      *)
NoDeletedNode ==
    /\ deleted \cap UNION {{list.front_, list.tail_} \cup Reach(list.front_) :
                               list \in {task_list_, swap_list}} = {}
    /\ ptr \notin deleted
    /\ IsInjective(ran)

(* Once the handler's Shutdown has returned and the loop is back in           *)
(* epoll_wait, the task that ends the loop has run or is in task_list_:       *)
(* event_poller.h says that Shutdown ends the loop.                           *)
ShutdownKept == signalled /\ pc = "idle" =>
                    Exit \in ToSet(ran) \cup Reach(task_list_.front_)
================================================================================
