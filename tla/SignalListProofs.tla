--------------------------- MODULE SignalListProofs ---------------------------
(***************************************************************************)
(* Theorems about a List and the handler that interrupts it, for any number  *)
(* of tasks.  A list is described by a sequence: the nodes a walk from its    *)
(* front comes to.                                                            *)
(***************************************************************************)
EXTENDS SignalList, SequenceTheorems, WellFoundedInduction, NaturalsInduction, TLAPS

(* Where the operation that runs has not put its node into a list yet.         *)
Unlinked == {"back", "back_link", "front", "front_link", "only"}
Emplacing == Unlinked \cup {"set_tail", "set_front", "grow"}
Labels == {"idle", "each", "task"} \cup Emplacing
          \cup {"take_front_", "take_tail_", "take_size_"}
          \cup {"give_front_", "give_tail_", "give_size_"}

(* The swap has begun to change swap_list.                                     *)
Swapping == {"give_front_", "take_tail_", "give_tail_", "take_size_", "give_size_"}

(* on_pipe_event walks along swap_list.                                        *)
Walking == pc \in {"each", "task"} \/ (pc \in Emplacing /\ caller = "task")

Pointer == Nodes \cup {null}
Lists == [front_ : Pointer, tail_ : Pointer, size_ : Int]

StateOK ==
    /\ task_list_ \in Lists
    /\ swap_list \in Lists
    /\ next_ \in [Nodes -> Pointer]
    /\ node \in Pointer
    /\ ptr \in Pointer
    /\ pc \in Labels
    /\ caller \in {"idle", "task"}
    /\ submitted \subseteq Tasks
    /\ ran \in Seq(Nodes)
    /\ deleted \subseteq Nodes
    /\ expected \in Seq(Nodes)
    /\ signalled \in BOOLEAN
    /\ interrupted \in BOOLEAN

(* What the locals hold at each label. *)
LocalsOK ==
    /\ pc \in Emplacing => node \in submitted
    /\ pc \in {"back_link", "set_tail"} => task_list_.tail_ # null
    /\ pc \in {"give_front_", "give_tail_"} => tmp = null
    /\ pc = "give_size_" => tmp = 0
    /\ ~Walking /\ pc \notin Swapping => swap_list = Empty
    /\ pc \in {"give_front_", "take_tail_"} => swap_list.tail_ = null
    /\ pc \in {"give_front_", "take_tail_", "give_tail_", "take_size_"} => swap_list.size_ = 0
    /\ ~Walking => ptr = null
    /\ Walking /\ pc # "each" => ptr # null

ListTypeOK == StateOK /\ LocalsOK

(* What nobody has emplaced yet. *)
Fresh == (Tasks \ submitted) \cup (IF signalled THEN {} ELSE {Exit})

(* A walk from n along next comes to the nodes of s, each once.                *)
Line(next, n, s) ==
    /\ s \in Seq(Nodes)
    /\ \A i, j \in 1..Len(s) : s[i] = s[j] => i = j
    /\ n = IF Len(s) = 0 THEN null ELSE s[1]
    /\ \A i \in 1..Len(s) : next[s[i]] = IF i = Len(s) THEN null ELSE s[i + 1]

Ends(s) == IF Len(s) = 0 THEN null ELSE s[Len(s)]

(* What has run of s are the nodes before the k-th. *)
RunUpTo(s, k) == \A j \in 1..Len(s) : s[j] \in ToSet(ran) <=> j < k

(* A node that was lost still ends a chain, or is in none: what is appended    *)
(* to it reaches no list.                                                      *)
TailInv ==
    /\ \A i, j \in 1..Len(ran) : ran[i] = ran[j] => i = j
    /\ Fresh \cap (ToSet(ran) \cup deleted) = {}
    /\ deleted \subseteq ToSet(ran)
    /\ \A x \in Fresh : next_[x] = null
    /\ task_list_.tail_ \notin deleted \cup Fresh
    /\ swap_list.tail_ \notin deleted
    /\ task_list_.tail_ # null /\ pc # "set_tail" => next_[task_list_.tail_] = null
    /\ pc \in Emplacing => node \notin deleted \cup ToSet(ran)
    /\ pc \in Unlinked => node # task_list_.tail_
    /\ pc \in Unlinked \cup {"set_tail"} => next_[node] = null

(* The nodes of s wait: none of them was run, deleted or swapped out.          *)
Waits(next, n, s, w) ==
    /\ Line(next, n, s)
    /\ ToSet(s) \cap (deleted \cup Fresh \cup ToSet(ran) \cup w) = {}

(* w is what swap_list leads to. *)
WalkInv(w) ==
    /\ Line(next_, swap_list.front_, w)
    /\ ToSet(w) \cap (deleted \cup Fresh) = {}
    /\ ~Walking => RunUpTo(w, 1)
    /\ pc = "each" => \E k \in 1..Len(w) + 1 : /\ ptr = IF k = Len(w) + 1 THEN null ELSE w[k]
                                              /\ RunUpTo(w, k)
    /\ Walking /\ pc # "each" => \E k \in 1..Len(w) : ptr = w[k] /\ RunUpTo(w, k + 1)
    /\ pc \notin {"give_front_", "take_tail_", "give_tail_"} => task_list_.tail_ \notin ToSet(w)
    /\ pc \in Emplacing => node \notin ToSet(w)

(* s is what task_list_ leads to; between "take_front_" and "give_front_" both lists lead  *)
(* to the same nodes.                                                          *)
FrontInv(w, s) ==
    /\ Waits(next_, task_list_.front_, s, IF pc = "give_front_" THEN {} ELSE ToSet(w))
    /\ pc \in Unlinked \cup {"set_front"} => node \notin ToSet(s)

NodeInv(w) == pc = "set_front" => \E s : Waits(next_, node, s, ToSet(w))

Chains(w, s) == WalkInv(w) /\ FrontInv(w, s) /\ NodeInv(w)

ChainInv == \E w, s : Chains(w, s)

ListsInv == ListTypeOK /\ TailInv /\ ChainInv
--------------------------------------------------------------------------------
LEMMA Labelled == /\ Take[1] = "take_front_" /\ Take[2] = "take_tail_" /\ Take[3] = "take_size_"
                  /\ Give[1] = "give_front_" /\ Give[2] = "give_tail_" /\ Give[3] = "give_size_"
                  /\ Fields[1] = "front_" /\ Fields[2] = "tail_" /\ Fields[3] = "size_"
                  /\ DOMAIN Fields = 1..3 /\ Len(Fields) = 3
    BY DEF Take, Give, Fields

(* A field of a list by its name. *)
LEMMA NamedField ==
    ASSUME NEW r \in Lists, NEW f, NEW v
    PROVE  /\ f = "front_" => /\ r[f] = r.front_
                              /\ [r EXCEPT ![f] = v] = [r EXCEPT !.front_ = v]
           /\ f = "tail_" => /\ r[f] = r.tail_
                             /\ [r EXCEPT ![f] = v] = [r EXCEPT !.tail_ = v]
           /\ f = "size_" => /\ r[f] = r.size_
                             /\ [r EXCEPT ![f] = v] = [r EXCEPT !.size_ = v]
    OBVIOUS

(* The statements of swap, one field at a time. *)
LEMMA SwapFields ==
    ASSUME StateOK
    PROVE  /\ SwapTake(1) => /\ pc = "take_front_" /\ pc' = "give_front_"
                             /\ tmp' = swap_list.front_
                             /\ swap_list' = [swap_list EXCEPT !.front_ = task_list_.front_]
           /\ SwapTake(2) => /\ pc = "take_tail_" /\ pc' = "give_tail_"
                             /\ tmp' = swap_list.tail_
                             /\ swap_list' = [swap_list EXCEPT !.tail_ = task_list_.tail_]
           /\ SwapTake(3) => /\ pc = "take_size_" /\ pc' = "give_size_"
                             /\ tmp' = swap_list.size_
                             /\ swap_list' = [swap_list EXCEPT !.size_ = task_list_.size_]
           /\ SwapGive(1) => /\ pc = "give_front_" /\ pc' = "take_tail_"
                             /\ task_list_' = [task_list_ EXCEPT !.front_ = tmp]
                             /\ UNCHANGED <<ptr, expected>>
           /\ SwapGive(2) => /\ pc = "give_tail_" /\ pc' = "take_size_"
                             /\ task_list_' = [task_list_ EXCEPT !.tail_ = tmp]
                             /\ UNCHANGED <<ptr, expected>>
           /\ SwapGive(3) => /\ pc = "give_size_" /\ pc' = "each"
                             /\ task_list_' = [task_list_ EXCEPT !.size_ = tmp]
                             /\ ptr' = swap_list.front_ /\ expected' = <<>>
<1>0. task_list_ \in Lists /\ swap_list \in Lists
    BY DEF StateOK
<1>1. /\ task_list_[Fields[1]] = task_list_.front_ /\ swap_list[Fields[1]] = swap_list.front_
      /\ \A v : [task_list_ EXCEPT ![Fields[1]] = v] = [task_list_ EXCEPT !.front_ = v]
      /\ \A v : [swap_list EXCEPT ![Fields[1]] = v] = [swap_list EXCEPT !.front_ = v]
    BY <1>0, Labelled, NamedField
<1>2. /\ task_list_[Fields[2]] = task_list_.tail_ /\ swap_list[Fields[2]] = swap_list.tail_
      /\ \A v : [task_list_ EXCEPT ![Fields[2]] = v] = [task_list_ EXCEPT !.tail_ = v]
      /\ \A v : [swap_list EXCEPT ![Fields[2]] = v] = [swap_list EXCEPT !.tail_ = v]
    BY <1>0, Labelled, NamedField
<1>3. /\ task_list_[Fields[3]] = task_list_.size_ /\ swap_list[Fields[3]] = swap_list.size_
      /\ \A v : [task_list_ EXCEPT ![Fields[3]] = v] = [task_list_ EXCEPT !.size_ = v]
      /\ \A v : [swap_list EXCEPT ![Fields[3]] = v] = [swap_list EXCEPT !.size_ = v]
    BY <1>0, Labelled, NamedField
<1>4. ASSUME SwapTake(1) PROVE /\ pc = "take_front_" /\ pc' = "give_front_"
                             /\ tmp' = swap_list.front_
                             /\ swap_list' = [swap_list EXCEPT !.front_ = task_list_.front_]
    BY <1>1, <1>4, Labelled DEF SwapTake, GoTo
<1>5. ASSUME SwapTake(2) PROVE /\ pc = "take_tail_" /\ pc' = "give_tail_"
                             /\ tmp' = swap_list.tail_
                             /\ swap_list' = [swap_list EXCEPT !.tail_ = task_list_.tail_]
    BY <1>2, <1>5, Labelled DEF SwapTake, GoTo
<1>6. ASSUME SwapTake(3) PROVE /\ pc = "take_size_" /\ pc' = "give_size_"
                             /\ tmp' = swap_list.size_
                             /\ swap_list' = [swap_list EXCEPT !.size_ = task_list_.size_]
    BY <1>3, <1>6, Labelled DEF SwapTake, GoTo
<1>7. ASSUME SwapGive(1) PROVE /\ pc = "give_front_" /\ pc' = "take_tail_"
                             /\ task_list_' = [task_list_ EXCEPT !.front_ = tmp]
                             /\ UNCHANGED <<ptr, expected>>
    <2>1. pc = "give_front_" /\ task_list_' = [task_list_ EXCEPT !.front_ = tmp]
        BY <1>1, <1>7, Labelled, Zenon DEF SwapGive
    <2>2. pc' = "take_tail_" /\ UNCHANGED <<ptr, expected>>
        BY <1>7, Labelled, SMT DEF SwapGive
    <2> QED
        BY <2>1, <2>2
<1>8. ASSUME SwapGive(2) PROVE /\ pc = "give_tail_" /\ pc' = "take_size_"
                             /\ task_list_' = [task_list_ EXCEPT !.tail_ = tmp]
                             /\ UNCHANGED <<ptr, expected>>
    <2>1. pc = "give_tail_" /\ task_list_' = [task_list_ EXCEPT !.tail_ = tmp]
        BY <1>2, <1>8, Labelled, Zenon DEF SwapGive
    <2>2. pc' = "take_size_" /\ UNCHANGED <<ptr, expected>>
        BY <1>8, Labelled, SMT DEF SwapGive
    <2> QED
        BY <2>1, <2>2
<1>9. ASSUME SwapGive(3) PROVE /\ pc = "give_size_" /\ pc' = "each"
                             /\ task_list_' = [task_list_ EXCEPT !.size_ = tmp]
                             /\ ptr' = swap_list.front_ /\ expected' = <<>>
    <2>1. pc = "give_size_" /\ task_list_' = [task_list_ EXCEPT !.size_ = tmp]
        BY <1>3, <1>9, Labelled, Zenon DEF SwapGive
    <2>2. pc' = "each" /\ ptr' = swap_list.front_ /\ expected' = <<>>
        BY <1>9, Labelled, SMT DEF SwapGive
    <2> QED
        BY <2>1, <2>2
<1> QED
    BY <1>4, <1>5, <1>6, <1>7, <1>8, <1>9

LEMMA NextCases ==
    ASSUME Next
    PROVE  \/ \E t \in Tasks, operation \in {"back", "front"} : Call(t, operation)
           \/ TestTail \/ BackLink \/ SetTail \/ TestFront \/ FrontLink \/ SetFront \/ Only \/ Grow
           \/ StartSwap \/ SwapTake(1) \/ SwapTake(2) \/ SwapTake(3)
           \/ SwapGive(1) \/ SwapGive(2) \/ SwapGive(3)
           \/ RunTask \/ NextNode \/ Clear \/ Signal
<1>1. ASSUME NEW k \in DOMAIN Fields PROVE k = 1 \/ k = 2 \/ k = 3
    BY Labelled, SMT
<1> QED
    BY <1>1 DEF Next, Emplace

LEMMA Distinct == /\ Exit \in Nodes /\ Exit \notin Tasks /\ Tasks \subseteq Nodes
                  /\ null \notin Nodes /\ null \in Pointer /\ Nodes \subseteq Pointer
    BY ListAssumption DEF Nodes, Pointer

LEMMA EmptyFacts == Empty \in Lists /\ Empty.front_ = null /\ Empty.tail_ = null /\ Empty.size_ = 0
    BY Distinct DEF Empty, Lists

LEMMA FieldTypes ==
    ASSUME NEW r \in Lists
    PROVE  /\ r.front_ \in Pointer /\ r.tail_ \in Pointer /\ r.size_ \in Int
           /\ \A v \in Pointer : [r EXCEPT !.front_ = v] \in Lists
           /\ \A v \in Pointer : [r EXCEPT !.tail_ = v] \in Lists
           /\ \A v \in Int : [r EXCEPT !.size_ = v] \in Lists
    BY DEF Lists

(* What each action changes of a list. *)
LEMMA FieldsKept ==
    ASSUME NEW r \in Lists, NEW v
    PROVE  /\ [r EXCEPT !.front_ = v].front_ = v /\ [r EXCEPT !.front_ = v].tail_ = r.tail_
           /\ [r EXCEPT !.front_ = v].size_ = r.size_
           /\ [r EXCEPT !.tail_ = v].front_ = r.front_ /\ [r EXCEPT !.tail_ = v].tail_ = v
           /\ [r EXCEPT !.tail_ = v].size_ = r.size_
           /\ [r EXCEPT !.size_ = v].front_ = r.front_ /\ [r EXCEPT !.size_ = v].tail_ = r.tail_
           /\ [r EXCEPT !.size_ = v].size_ = v
    BY DEF Lists

(* What the handler does to the list. *)
LEMMA SignalFields ==
    ASSUME StateOK, Signal
    PROVE  /\ task_list_' \in Lists /\ task_list_'.front_ = Exit
           /\ task_list_'.tail_ = IF task_list_.front_ = null THEN Exit ELSE task_list_.tail_
           /\ task_list_'.size_ = task_list_.size_ + 1
           /\ next_' = IF task_list_.front_ = null THEN next_
                       ELSE [next_ EXCEPT ![Exit] = task_list_.front_]
           /\ next_' \in [Nodes -> Pointer]
<1>1. /\ task_list_ \in Lists /\ next_ \in [Nodes -> Pointer] /\ task_list_.front_ \in Pointer
      /\ task_list_.tail_ \in Pointer /\ task_list_.size_ + 1 \in Int
    BY FieldTypes DEF StateOK
<1>2. next_' = IF task_list_.front_ = null THEN next_
                                          ELSE [next_ EXCEPT ![Exit] = task_list_.front_]
    BY DEF Signal
<1>3. next_' \in [Nodes -> Pointer]
    BY <1>1, <1>2
<1>4. CASE task_list_.front_ = null
    <2>1. task_list_' = [front_ |-> Exit, tail_ |-> Exit, size_ |-> task_list_.size_ + 1]
        BY <1>4 DEF Signal
    <2>2. task_list_' \in Lists
        BY <1>1, <2>1, Distinct DEF Lists
    <2> QED
        BY <1>2, <1>3, <1>4, <2>1, <2>2
<1>5. CASE task_list_.front_ # null
    <2> DEFINE r == [task_list_ EXCEPT !.front_ = Exit]
    <2>1. r \in Lists /\ r.front_ = Exit /\ r.tail_ = task_list_.tail_
        BY <1>1, FieldTypes, FieldsKept, Distinct
    <2>2. task_list_' = [r EXCEPT !.size_ = task_list_.size_ + 1]
        BY <1>1, <1>5 DEF Signal, Lists
    <2> HIDE DEF r
    <2>3. task_list_' \in Lists
        BY <1>1, <2>1, <2>2, FieldTypes
    <2>4. /\ task_list_'.front_ = Exit /\ task_list_'.tail_ = task_list_.tail_
          /\ task_list_'.size_ = task_list_.size_ + 1
        BY <2>1, <2>2, FieldsKept
    <2> QED
        BY <1>2, <1>3, <1>5, <2>3, <2>4
<1> QED
    BY <1>4, <1>5

LEMMA TypeStep == ListTypeOK /\ [Next]_vars => ListTypeOK'
<1> SUFFICES ASSUME ListTypeOK, [Next]_vars PROVE StateOK' /\ LocalsOK'
    BY DEF ListTypeOK
<1> USE Distinct
<1>1. StateOK /\ LocalsOK
    BY DEF ListTypeOK
<1>2. CASE UNCHANGED vars
    BY <1>1, <1>2 DEF StateOK, LocalsOK, Walking, vars, lists, regs, hist, sig
<1>3. ASSUME NEW t \in Tasks, NEW operation \in {"back", "front"}, Call(t, operation)
      PROVE  StateOK' /\ LocalsOK'
    <2>1. expected' \in Seq(Nodes)
        BY <1>1, <1>3, ConcatProperties, AppendProperties DEF Call, StateOK
    <2> QED
        BY <1>1, <1>3, <2>1
        DEF Call, StateOK, LocalsOK, Walking, Labels, Emplacing, Unlinked, Swapping, lists, sig
<1>4. CASE TestTail
    BY <1>1, <1>4
    DEF TestTail, GoTo, StateOK, LocalsOK, Walking, Labels, Emplacing, Unlinked, Swapping, lists, regs, hist, sig
<1>5. CASE BackLink
    BY <1>1, <1>5
    DEF BackLink, GoTo, StateOK, LocalsOK, Walking, Labels, Emplacing, Unlinked, Swapping, lists, regs, hist, sig
<1>6. CASE SetTail
    BY <1>1, <1>6, FieldTypes
    DEF SetTail, GoTo, StateOK, LocalsOK, Walking, Labels, Emplacing, Unlinked, Swapping, lists, regs, hist, sig
<1>7. CASE TestFront
    BY <1>1, <1>7
    DEF TestFront, GoTo, StateOK, LocalsOK, Walking, Labels, Emplacing, Unlinked, Swapping, lists, regs, hist, sig
<1>8. CASE FrontLink
    BY <1>1, <1>8, FieldTypes
    DEF FrontLink, GoTo, StateOK, LocalsOK, Walking, Labels, Emplacing, Unlinked, Swapping, lists, regs, hist, sig
<1>9. CASE SetFront
    BY <1>1, <1>9, FieldTypes
    DEF SetFront, GoTo, StateOK, LocalsOK, Walking, Labels, Emplacing, Unlinked, Swapping, lists, regs, hist, sig
<1>10. CASE Only
    BY <1>1, <1>10, FieldTypes
    DEF Only, GoTo, StateOK, LocalsOK, Walking, Labels, Emplacing, Unlinked, Swapping, lists, regs, hist, sig
<1>11. CASE Grow
    <2>1. task_list_' \in Lists
        <3>1. task_list_ \in Lists /\ task_list_.size_ + 1 \in Int
            BY <1>1, FieldTypes DEF StateOK
        <3>2. task_list_' = [task_list_ EXCEPT !.size_ = task_list_.size_ + 1]
            BY <1>11, <3>1 DEF Grow
        <3> QED
            BY <3>1, <3>2, FieldTypes
    <2>2. /\ pc = "grow" /\ pc' = caller /\ node' = null
          /\ UNCHANGED <<swap_list, next_, tmp, ptr, caller, submitted, ran, deleted, expected, sig>>
        BY <1>11 DEF Grow, hist
    <2>3. StateOK'
        BY <1>1, <2>1, <2>2 DEF StateOK, Labels, sig
    <2>4. Walking' <=> Walking
        BY <1>1, <2>2 DEF StateOK, Walking, Emplacing, Unlinked
    <2>5. pc' \in {"idle", "task"}
        BY <1>1, <2>2 DEF StateOK
    <2>6. LocalsOK'
        BY <1>1, <2>2, <2>4, <2>5 DEF LocalsOK, Emplacing, Unlinked, Swapping
    <2> QED
        BY <2>3, <2>6
<1>12. CASE StartSwap
    BY <1>1, <1>12, Labelled
    DEF StartSwap, GoTo, StateOK, LocalsOK, Walking, Labels, Emplacing, Unlinked, Swapping, lists, regs, hist, sig
<1>13. CASE SwapTake(1)
    <2>1. UNCHANGED <<task_list_, next_, node, ptr, caller, hist, sig>>
        BY <1>13 DEF SwapTake, GoTo
    <2>2. /\ pc = "take_front_" /\ pc' = "give_front_" /\ tmp' = swap_list.front_
          /\ swap_list' = [swap_list EXCEPT !.front_ = task_list_.front_]
        BY <1>1, <1>13, SwapFields
    <2>3. ~Walking /\ ~Walking'
        BY <2>2 DEF Walking, Emplacing, Unlinked
    <2>4. tmp' = null /\ swap_list'.tail_ = null /\ swap_list'.size_ = 0
        BY <1>1, <2>2, <2>3, FieldsKept, EmptyFacts DEF StateOK, LocalsOK, Swapping
    <2>5. StateOK'
        BY <1>1, <2>1, <2>2, FieldTypes DEF StateOK, Labels, hist, sig
    <2>6. LocalsOK'
        BY <1>1, <2>1, <2>2, <2>3, <2>4 DEF LocalsOK, Emplacing, Unlinked, Swapping
    <2> QED
        BY <2>5, <2>6
<1>14. CASE SwapTake(2)
    <2>1. UNCHANGED <<task_list_, next_, node, ptr, caller, hist, sig>>
        BY <1>14 DEF SwapTake, GoTo
    <2>2. /\ pc = "take_tail_" /\ pc' = "give_tail_" /\ tmp' = swap_list.tail_
          /\ swap_list' = [swap_list EXCEPT !.tail_ = task_list_.tail_]
        BY <1>1, <1>14, SwapFields
    <2>3. ~Walking /\ ~Walking'
        BY <2>2 DEF Walking, Emplacing, Unlinked
    <2>4. tmp' = null /\ swap_list'.size_ = 0
        BY <1>1, <2>2, <2>3, FieldsKept DEF StateOK, LocalsOK, Swapping
    <2>5. StateOK'
        BY <1>1, <2>1, <2>2, FieldTypes DEF StateOK, Labels, hist, sig
    <2>6. LocalsOK'
        BY <1>1, <2>1, <2>2, <2>3, <2>4 DEF LocalsOK, Emplacing, Unlinked, Swapping
    <2> QED
        BY <2>5, <2>6
<1>15. CASE SwapTake(3)
    <2>1. UNCHANGED <<task_list_, next_, node, ptr, caller, hist, sig>>
        BY <1>15 DEF SwapTake, GoTo
    <2> QED
        BY <1>1, <1>15, <2>1, SwapFields, FieldTypes, FieldsKept
        DEF StateOK, LocalsOK, Walking, Labels, Emplacing, Unlinked, Swapping, hist, sig
<1>16. CASE SwapGive(1)
    <2>1. UNCHANGED <<swap_list, next_, node, caller, submitted, ran, deleted, sig>>
        BY <1>16 DEF SwapGive
    <2> QED
        BY <1>1, <1>16, <2>1, SwapFields, FieldTypes
        DEF StateOK, LocalsOK, Walking, Labels, Emplacing, Unlinked, Swapping, sig
<1>17. CASE SwapGive(2)
    <2>1. UNCHANGED <<swap_list, next_, node, caller, submitted, ran, deleted, sig>>
        BY <1>17 DEF SwapGive
    <2> QED
        BY <1>1, <1>17, <2>1, SwapFields, FieldTypes
        DEF StateOK, LocalsOK, Walking, Labels, Emplacing, Unlinked, Swapping, sig
<1>18. CASE SwapGive(3)
    <2>1. UNCHANGED <<swap_list, next_, node, caller, submitted, ran, deleted, sig>>
        BY <1>18 DEF SwapGive
    <2>2. <<>> \in Seq(Nodes)
        BY EmptySeq
    <2>3. /\ pc = "give_size_" /\ pc' = "each"
          /\ task_list_' = [task_list_ EXCEPT !.size_ = tmp]
          /\ ptr' = swap_list.front_ /\ expected' = <<>>
        BY <1>1, <1>18, SwapFields
    <2>4. tmp = 0
        BY <1>1, <2>3 DEF LocalsOK
    <2>5. task_list_' \in Lists /\ ptr' \in Pointer
        <3>1. task_list_ \in Lists /\ swap_list \in Lists
            BY <1>1 DEF StateOK
        <3>2. task_list_' \in Lists
            BY <2>3, <2>4, <3>1, FieldTypes
        <3>3. ptr' \in Pointer
            BY <2>3, <3>1, FieldTypes
        <3> QED
            BY <3>2, <3>3
    <2>6. StateOK'
        BY <1>1, <2>1, <2>2, <2>3, <2>5 DEF StateOK, Labels, sig
    <2>7. LocalsOK'
        BY <2>3 DEF LocalsOK, Walking, Emplacing, Unlinked, Swapping
    <2> QED
        BY <2>6, <2>7
<1>19. CASE RunTask
    <2>1. ran' \in Seq(Nodes)
        BY <1>1, <1>19, AppendProperties DEF RunTask, StateOK, Pointer
    <2> QED
        BY <1>1, <1>19, <2>1
        DEF RunTask, StateOK, LocalsOK, Walking, Labels, Emplacing, Unlinked, Swapping, lists, regs, sig
<1>20. CASE NextNode
    <2>1. /\ pc = "task" /\ pc' = "each" /\ ptr' = next_[ptr]
          /\ UNCHANGED <<lists, node, tmp, caller, hist, sig>>
        BY <1>20 DEF NextNode, GoTo
    <2>2. ptr' \in Pointer
        BY <1>1, <2>1 DEF StateOK, LocalsOK, Walking, Pointer
    <2>3. StateOK'
        BY <1>1, <2>1, <2>2 DEF StateOK, Labels, lists, hist, sig
    <2>4. LocalsOK'
        BY <2>1 DEF LocalsOK, Walking, Emplacing, Unlinked, Swapping
    <2> QED
        BY <2>3, <2>4
<1>21. CASE Clear
    <2>1. deleted' \subseteq Nodes
        BY <1>1, <1>21 DEF Clear, StateOK, Reach
    <2> QED
        BY <1>1, <1>21, <2>1, EmptyFacts
        DEF Clear, StateOK, LocalsOK, Walking, Labels, Emplacing, Unlinked, Swapping, lists, regs, sig
<1>22. CASE Signal
    <2>1. expected' \in Seq(Nodes)
        BY <1>1, <1>22, ConcatProperties DEF Signal, StateOK
    <2>2. task_list_' \in Lists /\ task_list_'.tail_ \in {task_list_.tail_, Exit}
        BY <1>1, <1>22, SignalFields
    <2>3. next_' \in [Nodes -> Pointer]
        BY <1>1, <1>22, SignalFields
    <2>4. signalled' \in BOOLEAN /\ interrupted' \in BOOLEAN
        BY <1>22 DEF Signal
    <2>5. UNCHANGED <<swap_list, node, tmp, ptr, pc, caller, submitted, ran, deleted>>
        BY <1>22 DEF Signal, regs
    <2> QED
        BY <1>1, <2>1, <2>2, <2>3, <2>4, <2>5
        DEF StateOK, LocalsOK, Walking, Labels, Emplacing, Unlinked, Swapping
<1> QED
    BY <1>2, <1>3, <1>4, <1>5, <1>6, <1>7, <1>8, <1>9, <1>10, <1>11, <1>12, <1>13, <1>14, <1>15,
       <1>16, <1>17, <1>18, <1>19, <1>20, <1>21, <1>22, NextCases
--------------------------------------------------------------------------------
LEMMA InSet ==
    ASSUME NEW s \in Seq(Nodes)
    PROVE  /\ Len(s) \in Nat /\ DOMAIN s = 1..Len(s)
           /\ \A i \in 1..Len(s) : s[i] \in Nodes
           /\ ToSet(s) \subseteq Nodes
           /\ \A x : x \in ToSet(s) <=> \E i \in 1..Len(s) : s[i] = x
    BY LenProperties, ElementOfSeq DEF ToSet

LEMMA EmptyLine ==
    ASSUME NEW next
    PROVE  Line(next, null, <<>>) /\ ToSet(<<>>) = {}
    BY EmptySeq DEF Line, ToSet

(* No front, no nodes. *)
LEMMA NullLine ==
    ASSUME NEW next, NEW s, Line(next, null, s)
    PROVE  s = <<>> /\ Len(s) = 0
<1>1. s \in Seq(Nodes) /\ Len(s) \in Nat
    BY InSet DEF Line
<1>2. Len(s) = 0
    BY <1>1, InSet, Distinct DEF Line
<1> QED
    BY <1>1, <1>2, EmptySeq

(* A field that no node of a chain has may change. *)
LEMMA LineFrame ==
    ASSUME NEW next, NEW next2, NEW n, NEW s, Line(next, n, s),
           \A x \in ToSet(s) : next2[x] = next[x]
    PROVE  Line(next2, n, s)
<1>1. \A i \in 1..Len(s) : s[i] \in ToSet(s)
    BY InSet DEF Line
<1> QED
    BY <1>1 DEF Line

LEMMA LineOther ==
    ASSUME NEW next \in [Nodes -> Pointer], NEW n, NEW s, Line(next, n, s), NEW x, NEW v, x \notin ToSet(s)
    PROVE  Line([next EXCEPT ![x] = v], n, s)
<1>1. \A y \in ToSet(s) : y \in Nodes
    BY InSet DEF Line
<1>2. \A y \in ToSet(s) : [next EXCEPT ![x] = v][y] = next[y]
    BY <1>1
<1> QED
    BY <1>2, LineFrame

LEMMA OneNode ==
    ASSUME NEW x \in Nodes
    PROVE  /\ <<x>> \in Seq(Nodes) /\ Len(<<x>>) = 1 /\ <<x>>[1] = x /\ ToSet(<<x>>) = {x}
           /\ \A next : next[x] = null => Line(next, x, <<x>>)
<1>1. <<x>> \in Seq(Nodes) /\ Len(<<x>>) = 1 /\ <<x>>[1] = x
    OBVIOUS
<1>2. ToSet(<<x>>) = {x}
    BY <1>1 DEF ToSet
<1>3. ASSUME NEW next, next[x] = null PROVE Line(next, x, <<x>>)
    BY <1>1, <1>3 DEF Line
<1> QED
    BY <1>1, <1>2, <1>3

(* A node in front of the others. *)
LEMMA PushSeq ==
    ASSUME NEW q \in Seq(Nodes), NEW x \in Nodes
    PROVE  /\ <<x>> \o q \in Seq(Nodes) /\ Len(q) \in Nat /\ Len(<<x>> \o q) = Len(q) + 1
           /\ ToSet(<<x>> \o q) = {x} \cup ToSet(q)
           /\ Ends(<<x>> \o q) = IF Len(q) = 0 THEN x ELSE Ends(q)
           /\ (<<x>> \o q)[1] = x /\ \A i \in 1..Len(q) : (<<x>> \o q)[i + 1] = q[i]
<1> DEFINE u == <<x>> \o q
<1>1. /\ u \in Seq(Nodes) /\ Len(q) \in Nat /\ Len(u) = Len(q) + 1
      /\ \A i \in 1..1 + Len(q) : u[i] = IF i <= 1 THEN x ELSE q[i - 1]
    BY OneNode, InSet, ConcatProperties
<1> HIDE DEF u
<1>2. u[1] = x /\ \A i \in 1..Len(q) : i + 1 \in 1..Len(u) /\ u[i + 1] = q[i]
    BY <1>1
<1>3. \A i \in 1..Len(u) : i = 1 \/ (i - 1 \in 1..Len(q) /\ u[i] = q[i - 1])
    BY <1>1
<1>4. ToSet(u) = {x} \cup ToSet(q)
    <2>1. ASSUME NEW y \in ToSet(u) PROVE y \in {x} \cup ToSet(q)
        <3>1. PICK i \in 1..Len(u) : u[i] = y
            BY <1>1, InSet
        <3>2. y = x \/ (i - 1 \in 1..Len(q) /\ q[i - 1] = y)
            BY <1>2, <1>3, <3>1
        <3> QED
            BY <3>2, InSet
    <2>2. x \in ToSet(u)
        BY <1>1, <1>2, InSet
    <2>3. ASSUME NEW y \in ToSet(q) PROVE y \in ToSet(u)
        <3>1. PICK i \in 1..Len(q) : q[i] = y
            BY InSet
        <3> QED
            BY <1>1, <1>2, <3>1, InSet
    <2> QED
        BY <2>1, <2>2, <2>3
<1>5. Ends(u) = IF Len(q) = 0 THEN x ELSE Ends(q)
    BY <1>1, <1>2 DEF Ends
<1> QED
    BY <1>1, <1>2, <1>4, <1>5 DEF u

(* A node in front of a chain. *)
LEMMA LinePush ==
    ASSUME NEW next \in [Nodes -> Pointer], NEW n, NEW s, Line(next, n, s),
           NEW x \in Nodes, x \notin ToSet(s), next[x] = n
    PROVE  Line(next, x, <<x>> \o s) /\ ToSet(<<x>> \o s) = {x} \cup ToSet(s)
<1> DEFINE u == <<x>> \o s
<1>1. s \in Seq(Nodes) /\ Len(s) \in Nat
    BY InSet DEF Line
<1>2. u \in Seq(Nodes) /\ Len(u) = Len(s) + 1 /\ ToSet(u) = {x} \cup ToSet(s)
    BY <1>1, PushSeq
<1>3. u[1] = x /\ \A i \in 1..Len(s) : u[i + 1] = s[i]
    BY <1>1, PushSeq
<1> HIDE DEF u
<1>4. \A i \in 1..Len(u) : i = 1 \/ (i - 1 \in 1..Len(s) /\ u[i] = s[i - 1])
    BY <1>1, <1>2, <1>3
<1>5. \A i, j \in 1..Len(u) : u[i] = u[j] => i = j
    <2> SUFFICES ASSUME NEW i \in 1..Len(u), NEW j \in 1..Len(u), u[i] = u[j] PROVE i = j
        OBVIOUS
    <2>1. \A k \in 1..Len(s) : s[k] # x
        BY <1>1, InSet
    <2>2. CASE i = 1 \/ j = 1
        BY <1>1, <1>2, <1>3, <1>4, <2>1, <2>2
    <2>3. CASE i # 1 /\ j # 1
        <3>1. i - 1 \in 1..Len(s) /\ j - 1 \in 1..Len(s) /\ s[i - 1] = s[j - 1]
            BY <1>4, <2>3
        <3>2. i - 1 = j - 1
            BY <3>1 DEF Line
        <3> QED
            BY <1>1, <1>2, <3>2
    <2> QED
        BY <2>2, <2>3
<1>6. \A i \in 1..Len(u) : next[u[i]] = IF i = Len(u) THEN null ELSE u[i + 1]
    <2> SUFFICES ASSUME NEW i \in 1..Len(u) PROVE next[u[i]] = IF i = Len(u) THEN null ELSE u[i + 1]
        OBVIOUS
    <2>1. CASE i = 1
        BY <1>1, <1>2, <1>3, <2>1 DEF Line
    <2>2. CASE i # 1
        <3>1. i - 1 \in 1..Len(s) /\ u[i] = s[i - 1]
            BY <1>4, <2>2
        <3>2. next[s[i - 1]] = IF i - 1 = Len(s) THEN null ELSE s[(i - 1) + 1]
            BY <3>1 DEF Line
        <3>3. i # Len(u) => i \in 1..Len(s) /\ u[i + 1] = s[i]
            BY <1>1, <1>2, <1>3
        <3>4. (i - 1 = Len(s) <=> i = Len(u)) /\ (i - 1) + 1 = i
            BY <1>1, <1>2
        <3> QED
            BY <3>1, <3>2, <3>3, <3>4
    <2> QED
        BY <2>1, <2>2
<1>7. Line(next, x, u)
    BY <1>1, <1>2, <1>3, <1>5, <1>6 DEF Line
<1> QED
    BY <1>2, <1>7 DEF u

(* The elements of a longer sequence. *)
LEMMA AppendSet ==
    ASSUME NEW s \in Seq(Nodes), NEW x \in Nodes
    PROVE  /\ Append(s, x) \in Seq(Nodes) /\ Len(s) \in Nat /\ Len(Append(s, x)) = Len(s) + 1
           /\ Append(s, x)[Len(s) + 1] = x /\ \A i \in 1..Len(s) : Append(s, x)[i] = s[i]
           /\ ToSet(Append(s, x)) = ToSet(s) \cup {x}
<1> DEFINE u == Append(s, x)
<1>1. /\ u \in Seq(Nodes) /\ Len(s) \in Nat /\ Len(u) = Len(s) + 1 /\ u[Len(s) + 1] = x
      /\ \A i \in 1..Len(s) : u[i] = s[i]
    BY InSet, AppendProperties
<1> HIDE DEF u
<1>2. ASSUME NEW y \in ToSet(u) PROVE y \in ToSet(s) \cup {x}
    <2>1. PICK i \in 1..Len(u) : u[i] = y
        BY <1>1, InSet
    <2>2. i = Len(s) + 1 \/ i \in 1..Len(s)
        BY <1>1
    <2> QED
        BY <1>1, <2>1, <2>2, InSet
<1>3. ASSUME NEW y \in ToSet(s) PROVE y \in ToSet(u)
    <2>1. PICK i \in 1..Len(s) : s[i] = y
        BY InSet
    <2>2. i \in 1..Len(u) /\ u[i] = y
        BY <1>1, <2>1
    <2> QED
        BY <1>1, <2>2, InSet
<1>4. x \in ToSet(u)
    BY <1>1, InSet
<1> QED
    BY <1>1, <1>2, <1>3, <1>4 DEF u

(* The last node of a chain gets a successor. *)
LEMMA LineLast ==
    ASSUME NEW next, NEW n, NEW s, Line(next, n, s), Len(s) # 0,
           NEW x \in Nodes, next[x] = null, x \notin ToSet(s),
           NEW next2, next2[s[Len(s)]] = x,
           \A y \in Nodes : y # s[Len(s)] => next2[y] = next[y]
    PROVE  Line(next2, n, Append(s, x))
<1> DEFINE u == Append(s, x)
           t == s[Len(s)]
<1>1. /\ s \in Seq(Nodes) /\ Len(s) \in Nat /\ t \in ToSet(s) /\ t # x
      /\ \A i \in 1..Len(s) : s[i] \in Nodes /\ s[i] # x
    BY InSet DEF Line
<1>2. /\ u \in Seq(Nodes) /\ Len(u) = Len(s) + 1 /\ u[Len(s) + 1] = x
      /\ \A i \in 1..Len(s) : u[i] = s[i]
    BY <1>1, AppendSet
<1>3. next2[t] = x /\ next2[x] = null /\ \A i \in 1..Len(s) : s[i] # t => next2[s[i]] = next[s[i]]
    BY <1>1
<1> HIDE DEF u
<1>4. \A i \in 1..Len(s) : s[i] = t => i = Len(s)
    BY <1>1 DEF Line
<1> HIDE DEF t
<1>5. \A i, j \in 1..Len(u) : u[i] = u[j] => i = j
    <2> SUFFICES ASSUME NEW i \in 1..Len(u), NEW j \in 1..Len(u), u[i] = u[j] PROVE i = j
        OBVIOUS
    <2>1. CASE i = Len(u) \/ j = Len(u)
        BY <1>1, <1>2, <2>1
    <2>2. CASE i # Len(u) /\ j # Len(u)
        <3>1. i \in 1..Len(s) /\ j \in 1..Len(s)
            BY <1>1, <1>2, <2>2
        <3> QED
            BY <1>2, <3>1 DEF Line
    <2> QED
        BY <2>1, <2>2
<1>6. \A i \in 1..Len(u) : next2[u[i]] = IF i = Len(u) THEN null ELSE u[i + 1]
    <2> SUFFICES ASSUME NEW i \in 1..Len(u) PROVE next2[u[i]] = IF i = Len(u) THEN null ELSE u[i + 1]
        OBVIOUS
    <2>1. CASE i = Len(u)
        BY <1>1, <1>2, <1>3, <2>1
    <2>2. CASE i = Len(s)
        BY <1>1, <1>2, <1>3, <2>2 DEF t
    <2>3. CASE i # Len(u) /\ i # Len(s)
        <3>1. i \in 1..Len(s) /\ i + 1 \in 1..Len(s) /\ s[i] # t
            BY <1>1, <1>2, <1>4, <2>3
        <3>2. next2[s[i]] = s[i + 1]
            BY <1>3, <2>3, <3>1 DEF Line
        <3> QED
            BY <1>2, <2>3, <3>1, <3>2
    <2> QED
        BY <2>1, <2>2, <2>3
<1>7. n = u[1] /\ Len(u) # 0
    BY <1>1, <1>2 DEF Line
<1>8. Line(next2, n, u)
    BY <1>2, <1>5, <1>6, <1>7 DEF Line
<1> QED
    BY <1>8 DEF u

(* The node that gets the successor ends a chain, or is in none. *)
LEMMA LineAppend ==
    ASSUME NEW next \in [Nodes -> Pointer], NEW n, NEW s, Line(next, n, s),
           NEW t \in Nodes, next[t] = null, NEW x \in Nodes, next[x] = null,
           x \notin ToSet(s), x # t,
           NEW next2, next2[t] = x, \A y \in Nodes : y # t => next2[y] = next[y]
    PROVE  \E u : Line(next2, n, u) /\ ToSet(u) \subseteq ToSet(s) \cup {x}
<1>1. CASE t \notin ToSet(s)
    <2>1. \A y \in ToSet(s) : next2[y] = next[y]
        BY <1>1, InSet DEF Line
    <2>2. Line(next2, n, s)
        BY <2>1, LineFrame
    <2> QED
        BY <2>2
<1>2. CASE t \in ToSet(s)
    <2>1. s \in Seq(Nodes) /\ Len(s) \in Nat /\ \A i \in 1..Len(s) : s[i] \in Nodes
        BY InSet DEF Line
    <2>2. PICK k \in 1..Len(s) : s[k] = t
        BY <1>2, <2>1, InSet
    <2>3. k = Len(s)
        <3> SUFFICES ASSUME k # Len(s) PROVE FALSE
            OBVIOUS
        <3>1. k + 1 \in 1..Len(s)
            BY <2>1, <2>2
        <3>2. next[s[k]] = s[k + 1]
            BY <2>2 DEF Line
        <3> QED
            BY <2>1, <2>2, <3>1, <3>2, Distinct
    <2>4. Len(s) # 0 /\ s[Len(s)] = t
        BY <2>1, <2>2, <2>3
    <2>5. Line(next2, n, Append(s, x))
        BY <2>4, LineLast
    <2>6. ToSet(Append(s, x)) = ToSet(s) \cup {x}
        BY <2>1, AppendSet
    <2> QED
        BY <2>5, <2>6
<1> QED
    BY <1>1, <1>2

(* A walk comes to no node outside its chain. *)
LEMMA ReachLine ==
    ASSUME NEW n, NEW s, Line(next_, n, s)
    PROVE  Reach(n) \subseteq ToSet(s)
<1>1. s \in Seq(Nodes) /\ Len(s) \in Nat /\ ToSet(s) \in SUBSET Nodes
    BY InSet DEF Line
<1>2. n \in ToSet(s) \cup {null}
    BY <1>1, InSet DEF Line
<1>3. ASSUME NEW x \in ToSet(s) PROVE next_[x] \in ToSet(s) \cup {null}
    <2>1. PICK i \in 1..Len(s) : s[i] = x
        BY <1>1, InSet
    <2>2. i # Len(s) => i + 1 \in 1..Len(s)
        BY <1>1
    <2>3. next_[x] = IF i = Len(s) THEN null ELSE s[i + 1]
        BY <2>1 DEF Line
    <2> QED
        BY <1>1, <2>2, <2>3, InSet
<1> QED
    BY <1>1, <1>2, <1>3 DEF Reach
(* Induction, for a set of numbers. *)
LEMMA NatInduct ==
    ASSUME NEW T, 0 \in T, \A n \in Nat : n \in T => n + 1 \in T
    PROVE  \A n \in Nat : n \in T
<1> DEFINE Out == Nat \ T
           R == OpToRel(<, Nat)
<1> SUFFICES ASSUME Out # {} PROVE FALSE
    OBVIOUS
<1>1. IsWellFoundedOn(R, Nat)
    BY NatLessThanWellFounded
<1> HIDE DEF R
<1>2. PICK x \in Out : \A y \in Out : ~(<<y, x>> \in R)
    BY <1>1, WFMin
<1>3. x \in Nat /\ x # 0 /\ ~(x \in T)
    BY <1>2
<1>4. x - 1 \in Nat /\ (x - 1) + 1 = x /\ x - 1 < x
    BY <1>3
<1>5. x - 1 \in Out
    BY <1>3, <1>4
<1> QED
    BY <1>2, <1>3, <1>4, <1>5 DEF R, OpToRel

(* A walk comes to every node of its chain. *)
LEMMA LineReach ==
    ASSUME NEW n, NEW s, Line(next_, n, s)
    PROVE  Reach(n) = ToSet(s)
<1>1. /\ s \in Seq(Nodes) /\ Len(s) \in Nat /\ ToSet(s) \subseteq Nodes
      /\ \A x : x \in ToSet(s) <=> \E i \in 1..Len(s) : s[i] = x
    BY InSet DEF Line
<1>2. ASSUME NEW S \in SUBSET Nodes, n \in S \cup {null}, \A x \in S : next_[x] \in S \cup {null}
      PROVE  ToSet(s) \subseteq S
    <2> DEFINE T == {i \in Nat : i + 1 <= Len(s) => s[i + 1] \in S}
    <2>1. 0 \in T
        <3>1. 0 + 1 <= Len(s) => n = s[0 + 1] /\ s[0 + 1] \in Nodes
            BY <1>1, InSet DEF Line
        <3> QED
            BY <1>2, <3>1, Distinct
    <2>2. ASSUME NEW i \in Nat, i \in T PROVE i + 1 \in T
        <3> SUFFICES ASSUME (i + 1) + 1 <= Len(s) PROVE s[(i + 1) + 1] \in S
            OBVIOUS
        <3>1. i + 1 \in 1..Len(s) /\ (i + 1) + 1 \in 1..Len(s) /\ i + 1 # Len(s)
            BY <1>1
        <3>2. s[i + 1] \in S
            BY <2>2, <3>1
        <3>3. next_[s[i + 1]] = s[(i + 1) + 1]
            BY <3>1 DEF Line
        <3>4. s[(i + 1) + 1] \in Nodes
            BY <3>1, <1>1, InSet
        <3> QED
            BY <1>2, <3>2, <3>3, <3>4, Distinct
    <2> HIDE DEF T
    <2>3. \A i \in Nat : i \in T
        BY <2>1, <2>2, NatInduct
    <2>4. ASSUME NEW j \in 1..Len(s) PROVE s[j] \in S
        <3>1. j - 1 \in Nat /\ (j - 1) + 1 = j /\ j <= Len(s)
            BY <1>1
        <3>2. j - 1 \in T
            BY <2>3, <3>1
        <3> QED
            BY <3>1, <3>2 DEF T
    <2> QED
        BY <1>1, <2>4
<1>3. ToSet(s) \subseteq Reach(n)
    BY <1>1, <1>2 DEF Reach
<1> QED
    BY <1>3, ReachLine

--------------------------------------------------------------------------------
(* The nodes of the chains, of the operation and of the handler are different. *)
LEMMA Apart ==
    ASSUME ListTypeOK, TailInv, NEW w, NEW s, WalkInv(w), FrontInv(w, s)
    PROVE  /\ w \in Seq(Nodes) /\ s \in Seq(Nodes) /\ Len(w) \in Nat /\ Len(s) \in Nat
           /\ ToSet(w) \subseteq Nodes /\ ToSet(s) \subseteq Nodes
           /\ \A i \in 1..Len(w) : w[i] \in ToSet(w)
           /\ \A x \in Fresh : x \notin ToSet(w) \cup ToSet(s) \cup deleted \cup ToSet(ran)
           /\ pc \in Emplacing => node \in Tasks /\ node \notin Fresh /\ node # Exit
           /\ null \notin deleted /\ null \notin ToSet(ran) /\ Fresh \subseteq Nodes
<1>1. /\ w \in Seq(Nodes) /\ s \in Seq(Nodes) /\ ran \in Seq(Nodes) /\ deleted \subseteq Nodes
      /\ submitted \subseteq Tasks
    BY DEF ListTypeOK, StateOK, WalkInv, FrontInv, Waits, Line
<1>2. \A x \in Fresh : x \notin ToSet(w) \cup ToSet(s) \cup deleted \cup ToSet(ran)
    BY DEF WalkInv, FrontInv, Waits, TailInv
<1>3. pc \in Emplacing => node \in submitted
    BY DEF ListTypeOK, LocalsOK
<1>4. Fresh \subseteq Nodes /\ Fresh \cap submitted = {}
    BY <1>1, Distinct DEF Fresh
<1>5. ToSet(ran) \subseteq Nodes
    BY <1>1, InSet
<1> QED
    BY <1>1, <1>2, <1>3, <1>4, <1>5, InSet, Distinct

(* A task of the user. *)
LEMMA CallChain ==
    ASSUME ListTypeOK, ListTypeOK', TailInv, NEW w, NEW s, WalkInv(w), FrontInv(w, s), NodeInv(w),
           NEW t \in Tasks, NEW operation \in {"back", "front"}, Call(t, operation)
    PROVE  TailInv' /\ WalkInv(w)' /\ FrontInv(w, s)' /\ NodeInv(w)'
<1>1. /\ pc \in {"idle", "task"} /\ t \in Tasks \ submitted /\ submitted' = submitted \cup {t}
      /\ node' = t /\ caller' = pc /\ pc' = operation
      /\ UNCHANGED <<task_list_, swap_list, next_, ptr, ran, deleted, signalled>>
    BY DEF Call, lists, sig
<1>2. t \in Fresh /\ Fresh' = Fresh \ {t}
    BY <1>1, Distinct DEF Fresh
<1>3. next_[t] = null /\ t \notin ToSet(w) \cup ToSet(s) \cup deleted \cup ToSet(ran) /\ t # task_list_.tail_
    BY <1>2, Apart DEF TailInv
<1>4. (Walking' <=> Walking) /\ pc # "each" /\ pc' # "each" /\ pc' \in Unlinked
    BY <1>1 DEF Walking, Emplacing, Unlinked
<1>5. TailInv'
    BY <1>1, <1>2, <1>3, <1>4 DEF TailInv
<1>6. WalkInv(w)'
    BY <1>1, <1>2, <1>3, <1>4 DEF WalkInv, RunUpTo
<1>7. FrontInv(w, s)'
    BY <1>1, <1>2, <1>3, <1>4 DEF FrontInv, Waits
<1>8. NodeInv(w)'
    BY <1>1 DEF NodeInv
<1> QED
    BY <1>5, <1>6, <1>7, <1>8

LEMMA TestTailChain ==
    ASSUME ListTypeOK, ListTypeOK', TailInv, NEW w, NEW s, WalkInv(w), FrontInv(w, s), NodeInv(w),
           TestTail
    PROVE  TailInv' /\ WalkInv(w)' /\ FrontInv(w, s)' /\ NodeInv(w)'
<1>1. /\ pc = "back" /\ pc' \in {"only", "back_link"}
      /\ UNCHANGED <<task_list_, swap_list, next_, node, ptr, ran, deleted, submitted, signalled, caller>>
    BY DEF TestTail, GoTo, lists, regs, hist, sig
<1>2. Fresh' = Fresh /\ (Walking' <=> Walking) /\ pc \in Unlinked /\ pc' \in Unlinked
    BY <1>1 DEF Fresh, Walking, Emplacing, Unlinked
<1>3. TailInv'
    BY <1>1, <1>2 DEF TailInv, Emplacing
<1>4. WalkInv(w)'
    BY <1>1, <1>2 DEF WalkInv, RunUpTo, Emplacing
<1>5. FrontInv(w, s)'
    BY <1>1, <1>2 DEF FrontInv, Waits
<1>6. NodeInv(w)'
    BY <1>1 DEF NodeInv
<1> QED
    BY <1>3, <1>4, <1>5, <1>6

LEMMA TestFrontChain ==
    ASSUME ListTypeOK, ListTypeOK', TailInv, NEW w, NEW s, WalkInv(w), FrontInv(w, s), NodeInv(w),
           TestFront
    PROVE  TailInv' /\ WalkInv(w)' /\ FrontInv(w, s)' /\ NodeInv(w)'
<1>1. /\ pc = "front" /\ pc' \in {"only", "front_link"}
      /\ UNCHANGED <<task_list_, swap_list, next_, node, ptr, ran, deleted, submitted, signalled, caller>>
    BY DEF TestFront, GoTo, lists, regs, hist, sig
<1>2. Fresh' = Fresh /\ (Walking' <=> Walking) /\ pc \in Unlinked /\ pc' \in Unlinked
    BY <1>1 DEF Fresh, Walking, Emplacing, Unlinked
<1>3. TailInv'
    BY <1>1, <1>2 DEF TailInv, Emplacing
<1>4. WalkInv(w)'
    BY <1>1, <1>2 DEF WalkInv, RunUpTo, Emplacing
<1>5. FrontInv(w, s)'
    BY <1>1, <1>2 DEF FrontInv, Waits
<1>6. NodeInv(w)'
    BY <1>1 DEF NodeInv
<1> QED
    BY <1>3, <1>4, <1>5, <1>6

(* The node of emplace_back goes behind tail_, wherever that is. *)
LEMMA BackLinkChain ==
    ASSUME ListTypeOK, ListTypeOK', TailInv, NEW w, NEW s, WalkInv(w), FrontInv(w, s), NodeInv(w),
           BackLink
    PROVE  TailInv' /\ WalkInv(w)' /\ (\E u : FrontInv(w, u)') /\ NodeInv(w)'
<1>1. /\ pc = "back_link" /\ pc' = "set_tail"
      /\ next_' = [next_ EXCEPT ![task_list_.tail_] = node]
      /\ UNCHANGED <<task_list_, swap_list, node, ptr, ran, deleted, submitted, signalled, caller>>
    BY DEF BackLink, GoTo, regs, hist, sig
<1>2. /\ Fresh' = Fresh /\ (Walking' <=> Walking) /\ pc \in Unlinked /\ pc' \in Emplacing
      /\ pc \in Emplacing
    BY <1>1 DEF Fresh, Walking, Emplacing, Unlinked
<1>3. /\ next_ \in [Nodes -> Pointer] /\ task_list_.tail_ \in Nodes /\ node \in Nodes
      /\ node \notin Fresh
    BY <1>1, <1>2, FieldTypes, Apart, Distinct DEF ListTypeOK, StateOK, LocalsOK, Pointer
<1>4. /\ next_[task_list_.tail_] = null /\ next_[node] = null /\ node # task_list_.tail_
      /\ task_list_.tail_ \notin Fresh /\ node \notin deleted \cup ToSet(ran)
    BY <1>1, <1>2, <1>3, Distinct DEF TailInv
<1>5. /\ Line(next_, swap_list.front_, w) /\ task_list_.tail_ \notin ToSet(w)
      /\ node \notin ToSet(w)
    BY <1>1, <1>2 DEF WalkInv
<1>6. /\ Line(next_, task_list_.front_, s) /\ node \notin ToSet(s)
      /\ ToSet(s) \cap (deleted \cup Fresh \cup ToSet(ran) \cup ToSet(w)) = {}
    BY <1>1, <1>2 DEF FrontInv, Waits
<1>7. Line(next_', swap_list.front_, w)
    BY <1>1, <1>3, <1>5, LineOther
<1>8. PICK u : /\ Line(next_', task_list_.front_, u)
               /\ ToSet(u) \subseteq ToSet(s) \cup {node}
    <2>1. /\ next_'[task_list_.tail_] = node
          /\ \A y \in Nodes : y # task_list_.tail_ => next_'[y] = next_[y]
        BY <1>1, <1>3
    <2> QED
        BY <1>3, <1>4, <1>6, <2>1, LineAppend
<1>9. TailInv'
    BY <1>1, <1>2, <1>3, <1>4, Apart DEF TailInv, Unlinked
<1>10. WalkInv(w)'
    BY <1>1, <1>2, <1>5, <1>7 DEF WalkInv, RunUpTo
<1>11. FrontInv(w, u)'
    BY <1>1, <1>2, <1>3, <1>4, <1>5, <1>6, <1>8 DEF FrontInv, Waits, Unlinked
<1>12. NodeInv(w)'
    BY <1>1 DEF NodeInv
<1> QED
    BY <1>9, <1>10, <1>11, <1>12

(* tail_ is the node that was linked. *)
LEMMA SetTailChain ==
    ASSUME ListTypeOK, ListTypeOK', TailInv, NEW w, NEW s, WalkInv(w), FrontInv(w, s), NodeInv(w),
           SetTail
    PROVE  TailInv' /\ WalkInv(w)' /\ FrontInv(w, s)' /\ NodeInv(w)'
<1>1. /\ pc = "set_tail" /\ pc' = "grow"
      /\ task_list_' = [task_list_ EXCEPT !.tail_ = node] /\ task_list_ \in Lists
      /\ UNCHANGED <<swap_list, next_, node, ptr, ran, deleted, submitted, signalled, caller>>
    BY DEF SetTail, GoTo, regs, hist, sig, ListTypeOK, StateOK
<1>2. task_list_'.tail_ = node /\ task_list_'.front_ = task_list_.front_
    BY <1>1, FieldsKept
<1>3. /\ Fresh' = Fresh /\ (Walking' <=> Walking) /\ pc' \notin Unlinked /\ pc' \in Emplacing
      /\ pc \in Emplacing
    BY <1>1 DEF Fresh, Walking, Emplacing, Unlinked
<1>4. node \notin deleted \cup ToSet(ran) \cup Fresh \cup ToSet(w) /\ next_[node] = null
    BY <1>1, <1>3, Apart DEF TailInv, WalkInv
<1>5. TailInv'
    BY <1>1, <1>2, <1>3, <1>4 DEF TailInv
<1>6. WalkInv(w)'
    BY <1>1, <1>2, <1>3, <1>4 DEF WalkInv, RunUpTo
<1>7. FrontInv(w, s)'
    BY <1>1, <1>2, <1>3 DEF FrontInv, Waits
<1>8. NodeInv(w)'
    BY <1>1 DEF NodeInv
<1> QED
    BY <1>5, <1>6, <1>7, <1>8

(* The node of emplace_front leads to the list. *)
LEMMA FrontLinkChain ==
    ASSUME ListTypeOK, ListTypeOK', TailInv, NEW w, NEW s, WalkInv(w), FrontInv(w, s), NodeInv(w),
           FrontLink
    PROVE  TailInv' /\ WalkInv(w)' /\ FrontInv(w, s)' /\ NodeInv(w)'
<1>1. /\ pc = "front_link" /\ pc' = "set_front"
      /\ next_' = [next_ EXCEPT ![node] = task_list_.front_]
      /\ UNCHANGED <<task_list_, swap_list, node, ptr, ran, deleted, submitted, signalled, caller>>
    BY DEF FrontLink, GoTo, regs, hist, sig
<1>2. /\ Fresh' = Fresh /\ (Walking' <=> Walking) /\ pc \in Unlinked /\ pc' \in Emplacing
      /\ pc \in Emplacing /\ pc' \notin Unlinked
    BY <1>1 DEF Fresh, Walking, Emplacing, Unlinked
<1>3. next_ \in [Nodes -> Pointer] /\ next_' \in [Nodes -> Pointer] /\ node \in Nodes /\ node \notin Fresh
    BY <1>1, <1>2, Apart, Distinct DEF ListTypeOK, StateOK
<1>4. node # task_list_.tail_ /\ node \notin deleted \cup ToSet(ran)
    BY <1>2 DEF TailInv
<1>5. Line(next_, swap_list.front_, w) /\ node \notin ToSet(w)
    BY <1>2 DEF WalkInv
<1>6. /\ Line(next_, task_list_.front_, s) /\ node \notin ToSet(s)
      /\ ToSet(s) \cap (deleted \cup Fresh \cup ToSet(ran) \cup ToSet(w)) = {}
    BY <1>1, <1>2 DEF FrontInv, Waits
<1>7. Line(next_', swap_list.front_, w) /\ Line(next_', task_list_.front_, s)
    BY <1>1, <1>3, <1>5, <1>6, LineOther
<1>8. next_'[node] = task_list_.front_ /\ \A x \in Nodes : x # node => next_'[x] = next_[x]
    BY <1>1, <1>3
<1>9. Line(next_', node, <<node>> \o s) /\ ToSet(<<node>> \o s) = {node} \cup ToSet(s)
    BY <1>3, <1>6, <1>7, <1>8, LinePush
<1>10. TailInv'
    <2>1. task_list_.tail_ \in Pointer
        BY FieldTypes DEF ListTypeOK, StateOK
    <2>2. task_list_.tail_ # null => next_'[task_list_.tail_] = null
        BY <1>1, <1>4, <1>8, <2>1 DEF TailInv, Pointer
    <2>3. \A x \in Fresh : next_'[x] = null
        BY <1>3, <1>8, Apart DEF TailInv
    <2> QED
        BY <1>1, <1>2, <1>4, <2>2, <2>3 DEF TailInv
<1>11. WalkInv(w)'
    BY <1>1, <1>2, <1>5, <1>7 DEF WalkInv, RunUpTo
<1>12. FrontInv(w, s)'
    BY <1>1, <1>2, <1>6, <1>7 DEF FrontInv, Waits
<1>13. Waits(next_, node, <<node>> \o s, ToSet(w))'
    BY <1>1, <1>2, <1>3, <1>4, <1>5, <1>6, <1>9 DEF Waits
<1>14. NodeInv(w)'
    BY <1>13 DEF NodeInv
<1> QED
    BY <1>10, <1>11, <1>12, <1>14

(* front_ is the node, in front of what it leads to. *)
LEMMA SetFrontChain ==
    ASSUME ListTypeOK, ListTypeOK', TailInv, NEW w, NEW s, WalkInv(w), FrontInv(w, s), NodeInv(w),
           SetFront
    PROVE  TailInv' /\ WalkInv(w)' /\ (\E u : FrontInv(w, u)') /\ NodeInv(w)'
<1>1. /\ pc = "set_front" /\ pc' = "grow"
      /\ task_list_' = [task_list_ EXCEPT !.front_ = node] /\ task_list_ \in Lists
      /\ UNCHANGED <<swap_list, next_, node, ptr, ran, deleted, submitted, signalled, caller>>
    BY DEF SetFront, GoTo, regs, hist, sig, ListTypeOK, StateOK
<1>2. task_list_'.tail_ = task_list_.tail_ /\ task_list_'.front_ = node
    BY <1>1, FieldsKept
<1>3. /\ Fresh' = Fresh /\ (Walking' <=> Walking) /\ pc' \notin Unlinked /\ pc' \in Emplacing
      /\ pc \in Emplacing
    BY <1>1 DEF Fresh, Walking, Emplacing, Unlinked
<1>4. PICK u : Waits(next_, node, u, ToSet(w))
    BY <1>1 DEF NodeInv
<1>5. TailInv'
    BY <1>1, <1>2, <1>3 DEF TailInv
<1>6. WalkInv(w)'
    BY <1>1, <1>2, <1>3 DEF WalkInv, RunUpTo
<1>7. FrontInv(w, u)'
    BY <1>1, <1>2, <1>3, <1>4 DEF FrontInv, Waits
<1>8. NodeInv(w)'
    BY <1>1 DEF NodeInv
<1> QED
    BY <1>5, <1>6, <1>7, <1>8

(* tail_ first: front_ still leads to what it did. *)
LEMMA OnlyChain ==
    ASSUME ListTypeOK, ListTypeOK', TailInv, NEW w, NEW s, WalkInv(w), FrontInv(w, s), NodeInv(w),
           Only
    PROVE  TailInv' /\ WalkInv(w)' /\ FrontInv(w, s)' /\ NodeInv(w)'
<1>1. /\ pc = "only" /\ pc' = "set_front"
      /\ task_list_' = [task_list_ EXCEPT !.tail_ = node] /\ task_list_ \in Lists
      /\ UNCHANGED <<swap_list, next_, node, ptr, ran, deleted, submitted, signalled, caller>>
    BY DEF Only, GoTo, regs, hist, sig, ListTypeOK, StateOK
<1>2. task_list_'.tail_ = node /\ task_list_'.front_ = task_list_.front_
    BY <1>1, FieldsKept
<1>3. /\ Fresh' = Fresh /\ (Walking' <=> Walking) /\ pc' \notin Unlinked /\ pc' \in Emplacing
      /\ pc \in Emplacing /\ pc \in Unlinked
    BY <1>1 DEF Fresh, Walking, Emplacing, Unlinked
<1>4. /\ node \notin deleted \cup ToSet(ran) \cup Fresh \cup ToSet(w) /\ next_[node] = null
      /\ node \in Nodes /\ node \notin ToSet(s)
    BY <1>1, <1>3, Apart, Distinct DEF TailInv, WalkInv, FrontInv
<1>5. Line(next_, node, <<node>> \o <<>>) /\ ToSet(<<node>> \o <<>>) = {node}
    <2>1. next_ \in [Nodes -> Pointer]
        BY DEF ListTypeOK, StateOK
    <2>2. Line(next_, null, <<>>) /\ node \notin ToSet(<<>>) /\ next_[node] = null
        BY <1>4, EmptyLine
    <2>3. ASSUME NEW n, NEW e, n = null, Line(next_, n, e), node \notin ToSet(e)
          PROVE  Line(next_, node, <<node>> \o e) /\ ToSet(<<node>> \o e) = {node} \cup ToSet(e)
        BY <1>4, <2>1, <2>3, LinePush
    <2> QED
        BY <2>2, <2>3, EmptyLine
<1>6. TailInv'
    BY <1>1, <1>2, <1>3, <1>4 DEF TailInv
<1>7. WalkInv(w)'
    BY <1>1, <1>2, <1>3, <1>4 DEF WalkInv, RunUpTo
<1>8. FrontInv(w, s)'
    BY <1>1, <1>2, <1>3, <1>4 DEF FrontInv, Waits
<1>9. Waits(next_, node, <<node>> \o <<>>, ToSet(w))'
    BY <1>1, <1>3, <1>4, <1>5 DEF Waits
<1>10. NodeInv(w)'
    BY <1>9 DEF NodeInv
<1> QED
    BY <1>6, <1>7, <1>8, <1>10

(* The operation returns to where it was called. *)
LEMMA GrowChain ==
    ASSUME ListTypeOK, ListTypeOK', TailInv, NEW w, NEW s, WalkInv(w), FrontInv(w, s), NodeInv(w),
           Grow
    PROVE  TailInv' /\ WalkInv(w)' /\ FrontInv(w, s)' /\ NodeInv(w)'
<1>1. /\ pc = "grow" /\ pc' = caller /\ caller \in {"idle", "task"}
      /\ task_list_' = [task_list_ EXCEPT !.size_ = task_list_.size_ + 1] /\ task_list_ \in Lists
      /\ UNCHANGED <<swap_list, next_, ptr, ran, deleted, submitted, signalled, caller>>
    BY DEF Grow, hist, sig, ListTypeOK, StateOK, Lists
<1>2. task_list_'.tail_ = task_list_.tail_ /\ task_list_'.front_ = task_list_.front_
    BY <1>1, FieldsKept
<1>3. /\ Fresh' = Fresh /\ (Walking' <=> Walking) /\ pc' \in {"idle", "task"}
      /\ pc \in Emplacing /\ pc' \notin Emplacing /\ pc' \notin Unlinked
    BY <1>1 DEF Fresh, Walking, Emplacing, Unlinked
<1>4. TailInv'
    BY <1>1, <1>2, <1>3 DEF TailInv
<1>5. WalkInv(w)'
    BY <1>1, <1>2, <1>3 DEF WalkInv, RunUpTo
<1>6. FrontInv(w, s)'
    BY <1>1, <1>2, <1>3 DEF FrontInv, Waits
<1>7. NodeInv(w)'
    BY <1>3 DEF NodeInv
<1> QED
    BY <1>4, <1>5, <1>6, <1>7

(* on_pipe_event begins. *)
LEMMA StartSwapChain ==
    ASSUME ListTypeOK, ListTypeOK', TailInv, NEW w, NEW s, WalkInv(w), FrontInv(w, s), NodeInv(w),
           StartSwap
    PROVE  TailInv' /\ WalkInv(w)' /\ FrontInv(w, s)' /\ NodeInv(w)'
<1>1. /\ pc = "idle" /\ pc' = "take_front_"
      /\ UNCHANGED <<task_list_, swap_list, next_, ptr, ran, deleted, submitted, signalled, caller>>
    BY Labelled DEF StartSwap, GoTo, lists, regs, hist, sig
<1>2. /\ Fresh' = Fresh /\ ~Walking /\ ~Walking' /\ pc' \notin Emplacing /\ pc' \notin Unlinked
    BY <1>1 DEF Fresh, Walking, Emplacing, Unlinked
<1>3. TailInv'
    BY <1>1, <1>2 DEF TailInv
<1>4. WalkInv(w)'
    BY <1>1, <1>2 DEF WalkInv, RunUpTo
<1>5. FrontInv(w, s)'
    BY <1>1, <1>2 DEF FrontInv, Waits
<1>6. NodeInv(w)'
    BY <1>1 DEF NodeInv
<1> QED
    BY <1>3, <1>4, <1>5, <1>6

(* Both lists lead to the nodes that waited. *)
LEMMA TakeFrontChain ==
    ASSUME ListTypeOK, ListTypeOK', TailInv, NEW w, NEW s, WalkInv(w), FrontInv(w, s), NodeInv(w),
           SwapTake(1)
    PROVE  TailInv' /\ WalkInv(s)' /\ FrontInv(s, s)' /\ NodeInv(s)'
<1>1. /\ pc = "take_front_" /\ pc' = "give_front_"
      /\ swap_list' = [swap_list EXCEPT !.front_ = task_list_.front_] /\ swap_list \in Lists
    BY SwapFields DEF ListTypeOK, StateOK
<1>2. UNCHANGED <<task_list_, next_, node, ptr, ran, deleted, submitted, signalled, caller>>
    BY DEF SwapTake, GoTo, hist, sig
<1>3. swap_list'.front_ = task_list_.front_ /\ swap_list'.tail_ = swap_list.tail_
    BY <1>1, FieldsKept
<1>4. /\ Fresh' = Fresh /\ ~Walking /\ ~Walking' /\ pc' \notin Emplacing /\ pc' \notin Unlinked
    BY <1>1, <1>2 DEF Fresh, Walking, Emplacing, Unlinked
<1>5. /\ Line(next_, task_list_.front_, s)
      /\ ToSet(s) \cap (deleted \cup Fresh \cup ToSet(ran)) = {}
    BY DEF FrontInv, Waits
<1>6. TailInv'
    BY <1>1, <1>2, <1>3, <1>4 DEF TailInv
<1>7. WalkInv(s)'
    <2>1. RunUpTo(s, 1)
        BY <1>5, InSet DEF RunUpTo, Line
    <2> QED
        BY <1>1, <1>2, <1>3, <1>4, <1>5, <2>1 DEF WalkInv, RunUpTo
<1>8. FrontInv(s, s)'
    BY <1>1, <1>2, <1>3, <1>4, <1>5 DEF FrontInv, Waits
<1>9. NodeInv(s)'
    BY <1>1 DEF NodeInv
<1> QED
    BY <1>6, <1>7, <1>8, <1>9

LEMMA TakeTailChain ==
    ASSUME ListTypeOK, ListTypeOK', TailInv, NEW w, NEW s, WalkInv(w), FrontInv(w, s), NodeInv(w),
           SwapTake(2)
    PROVE  TailInv' /\ WalkInv(w)' /\ FrontInv(w, s)' /\ NodeInv(w)'
<1>1. /\ pc = "take_tail_" /\ pc' = "give_tail_"
      /\ swap_list' = [swap_list EXCEPT !.tail_ = task_list_.tail_] /\ swap_list \in Lists
    BY SwapFields DEF ListTypeOK, StateOK
<1>2. UNCHANGED <<task_list_, next_, node, ptr, ran, deleted, submitted, signalled, caller>>
    BY DEF SwapTake, GoTo, hist, sig
<1>3. swap_list'.front_ = swap_list.front_ /\ swap_list'.tail_ = task_list_.tail_
    BY <1>1, FieldsKept
<1>4. /\ Fresh' = Fresh /\ ~Walking /\ ~Walking' /\ pc' \notin Emplacing /\ pc' \notin Unlinked
    BY <1>1, <1>2 DEF Fresh, Walking, Emplacing, Unlinked
<1>5. TailInv'
    BY <1>1, <1>2, <1>3, <1>4 DEF TailInv
<1>6. WalkInv(w)'
    BY <1>1, <1>2, <1>3, <1>4 DEF WalkInv, RunUpTo
<1>7. FrontInv(w, s)'
    BY <1>1, <1>2, <1>3, <1>4 DEF FrontInv, Waits
<1>8. NodeInv(w)'
    BY <1>1 DEF NodeInv
<1> QED
    BY <1>5, <1>6, <1>7, <1>8

LEMMA TakeSizeChain ==
    ASSUME ListTypeOK, ListTypeOK', TailInv, NEW w, NEW s, WalkInv(w), FrontInv(w, s), NodeInv(w),
           SwapTake(3)
    PROVE  TailInv' /\ WalkInv(w)' /\ FrontInv(w, s)' /\ NodeInv(w)'
<1>1. /\ pc = "take_size_" /\ pc' = "give_size_"
      /\ swap_list' = [swap_list EXCEPT !.size_ = task_list_.size_] /\ swap_list \in Lists
    BY SwapFields DEF ListTypeOK, StateOK
<1>2. UNCHANGED <<task_list_, next_, node, ptr, ran, deleted, submitted, signalled, caller>>
    BY DEF SwapTake, GoTo, hist, sig
<1>3. swap_list'.front_ = swap_list.front_ /\ swap_list'.tail_ = swap_list.tail_
    BY <1>1, FieldsKept
<1>4. /\ Fresh' = Fresh /\ ~Walking /\ ~Walking' /\ pc' \notin Emplacing /\ pc' \notin Unlinked
    BY <1>1, <1>2 DEF Fresh, Walking, Emplacing, Unlinked
<1>5. TailInv'
    BY <1>1, <1>2, <1>3, <1>4 DEF TailInv
<1>6. WalkInv(w)'
    BY <1>1, <1>2, <1>3, <1>4 DEF WalkInv, RunUpTo
<1>7. FrontInv(w, s)'
    BY <1>1, <1>2, <1>3, <1>4 DEF FrontInv, Waits
<1>8. NodeInv(w)'
    BY <1>1 DEF NodeInv
<1> QED
    BY <1>5, <1>6, <1>7, <1>8

(* task_list_ leads to nothing. *)
LEMMA GiveFrontChain ==
    ASSUME ListTypeOK, ListTypeOK', TailInv, NEW w, NEW s, WalkInv(w), FrontInv(w, s), NodeInv(w),
           SwapGive(1)
    PROVE  TailInv' /\ WalkInv(w)' /\ FrontInv(w, <<>>)' /\ NodeInv(w)'
<1>1. /\ pc = "give_front_" /\ pc' = "take_tail_" /\ UNCHANGED <<ptr, expected>>
      /\ task_list_' = [task_list_ EXCEPT !.front_ = tmp] /\ task_list_ \in Lists
    BY SwapFields DEF ListTypeOK, StateOK
<1>2. UNCHANGED <<swap_list, next_, node, ran, deleted, submitted, signalled, caller>>
    BY DEF SwapGive, sig
<1>3. tmp = null
    BY <1>1 DEF ListTypeOK, LocalsOK
<1>4. task_list_'.front_ = null /\ task_list_'.tail_ = task_list_.tail_
    BY <1>1, <1>3, FieldsKept
<1>5. /\ Fresh' = Fresh /\ ~Walking /\ ~Walking' /\ pc' \notin Emplacing /\ pc' \notin Unlinked
    BY <1>1, <1>2 DEF Fresh, Walking, Emplacing, Unlinked
<1>6. TailInv'
    BY <1>1, <1>2, <1>4, <1>5 DEF TailInv
<1>7. WalkInv(w)'
    BY <1>1, <1>2, <1>4, <1>5 DEF WalkInv, RunUpTo
<1>8. FrontInv(w, <<>>)'
    <2>1. Line(next_', task_list_'.front_, <<>>) /\ ToSet(<<>>) = {}
        BY <1>4, EmptyLine
    <2> QED
        BY <1>1, <1>5, <2>1 DEF FrontInv, Waits
<1>9. NodeInv(w)'
    BY <1>1 DEF NodeInv
<1> QED
    BY <1>6, <1>7, <1>8, <1>9

LEMMA GiveTailChain ==
    ASSUME ListTypeOK, ListTypeOK', TailInv, NEW w, NEW s, WalkInv(w), FrontInv(w, s), NodeInv(w),
           SwapGive(2)
    PROVE  TailInv' /\ WalkInv(w)' /\ FrontInv(w, s)' /\ NodeInv(w)'
<1>1. /\ pc = "give_tail_" /\ pc' = "take_size_" /\ UNCHANGED <<ptr, expected>>
      /\ task_list_' = [task_list_ EXCEPT !.tail_ = tmp] /\ task_list_ \in Lists
    BY SwapFields DEF ListTypeOK, StateOK
<1>2. UNCHANGED <<swap_list, next_, node, ran, deleted, submitted, signalled, caller>>
    BY DEF SwapGive, sig
<1>3. tmp = null
    BY <1>1 DEF ListTypeOK, LocalsOK
<1>4. task_list_'.front_ = task_list_.front_ /\ task_list_'.tail_ = null
    BY <1>1, <1>3, FieldsKept
<1>5. /\ Fresh' = Fresh /\ ~Walking /\ ~Walking' /\ pc' \notin Emplacing /\ pc' \notin Unlinked
    BY <1>1, <1>2 DEF Fresh, Walking, Emplacing, Unlinked
<1>6. null \notin deleted \cup Fresh \cup ToSet(w)
    BY Apart, Distinct
<1>7. TailInv'
    BY <1>1, <1>2, <1>4, <1>5, <1>6 DEF TailInv
<1>8. WalkInv(w)'
    BY <1>1, <1>2, <1>4, <1>5, <1>6 DEF WalkInv, RunUpTo
<1>9. FrontInv(w, s)'
    BY <1>1, <1>2, <1>4, <1>5 DEF FrontInv, Waits
<1>10. NodeInv(w)'
    BY <1>1 DEF NodeInv
<1> QED
    BY <1>7, <1>8, <1>9, <1>10

(* for_each begins at the front of swap_list. *)
LEMMA GiveSizeChain ==
    ASSUME ListTypeOK, ListTypeOK', TailInv, NEW w, NEW s, WalkInv(w), FrontInv(w, s), NodeInv(w),
           SwapGive(3)
    PROVE  TailInv' /\ WalkInv(w)' /\ FrontInv(w, s)' /\ NodeInv(w)'
<1>1. /\ pc = "give_size_" /\ pc' = "each" /\ ptr' = swap_list.front_
      /\ task_list_' = [task_list_ EXCEPT !.size_ = tmp] /\ task_list_ \in Lists
    BY SwapFields DEF ListTypeOK, StateOK
<1>2. UNCHANGED <<swap_list, next_, node, ran, deleted, submitted, signalled, caller>>
    BY DEF SwapGive, sig
<1>3. task_list_'.front_ = task_list_.front_ /\ task_list_'.tail_ = task_list_.tail_
    BY <1>1, FieldsKept
<1>4. /\ Fresh' = Fresh /\ ~Walking /\ Walking' /\ pc' \notin Emplacing /\ pc' \notin Unlinked
    BY <1>1, <1>2 DEF Fresh, Walking, Emplacing, Unlinked
<1>5. TailInv'
    BY <1>1, <1>2, <1>3, <1>4 DEF TailInv
<1>6. RunUpTo(w, 1)' /\ ptr' = (IF 1 = Len(w) + 1 THEN null ELSE w[1]) /\ 1 \in 1..Len(w) + 1
    <2>1. RunUpTo(w, 1) /\ swap_list.front_ = (IF Len(w) = 0 THEN null ELSE w[1]) /\ Len(w) \in Nat
        BY <1>4, Apart DEF WalkInv, Line
    <2> QED
        BY <1>1, <1>2, <2>1 DEF RunUpTo
<1>7. WalkInv(w)'
    BY <1>1, <1>2, <1>3, <1>4, <1>6 DEF WalkInv
<1>8. FrontInv(w, s)'
    BY <1>1, <1>2, <1>3, <1>4 DEF FrontInv, Waits
<1>9. NodeInv(w)'
    BY <1>1 DEF NodeInv
<1> QED
    BY <1>5, <1>7, <1>8, <1>9

(* The task of the node that for_each stands on has not run. *)
LEMMA RunTaskChain ==
    ASSUME ListTypeOK, ListTypeOK', TailInv, NEW w, NEW s, WalkInv(w), FrontInv(w, s), NodeInv(w),
           RunTask
    PROVE  TailInv' /\ WalkInv(w)' /\ FrontInv(w, s)' /\ NodeInv(w)'
<1>1. /\ pc = "each" /\ pc' = "task" /\ ptr # null /\ ran' = Append(ran, ptr)
      /\ UNCHANGED <<task_list_, swap_list, next_, node, ptr, deleted, submitted, signalled, caller>>
    BY DEF RunTask, lists, regs, sig
<1>2. /\ Fresh' = Fresh /\ Walking /\ Walking' /\ pc' \notin Emplacing /\ pc' \notin Unlinked
    BY <1>1 DEF Fresh, Walking, Emplacing, Unlinked
<1>3. Len(w) \in Nat /\ ran \in Seq(Nodes) /\ ran' \in Seq(Nodes)
    BY Apart DEF ListTypeOK, StateOK
<1>4. PICK k \in 1..Len(w) : ptr = w[k] /\ RunUpTo(w, k)
    BY <1>1, <1>3 DEF WalkInv
<1>5. ptr \in ToSet(w) /\ ptr \notin ToSet(ran) /\ ptr \in Nodes
    BY <1>3, <1>4, Apart DEF RunUpTo
<1>6. ToSet(ran') = ToSet(ran) \cup {ptr}
    BY <1>1, <1>3, <1>5, AppendSet
<1>7. \A i, j \in 1..Len(ran') : ran'[i] = ran'[j] => i = j
    <2> SUFFICES ASSUME NEW i \in 1..Len(ran'), NEW j \in 1..Len(ran'), ran'[i] = ran'[j] PROVE i = j
        OBVIOUS
    <2>1. /\ Len(ran) \in Nat /\ Len(ran') = Len(ran) + 1 /\ ran'[Len(ran) + 1] = ptr
          /\ \A l \in 1..Len(ran) : ran'[l] = ran[l] /\ ran[l] # ptr
        BY <1>1, <1>3, <1>5, InSet, AppendSet
    <2>2. CASE i = Len(ran) + 1 \/ j = Len(ran) + 1
        BY <2>1, <2>2
    <2>3. CASE i \in 1..Len(ran) /\ j \in 1..Len(ran)
        BY <2>1, <2>3 DEF TailInv
    <2> QED
        BY <2>1, <2>2, <2>3
<1>8. ptr \notin Fresh
    BY <1>5, Apart
<1>9. TailInv'
    BY <1>1, <1>2, <1>6, <1>7, <1>8 DEF TailInv
<1>10. RunUpTo(w, k + 1)'
    <2> SUFFICES ASSUME NEW j \in 1..Len(w) PROVE w[j] \in ToSet(ran') <=> j < k + 1
        BY DEF RunUpTo
    <2>1. w[j] \in ToSet(ran) <=> j < k
        BY <1>4 DEF RunUpTo
    <2>2. w[j] = w[k] <=> j = k
        BY <1>3 DEF WalkInv, Line
    <2>3. j < k + 1 <=> j < k \/ j = k
        BY <1>3
    <2> QED
        BY <1>4, <1>6, <2>1, <2>2, <2>3
<1>11. WalkInv(w)'
    BY <1>1, <1>2, <1>4, <1>10 DEF WalkInv
<1>12. FrontInv(w, s)'
    BY <1>1, <1>2, <1>5, <1>6 DEF FrontInv, Waits
<1>13. NodeInv(w)'
    BY <1>1 DEF NodeInv
<1> QED
    BY <1>9, <1>11, <1>12, <1>13

(* for_each goes to the next node of the chain. *)
LEMMA NextNodeChain ==
    ASSUME ListTypeOK, ListTypeOK', TailInv, NEW w, NEW s, WalkInv(w), FrontInv(w, s), NodeInv(w),
           NextNode
    PROVE  TailInv' /\ WalkInv(w)' /\ FrontInv(w, s)' /\ NodeInv(w)'
<1>1. /\ pc = "task" /\ pc' = "each" /\ ptr' = next_[ptr]
      /\ UNCHANGED <<task_list_, swap_list, next_, node, ran, deleted, submitted, signalled, caller>>
    BY DEF NextNode, GoTo, lists, hist, sig
<1>2. /\ Fresh' = Fresh /\ Walking /\ Walking' /\ pc' \notin Emplacing /\ pc' \notin Unlinked
    BY <1>1 DEF Fresh, Walking, Emplacing, Unlinked
<1>3. PICK k \in 1..Len(w) : ptr = w[k] /\ RunUpTo(w, k + 1)
    BY <1>1, <1>2 DEF WalkInv
<1>4. next_[w[k]] = IF k = Len(w) THEN null ELSE w[k + 1]
    BY DEF WalkInv, Line
<1>5. Len(w) \in Nat /\ k + 1 \in 1..Len(w) + 1 /\ (k + 1 = Len(w) + 1 <=> k = Len(w))
    BY Apart
<1>6. TailInv'
    BY <1>1, <1>2 DEF TailInv
<1>7. RunUpTo(w, k + 1)' /\ ptr' = IF k + 1 = Len(w) + 1 THEN null ELSE w[k + 1]
    BY <1>1, <1>3, <1>4, <1>5 DEF RunUpTo
<1>8. WalkInv(w)'
    BY <1>1, <1>2, <1>5, <1>7 DEF WalkInv
<1>9. FrontInv(w, s)'
    BY <1>1, <1>2 DEF FrontInv, Waits
<1>10. NodeInv(w)'
    BY <1>1 DEF NodeInv
<1> QED
    BY <1>6, <1>8, <1>9, <1>10

(* clear deletes what swap_list led to, and nothing that waits. *)
LEMMA ClearChain ==
    ASSUME ListTypeOK, ListTypeOK', TailInv, NEW w, NEW s, WalkInv(w), FrontInv(w, s), NodeInv(w),
           Clear
    PROVE  TailInv' /\ WalkInv(<<>>)' /\ FrontInv(<<>>, s)' /\ NodeInv(<<>>)'
<1>1. /\ pc = "each" /\ pc' = "idle" /\ swap_list' = Empty
      /\ deleted' = deleted \cup Reach(swap_list.front_)
      /\ UNCHANGED <<task_list_, next_, node, ptr, ran, submitted, signalled, caller>>
    <2>1. pc = "each" /\ pc' = "idle" /\ swap_list' = Empty
          /\ deleted' = deleted \cup Reach(swap_list.front_)
        BY DEF Clear
    <2>2. UNCHANGED <<task_list_, next_, node, ptr, ran, submitted, signalled, caller>>
        BY DEF Clear, regs, hist, sig
    <2> QED
        BY <2>1, <2>2
<1>2. /\ Fresh' = Fresh /\ ~Walking' /\ pc' \notin Emplacing /\ pc' \notin Unlinked /\ pc # "give_front_"
    BY <1>1 DEF Fresh, Walking, Emplacing, Unlinked
<1>3. Line(next_, swap_list.front_, w) /\ ToSet(w) \cap Fresh = {} /\ task_list_.tail_ \notin ToSet(w)
    BY <1>1 DEF WalkInv
<1>4. deleted' \subseteq deleted \cup ToSet(w) /\ ToSet(w) \subseteq ToSet(ran)
    <2>1. PICK k \in 1..Len(w) + 1 : ptr = (IF k = Len(w) + 1 THEN null ELSE w[k]) /\ RunUpTo(w, k)
        BY <1>1 DEF WalkInv
    <2>2. ptr = null /\ w \in Seq(Nodes) /\ Len(w) \in Nat /\ ToSet(w) \subseteq Nodes
          /\ \A i \in 1..Len(w) : w[i] \in ToSet(w)
        BY Apart DEF Clear
    <2>3. k = Len(w) + 1
        BY <2>1, <2>2, Distinct
    <2>4. \A i \in 1..Len(w) : w[i] \in ToSet(ran)
        BY <2>1, <2>2, <2>3 DEF RunUpTo
    <2> QED
        BY <1>1, <1>3, <2>2, <2>4, InSet, ReachLine
<1>5. null \notin deleted \cup ToSet(w)
    BY Apart, Distinct
<1>6. swap_list'.front_ = null /\ swap_list'.tail_ = null
    BY <1>1, EmptyFacts
<1>7. TailInv'
    BY <1>1, <1>2, <1>3, <1>4, <1>5, <1>6 DEF TailInv
<1>8. Line(next_', swap_list'.front_, <<>>) /\ ToSet(<<>>) = {} /\ Len(<<>>) = 0
    BY <1>6, EmptyLine, EmptySeq
<1>9. RunUpTo(<<>>, 1)'
    BY <1>8 DEF RunUpTo
<1>10. WalkInv(<<>>)'
    BY <1>1, <1>2, <1>8, <1>9 DEF WalkInv
<1>11. FrontInv(<<>>, s)'
    BY <1>1, <1>2, <1>4, <1>8 DEF FrontInv, Waits
<1>12. NodeInv(<<>>)'
    BY <1>1 DEF NodeInv
<1> QED
    BY <1>7, <1>10, <1>11, <1>12

(* The handler puts its task in front of whatever task_list_ leads to. *)
LEMMA SignalChain ==
    ASSUME ListTypeOK, ListTypeOK', TailInv, NEW w, NEW s, WalkInv(w), FrontInv(w, s), NodeInv(w),
           Signal
    PROVE  TailInv' /\ WalkInv(w)' /\ FrontInv(w, <<Exit>> \o s)' /\ NodeInv(w)'
<1>1. /\ ~signalled /\ signalled'
      /\ UNCHANGED <<swap_list, node, ptr, pc, ran, deleted, submitted, caller>>
    BY DEF Signal, regs
<1>2. /\ task_list_'.front_ = Exit
      /\ task_list_'.tail_ = IF task_list_.front_ = null THEN Exit ELSE task_list_.tail_
      /\ next_' = IF task_list_.front_ = null THEN next_ ELSE [next_ EXCEPT ![Exit] = task_list_.front_]
      /\ next_ \in [Nodes -> Pointer] /\ next_' \in [Nodes -> Pointer]
      /\ task_list_.front_ \in Pointer /\ task_list_.tail_ \in Pointer
    BY SwapFields, SignalFields, FieldTypes DEF ListTypeOK, StateOK
<1>3. Exit \in Fresh /\ Fresh' = Fresh \ {Exit} /\ (Walking' <=> Walking)
    BY <1>1, Distinct DEF Fresh, Walking
<1>4. /\ Exit \notin ToSet(w) \cup ToSet(s) \cup deleted \cup ToSet(ran) /\ next_[Exit] = null
      /\ Exit # task_list_.tail_ /\ (pc \in Emplacing => node # Exit)
    BY <1>3, Apart DEF TailInv
<1>5. next_'[Exit] = task_list_.front_ /\ \A x \in Nodes : x # Exit => next_'[x] = next_[x]
    BY <1>2, <1>4, Distinct
<1>6. ASSUME NEW n, NEW u, Line(next_, n, u), ToSet(u) \cap Fresh = {}
      PROVE  Line(next_', n, u)
    <2>1. \A x \in ToSet(u) : x \in Nodes /\ x # Exit
        BY <1>3, <1>6, InSet DEF Line
    <2>2. \A x \in ToSet(u) : next_'[x] = next_[x]
        BY <1>5, <2>1
    <2> QED
        BY <1>6, <2>2, LineFrame
<1>7. Line(next_', task_list_.front_, s)
    BY <1>6 DEF FrontInv, Waits
<1>8. Line(next_', Exit, <<Exit>> \o s) /\ ToSet(<<Exit>> \o s) = {Exit} \cup ToSet(s)
    <2>1. /\ Exit \in Nodes /\ Exit \notin ToSet(s)
          /\ next_' \in [Nodes -> Pointer] /\ next_'[Exit] = task_list_.front_
        BY <1>2, <1>4, <1>5, Distinct
    <2> QED
        BY <1>7, <2>1, LinePush
<1>9. TailInv'
    <2>1. \A x \in Fresh' : next_'[x] = null
        BY <1>3, <1>5, Apart DEF TailInv
    <2>2. task_list_'.tail_ # null /\ pc' # "set_tail" => next_'[task_list_'.tail_] = null
        <3>1. CASE task_list_.front_ = null
            BY <1>2, <1>4, <3>1
        <3>2. CASE task_list_.front_ # null
            BY <1>1, <1>2, <1>4, <1>5, <3>2 DEF TailInv, Pointer
        <3> QED
            BY <3>1, <3>2
    <2>3. pc \in Unlinked \cup {"set_tail"} => node \in Nodes /\ node # Exit /\ next_'[node] = null
        <3> SUFFICES ASSUME pc \in Unlinked \cup {"set_tail"}
                     PROVE  node \in Nodes /\ node # Exit /\ next_'[node] = null
            OBVIOUS
        <3>1. pc \in Emplacing
            BY DEF Emplacing
        <3>2. node \in Nodes /\ node # Exit
            BY <1>4, <3>1, Apart, Distinct
        <3> QED
            BY <1>5, <3>2 DEF TailInv
    <2>4. pc \in Unlinked => node # task_list_'.tail_
        BY <1>2, <2>3 DEF TailInv
    <2>5. task_list_'.tail_ \notin deleted \cup Fresh'
        BY <1>2, <1>3, <1>4 DEF TailInv
    <2> QED
        BY <1>1, <1>3, <2>1, <2>2, <2>3, <2>4, <2>5 DEF TailInv
<1>10. WalkInv(w)'
    <2>1. Line(next_', swap_list.front_, w)
        BY <1>6 DEF WalkInv
    <2>2. task_list_.tail_ \notin ToSet(w) => task_list_'.tail_ \notin ToSet(w)
        BY <1>2, <1>4
    <2> QED
        BY <1>1, <1>3, <2>1, <2>2 DEF WalkInv, RunUpTo
<1>11. FrontInv(w, <<Exit>> \o s)'
    <2>1. pc \in Unlinked \cup {"set_front"} => node # Exit
        BY <1>4 DEF Emplacing
    <2> QED
        BY <1>1, <1>2, <1>3, <1>4, <1>8, <2>1 DEF FrontInv, Waits
<1>12. NodeInv(w)'
    <2> SUFFICES ASSUME pc = "set_front" PROVE \E u : Waits(next_, node, u, ToSet(w))'
        BY <1>1 DEF NodeInv
    <2>1. PICK u : Waits(next_, node, u, ToSet(w))
        BY DEF NodeInv
    <2>2. Line(next_', node, u)
        BY <1>6, <2>1 DEF Waits
    <2>3. Waits(next_, node, u, ToSet(w))'
        BY <1>1, <1>3, <2>1, <2>2 DEF Waits
    <2> QED
        BY <2>3
<1> QED
    BY <1>9, <1>10, <1>11, <1>12
--------------------------------------------------------------------------------
(* What swap_list leads to changes only when it takes the front, and at its    *)
(* end.                                                                        *)
Follows(w, s, w2) == w2 = w \/ (SwapTake(1) /\ w2 = s) \/ Clear

LEMMA ChainStep ==
    ASSUME ListTypeOK, TailInv, NEW w, NEW s, Chains(w, s), [Next]_vars
    PROVE  \E w2, s2 : TailInv' /\ Chains(w2, s2)' /\ Follows(w, s, w2)
<1>1. ListTypeOK /\ ListTypeOK' /\ TailInv
    BY TypeStep
<1>2. WalkInv(w) /\ FrontInv(w, s) /\ NodeInv(w)
    BY DEF Chains
<1> SUFFICES \E w2, s2 : TailInv' /\ WalkInv(w2)' /\ FrontInv(w2, s2)' /\ NodeInv(w2)' /\ Follows(w, s, w2)
    BY DEF Chains
<1>3. CASE UNCHANGED vars
    <2>1. TailInv' /\ WalkInv(w)' /\ FrontInv(w, s)' /\ NodeInv(w)'
        BY <1>1, <1>2, <1>3
        DEF TailInv, WalkInv, FrontInv, NodeInv, Waits, RunUpTo, Fresh, Walking, vars, lists, regs, hist, sig
    <2> QED
        BY <2>1 DEF Follows
<1>4. ASSUME NEW t \in Tasks, NEW operation \in {"back", "front"}, Call(t, operation)
      PROVE  \E w2, s2 : TailInv' /\ WalkInv(w2)' /\ FrontInv(w2, s2)' /\ NodeInv(w2)' /\ Follows(w, s, w2)
    BY <1>1, <1>2, <1>4, CallChain DEF Follows
<1>5. CASE TestTail \/ TestFront
    BY <1>1, <1>2, <1>5, TestTailChain, TestFrontChain DEF Follows
<1>6. CASE BackLink
    BY <1>1, <1>2, <1>6, BackLinkChain DEF Follows
<1>7. CASE SetTail
    BY <1>1, <1>2, <1>7, SetTailChain DEF Follows
<1>8. CASE FrontLink
    BY <1>1, <1>2, <1>8, FrontLinkChain DEF Follows
<1>9. CASE SetFront
    BY <1>1, <1>2, <1>9, SetFrontChain DEF Follows
<1>10. CASE Only
    BY <1>1, <1>2, <1>10, OnlyChain DEF Follows
<1>11. CASE Grow
    BY <1>1, <1>2, <1>11, GrowChain DEF Follows
<1>12. CASE StartSwap
    BY <1>1, <1>2, <1>12, StartSwapChain DEF Follows
<1>13. CASE SwapTake(1)
    BY <1>1, <1>2, <1>13, TakeFrontChain DEF Follows
<1>14. CASE SwapTake(2)
    BY <1>1, <1>2, <1>14, TakeTailChain DEF Follows
<1>15. CASE SwapTake(3)
    BY <1>1, <1>2, <1>15, TakeSizeChain DEF Follows
<1>16. CASE SwapGive(1)
    BY <1>1, <1>2, <1>16, GiveFrontChain DEF Follows
<1>17. CASE SwapGive(2)
    BY <1>1, <1>2, <1>17, GiveTailChain DEF Follows
<1>18. CASE SwapGive(3)
    BY <1>1, <1>2, <1>18, GiveSizeChain DEF Follows
<1>19. CASE RunTask
    BY <1>1, <1>2, <1>19, RunTaskChain DEF Follows
<1>20. CASE NextNode
    BY <1>1, <1>2, <1>20, NextNodeChain DEF Follows
<1>21. CASE Clear
    BY <1>1, <1>2, <1>21, ClearChain DEF Follows
<1>22. CASE Signal
    BY <1>1, <1>2, <1>22, SignalChain DEF Follows
<1> QED
    BY <1>3, <1>4, <1>5, <1>6, <1>7, <1>8, <1>9, <1>10, <1>11, <1>12, <1>13, <1>14, <1>15, <1>16,
       <1>17, <1>18, <1>19, <1>20, <1>21, <1>22, NextCases

LEMMA ListsInit == Init => ListsInv
<1> SUFFICES ASSUME Init PROVE ListsInv
    OBVIOUS
<1>1. /\ task_list_ = Empty /\ swap_list = Empty /\ next_ = [n \in Nodes |-> null]
      /\ node = null /\ ptr = null /\ pc = "idle" /\ caller = "idle" /\ submitted = {}
      /\ ran = <<>> /\ deleted = {} /\ expected = <<>> /\ signalled = FALSE /\ interrupted = FALSE
    BY DEF Init
<1>2. /\ <<>> \in Seq(Nodes) /\ Len(<<>>) = 0 /\ ToSet(<<>>) = {}
      /\ Line(next_, null, <<>>)
    BY EmptySeq, EmptyLine
<1>3. ListTypeOK
    <2>1. StateOK
        BY <1>1, <1>2, EmptyFacts, Distinct DEF StateOK, Labels
    <2>2. LocalsOK
        BY <1>1 DEF LocalsOK, Walking, Emplacing, Unlinked, Swapping
    <2> QED
        BY <2>1, <2>2 DEF ListTypeOK
<1>4. Fresh \subseteq Nodes /\ ~Walking /\ pc \notin Emplacing /\ pc \notin Unlinked
    BY <1>1, Distinct DEF Fresh, Walking, Emplacing, Unlinked
<1>5. TailInv
    BY <1>1, <1>2, <1>4, EmptyFacts, Distinct DEF TailInv
<1>6. WalkInv(<<>>)
    BY <1>1, <1>2, <1>4, EmptyFacts DEF WalkInv, RunUpTo
<1>7. FrontInv(<<>>, <<>>)
    BY <1>1, <1>2, <1>4, EmptyFacts DEF FrontInv, Waits
<1>8. NodeInv(<<>>)
    BY <1>1 DEF NodeInv
<1>9. ChainInv
    BY <1>6, <1>7, <1>8 DEF ChainInv, Chains
<1> QED
    BY <1>3, <1>5, <1>9 DEF ListsInv

(* Wherever the handler runs, the fields of the lists, the locals of the       *)
(* operation and the chains of both lists keep the inductive invariant: a      *)
(* statement of list.h never dereferences a null pointer.                      *)
THEOREM ListsKept == Spec => []ListsInv
<1>1. ListsInv /\ [Next]_vars => ListsInv'
    <2> SUFFICES ASSUME ListsInv, [Next]_vars PROVE ListsInv'
        OBVIOUS
    <2>1. PICK w, s : Chains(w, s)
        BY DEF ListsInv, ChainInv
    <2>2. ListTypeOK' /\ TailInv' /\ \E w2, s2 : Chains(w2, s2)'
        BY <2>1, TypeStep, ChainStep DEF ListsInv
    <2> QED
        BY <2>2 DEF ListsInv, ChainInv
<1> QED
    BY <1>1, ListsInit, PTL DEF Spec

(* No list leads to a deleted node, for_each does not stand on one, and no     *)
(* task runs twice, wherever the handler interrupts an operation.              *)
THEOREM NothingDeletedReached == Spec => []NoDeletedNode
<1>1. ListsInv => NoDeletedNode
    <2> SUFFICES ASSUME ListsInv PROVE NoDeletedNode
        OBVIOUS
    <2>1. ListTypeOK /\ TailInv
        BY DEF ListsInv
    <2>2. PICK w, s : WalkInv(w) /\ FrontInv(w, s)
        BY DEF ListsInv, ChainInv, Chains
    <2>3. /\ Len(w) \in Nat /\ w \in Seq(Nodes) /\ s \in Seq(Nodes) /\ null \notin deleted
          /\ \A i \in 1..Len(w) : w[i] \in ToSet(w)
        BY <2>1, <2>2, Apart
    <2>4. ToSet(w) \cap deleted = {} /\ ToSet(s) \cap deleted = {}
        BY <2>2 DEF WalkInv, FrontInv, Waits
    <2>5. Reach(swap_list.front_) \subseteq ToSet(w) /\ Reach(task_list_.front_) \subseteq ToSet(s)
        BY <2>2, ReachLine DEF WalkInv, FrontInv, Waits
    <2>6. swap_list.front_ \in ToSet(w) \cup {null} /\ task_list_.front_ \in ToSet(s) \cup {null}
        BY <2>2, <2>3, InSet DEF WalkInv, FrontInv, Waits, Line
    <2>7. task_list_.tail_ \notin deleted /\ swap_list.tail_ \notin deleted
        BY <2>1 DEF TailInv
    <2>8. ptr \notin deleted
        <3>1. CASE ~Walking
            BY <2>1, <2>3, <3>1 DEF ListTypeOK, LocalsOK
        <3>2. CASE pc = "each"
            BY <2>2, <2>3, <2>4, <3>2 DEF WalkInv
        <3>3. CASE Walking /\ pc # "each"
            BY <2>2, <2>3, <2>4, <3>3 DEF WalkInv
        <3> QED
            BY <3>1, <3>2, <3>3
    <2>9. IsInjective(ran)
        <3>1. DOMAIN ran = 1..Len(ran)
            BY <2>1, InSet DEF ListTypeOK, StateOK
        <3> QED
            BY <2>1, <3>1 DEF TailInv, IsInjective
    <2> QED
        BY <2>3, <2>4, <2>5, <2>6, <2>7, <2>8, <2>9 DEF NoDeletedNode
<1> QED
    BY <1>1, ListsKept, PTL
--------------------------------------------------------------------------------
(* task_list_ is q. *)
Queue(q) == /\ Line(next_, task_list_.front_, q)
            /\ task_list_.tail_ = Ends(q)
            /\ task_list_.size_ = Len(q)

(* What is left of the operation on a list that was q. *)
IdleInv == pc \in {"idle", "each", "task", "take_front_"} => Queue(expected)

BackInv == pc \in {"back", "back_link"} =>
               \E q : /\ Queue(q) /\ node \notin ToSet(q) /\ expected = Append(q, node)
                      /\ pc = "back_link" => Len(q) # 0

FrontedInv == pc \in {"front", "front_link"} =>
                  \E q : /\ Queue(q) /\ node \notin ToSet(q) /\ expected = <<node>> \o q
                         /\ pc = "front_link" => Len(q) # 0

OnlyInv == pc = "only" => task_list_.size_ = 0 /\ expected = <<node>>

Linked(n) == /\ Line(next_, n, expected)
             /\ task_list_.size_ + 1 = Len(expected)

LinkedInv == /\ pc = "set_tail" => Linked(task_list_.front_) /\ node = Ends(expected)
             /\ pc = "set_front" => Linked(node) /\ task_list_.tail_ = Ends(expected)
             /\ pc = "grow" => Linked(task_list_.front_) /\ task_list_.tail_ = Ends(expected)

SwapInv == /\ pc \in {"take_tail_", "give_tail_", "take_size_", "give_size_"} => task_list_.front_ = null
           /\ pc \in {"take_size_", "give_size_"} => task_list_.tail_ = null

OperationInv == IdleInv /\ BackInv /\ FrontedInv /\ OnlyInv /\ LinkedInv /\ SwapInv

SequenceInv == /\ ToSet(expected) \cap Fresh = {}
               /\ interrupted => signalled
               /\ ~interrupted => OperationInv

(* What an operation on an uninterrupted list relies on. *)
LEMMA SequenceFacts ==
    ASSUME ListsInv, SequenceInv
    PROVE  /\ ListTypeOK /\ TailInv /\ ToSet(expected) \cap Fresh = {}
           /\ expected \in Seq(Nodes) /\ task_list_ \in Lists /\ next_ \in [Nodes -> Pointer]
           /\ swap_list \in Lists /\ caller \in {"idle", "task"} /\ task_list_.size_ \in Int
           /\ pc \in Emplacing => node \in Nodes
           /\ pc \in Unlinked => next_[node] = null /\ node # task_list_.tail_
           /\ Fresh \subseteq Nodes /\ \A x \in Fresh : next_[x] = null /\ x # task_list_.tail_
           /\ interrupted => signalled
           /\ ~interrupted => OperationInv
<1>1. /\ ListTypeOK /\ TailInv /\ ToSet(expected) \cap Fresh = {} /\ (~interrupted => OperationInv)
      /\ interrupted => signalled
    BY DEF ListsInv, SequenceInv
<1>2. /\ expected \in Seq(Nodes) /\ task_list_ \in Lists /\ next_ \in [Nodes -> Pointer]
      /\ swap_list \in Lists /\ caller \in {"idle", "task"} /\ task_list_.size_ \in Int
    BY <1>1, FieldTypes DEF ListTypeOK, StateOK
<1>3. \A x \in Fresh : next_[x] = null /\ x # task_list_.tail_
    BY <1>1 DEF TailInv
<1>4. pc \in Unlinked => next_[node] = null /\ node # task_list_.tail_
    BY <1>1 DEF TailInv
<1>5. Fresh \subseteq Nodes /\ (pc \in Emplacing => node \in Nodes)
    BY <1>1, Distinct DEF ListTypeOK, StateOK, LocalsOK, Fresh
<1> QED
    BY <1>1, <1>2, <1>3, <1>4, <1>5

LEMMA QueueEnds ==
    ASSUME NEW q, Queue(q)
    PROVE  /\ q \in Seq(Nodes) /\ Len(q) \in Nat
           /\ task_list_.tail_ = null => q = <<>> /\ Len(q) = 0
           /\ task_list_.front_ = null => q = <<>> /\ Len(q) = 0
           /\ Len(q) # 0 => task_list_.tail_ = q[Len(q)] /\ task_list_.tail_ \in ToSet(q)
<1>1. q \in Seq(Nodes) /\ Len(q) \in Nat /\ \A i \in 1..Len(q) : q[i] \in Nodes /\ q[i] \in ToSet(q)
    BY InSet DEF Queue, Line
<1>2. Len(q) # 0 => Len(q) \in 1..Len(q) /\ 1 \in 1..Len(q)
    BY <1>1
<1>3. Len(q) # 0 => task_list_.tail_ = q[Len(q)] /\ task_list_.front_ = q[1]
    BY DEF Queue, Ends, Line
<1>4. Len(q) = 0 => q = <<>>
    BY <1>1, EmptySeq
<1> QED
    BY <1>1, <1>2, <1>3, <1>4, Distinct

(* A task of the user is behind, or in front of, what waits. *)
LEMMA CallSequence ==
    ASSUME ListsInv, ListTypeOK', SequenceInv,
           NEW t \in Tasks, NEW operation \in {"back", "front"}, Call(t, operation)
    PROVE  SequenceInv'
<1>1. /\ pc \in {"idle", "task"} /\ t \in Tasks \ submitted /\ submitted' = submitted \cup {t}
      /\ node' = t /\ pc' = operation
      /\ expected' = IF operation = "back" THEN Append(expected, t) ELSE <<t>> \o expected
      /\ UNCHANGED <<task_list_, next_, signalled, interrupted>>
    BY DEF Call, lists, sig
<1>2. t \in Fresh /\ Fresh' = Fresh \ {t} /\ t \in Nodes
    BY <1>1, Distinct DEF Fresh
<1>3. expected \in Seq(Nodes) /\ ToSet(expected) \cap Fresh = {} /\ t \notin ToSet(expected)
    BY <1>2, SequenceFacts
<1>4. ToSet(expected') \subseteq ToSet(expected) \cup {t}
    <2>1. CASE operation = "back"
        BY <1>1, <1>2, <1>3, <2>1, AppendSet
    <2>2. CASE operation # "back"
        BY <1>1, <1>2, <1>3, <2>2, PushSeq
    <2> QED
        BY <2>1, <2>2
<1>5. ToSet(expected') \cap Fresh' = {}
    BY <1>2, <1>3, <1>4
<1>6. ASSUME ~interrupted PROVE OperationInv'
    <2>1. Queue(expected)
        BY <1>1, <1>6, SequenceFacts DEF OperationInv, IdleInv
    <2>2. Queue(expected)' <=> /\ Line(next_, task_list_.front_, expected')
                               /\ task_list_.tail_ = Ends(expected')
                               /\ task_list_.size_ = Len(expected')
        BY <1>1 DEF Queue
    <2>3. CASE operation = "back"
        <3>1. BackInv'
            BY <1>1, <1>3, <2>1, <2>3 DEF BackInv, Queue
        <3> QED
            BY <1>1, <2>3, <3>1 DEF OperationInv, IdleInv, FrontedInv, OnlyInv, LinkedInv, SwapInv
    <2>4. CASE operation = "front"
        <3>1. FrontedInv'
            BY <1>1, <1>3, <2>1, <2>4 DEF FrontedInv, Queue
        <3> QED
            BY <1>1, <2>4, <3>1 DEF OperationInv, IdleInv, BackInv, OnlyInv, LinkedInv, SwapInv
    <2> QED
        BY <2>3, <2>4
<1> QED
    BY <1>1, <1>5, <1>6, SequenceFacts DEF SequenceInv

LEMMA TestTailSequence ==
    ASSUME ListsInv, ListTypeOK', SequenceInv,
           TestTail
    PROVE  SequenceInv'
<1>1. /\ pc = "back" /\ pc' = IF task_list_.tail_ = null THEN "only" ELSE "back_link"
      /\ UNCHANGED <<task_list_, next_, node, expected, signalled, interrupted, submitted>>
    BY DEF TestTail, GoTo, lists, regs, hist, sig
<1>2. Fresh' = Fresh
    BY <1>1 DEF Fresh
<1>3. ASSUME ~interrupted PROVE OperationInv'
    <2>1. PICK q : Queue(q) /\ node \notin ToSet(q) /\ expected = Append(q, node)
        BY <1>1, <1>3, SequenceFacts DEF OperationInv, BackInv
    <2>2. Len(q) = 0 => q = <<>> /\ task_list_.tail_ = null /\ task_list_.size_ = 0
        BY <2>1, QueueEnds, EmptySeq DEF Queue, Ends
    <2>3. CASE task_list_.tail_ = null
        <3>1. q = <<>> /\ task_list_.size_ = 0
            BY <2>1, <2>2, <2>3, QueueEnds
        <3>2. expected = <<node>>
            BY <2>1, <3>1
        <3>3. OnlyInv'
            BY <1>1, <3>1, <3>2 DEF OnlyInv
        <3> QED
            BY <1>1, <2>3, <3>3 DEF OperationInv, IdleInv, BackInv, FrontedInv, LinkedInv, SwapInv
    <2>4. CASE task_list_.tail_ # null
        <3>1. BackInv'
            BY <1>1, <2>1, <2>2, <2>4 DEF BackInv, Queue
        <3> QED
            BY <1>1, <2>4, <3>1 DEF OperationInv, IdleInv, FrontedInv, OnlyInv, LinkedInv, SwapInv
    <2> QED
        BY <2>3, <2>4
<1> QED
    BY <1>1, <1>2, <1>3, SequenceFacts DEF SequenceInv

LEMMA TestFrontSequence ==
    ASSUME ListsInv, ListTypeOK', SequenceInv,
           TestFront
    PROVE  SequenceInv'
<1>1. /\ pc = "front" /\ pc' = IF task_list_.front_ = null THEN "only" ELSE "front_link"
      /\ UNCHANGED <<task_list_, next_, node, expected, signalled, interrupted, submitted>>
    BY DEF TestFront, GoTo, lists, regs, hist, sig
<1>2. Fresh' = Fresh
    BY <1>1 DEF Fresh
<1>3. ASSUME ~interrupted PROVE OperationInv'
    <2>1. PICK q : Queue(q) /\ node \notin ToSet(q) /\ expected = <<node>> \o q
        BY <1>1, <1>3, SequenceFacts DEF OperationInv, FrontedInv
    <2>2. Len(q) = 0 => task_list_.front_ = null /\ task_list_.size_ = 0
        BY <2>1 DEF Queue, Line
    <2>3. CASE task_list_.front_ = null
        <3>1. q = <<>> /\ task_list_.size_ = 0
            BY <2>1, <2>2, <2>3, QueueEnds
        <3>2. expected = <<node>>
            BY <1>1, <2>1, <3>1, SequenceFacts, OneNode, ConcatEmptySeq DEF Emplacing, Unlinked
        <3>3. OnlyInv'
            BY <1>1, <3>1, <3>2 DEF OnlyInv
        <3> QED
            BY <1>1, <2>3, <3>3 DEF OperationInv, IdleInv, BackInv, FrontedInv, LinkedInv, SwapInv
    <2>4. CASE task_list_.front_ # null
        <3>1. FrontedInv'
            BY <1>1, <2>1, <2>2, <2>4 DEF FrontedInv, Queue
        <3> QED
            BY <1>1, <2>4, <3>1 DEF OperationInv, IdleInv, BackInv, OnlyInv, LinkedInv, SwapInv
    <2> QED
        BY <2>3, <2>4
<1> QED
    BY <1>1, <1>2, <1>3, SequenceFacts DEF SequenceInv

(* The last node leads to the new one. *)
LEMMA BackLinkSequence ==
    ASSUME ListsInv, ListTypeOK', SequenceInv,
           BackLink
    PROVE  SequenceInv'
<1>1. /\ pc = "back_link" /\ pc' = "set_tail"
      /\ next_' = [next_ EXCEPT ![task_list_.tail_] = node]
      /\ UNCHANGED <<task_list_, node, expected, signalled, interrupted, submitted>>
    BY DEF BackLink, GoTo, regs, hist, sig
<1>2. Fresh' = Fresh
    BY <1>1 DEF Fresh
<1>3. ASSUME ~interrupted PROVE OperationInv'
    <2>1. PICK q : Queue(q) /\ node \notin ToSet(q) /\ expected = Append(q, node) /\ Len(q) # 0
        BY <1>1, <1>3, SequenceFacts DEF OperationInv, BackInv
    <2>2. /\ q \in Seq(Nodes) /\ Len(q) \in Nat /\ ToSet(q) \subseteq Nodes
          /\ task_list_.tail_ = q[Len(q)] /\ task_list_.tail_ \in ToSet(q)
        BY <2>1, QueueEnds, InSet
    <2>3. node \in Nodes /\ next_[node] = null /\ next_ \in [Nodes -> Pointer]
        BY <1>1, SequenceFacts DEF Emplacing, Unlinked
    <2>4. next_'[q[Len(q)]] = node /\ \A y \in Nodes : y # q[Len(q)] => next_'[y] = next_[y]
        BY <1>1, <2>2, <2>3
    <2>5. Line(next_, task_list_.front_, q) /\ task_list_.size_ = Len(q)
        BY <2>1 DEF Queue
    <2>6. Line(next_', task_list_.front_, Append(q, node))
        BY <2>1, <2>3, <2>4, <2>5, LineLast
    <2>7. Len(expected) = Len(q) + 1 /\ expected[Len(q) + 1] = node
        BY <2>1, <2>2, <2>3, AppendSet
    <2>8. LinkedInv'
        BY <1>1, <2>1, <2>2, <2>5, <2>6, <2>7 DEF LinkedInv, Linked, Ends
    <2> QED
        BY <1>1, <2>8 DEF OperationInv, IdleInv, BackInv, FrontedInv, OnlyInv, SwapInv
<1> QED
    BY <1>1, <1>2, <1>3, SequenceFacts DEF SequenceInv

LEMMA SetTailSequence ==
    ASSUME ListsInv, ListTypeOK', SequenceInv,
           SetTail
    PROVE  SequenceInv'
<1>1. /\ pc = "set_tail" /\ pc' = "grow"
      /\ task_list_' = [task_list_ EXCEPT !.tail_ = node]
      /\ UNCHANGED <<next_, node, expected, signalled, interrupted, submitted>>
    BY DEF SetTail, GoTo, regs, hist, sig
<1>2. Fresh' = Fresh
    BY <1>1 DEF Fresh
<1>3. ASSUME ~interrupted PROVE OperationInv'
    <2>1. Linked(task_list_.front_) /\ node = Ends(expected)
        BY <1>1, <1>3, SequenceFacts DEF OperationInv, LinkedInv
    <2>2. /\ task_list_'.front_ = task_list_.front_ /\ task_list_'.tail_ = node
          /\ task_list_'.size_ = task_list_.size_
        BY <1>1, SequenceFacts, FieldsKept
    <2>3. LinkedInv'
        BY <1>1, <2>1, <2>2 DEF LinkedInv, Linked
    <2> QED
        BY <1>1, <2>3 DEF OperationInv, IdleInv, BackInv, FrontedInv, OnlyInv, SwapInv
<1> QED
    BY <1>1, <1>2, <1>3, SequenceFacts DEF SequenceInv

(* The new node leads to the first one. *)
LEMMA FrontLinkSequence ==
    ASSUME ListsInv, ListTypeOK', SequenceInv,
           FrontLink
    PROVE  SequenceInv'
<1>1. /\ pc = "front_link" /\ pc' = "set_front"
      /\ next_' = [next_ EXCEPT ![node] = task_list_.front_]
      /\ UNCHANGED <<task_list_, node, expected, signalled, interrupted, submitted>>
    BY DEF FrontLink, GoTo, regs, hist, sig
<1>2. Fresh' = Fresh
    BY <1>1 DEF Fresh
<1>3. ASSUME ~interrupted PROVE OperationInv'
    <2>1. PICK q : Queue(q) /\ node \notin ToSet(q) /\ expected = <<node>> \o q /\ Len(q) # 0
        BY <1>1, <1>3, SequenceFacts DEF OperationInv, FrontedInv
    <2>2. node \in Nodes /\ next_ \in [Nodes -> Pointer] /\ q \in Seq(Nodes)
        BY <1>1, <2>1, SequenceFacts, QueueEnds DEF Emplacing, Unlinked
    <2>3. Line(next_, task_list_.front_, q) /\ task_list_.size_ = Len(q) /\ task_list_.tail_ = Ends(q)
        BY <2>1 DEF Queue
    <2>4. next_' \in [Nodes -> Pointer] /\ next_'[node] = task_list_.front_
        BY <1>1, <2>2 DEF ListTypeOK, StateOK
    <2>5. Line(next_', task_list_.front_, q)
        BY <1>1, <2>1, <2>2, <2>3, LineOther
    <2>6. Line(next_', node, <<node>> \o q)
        BY <2>1, <2>2, <2>4, <2>5, LinePush
    <2>7. Len(expected) = Len(q) + 1 /\ Ends(expected) = Ends(q) /\ Len(q) \in Nat
        BY <2>1, <2>2, PushSeq
    <2>8. LinkedInv'
        BY <1>1, <2>1, <2>3, <2>6, <2>7 DEF LinkedInv, Linked
    <2> QED
        BY <1>1, <2>8 DEF OperationInv, IdleInv, BackInv, FrontedInv, OnlyInv, SwapInv
<1> QED
    BY <1>1, <1>2, <1>3, SequenceFacts DEF SequenceInv

LEMMA SetFrontSequence ==
    ASSUME ListsInv, ListTypeOK', SequenceInv,
           SetFront
    PROVE  SequenceInv'
<1>1. /\ pc = "set_front" /\ pc' = "grow"
      /\ task_list_' = [task_list_ EXCEPT !.front_ = node]
      /\ UNCHANGED <<next_, node, expected, signalled, interrupted, submitted>>
    BY DEF SetFront, GoTo, regs, hist, sig
<1>2. Fresh' = Fresh
    BY <1>1 DEF Fresh
<1>3. ASSUME ~interrupted PROVE OperationInv'
    <2>1. Linked(node) /\ task_list_.tail_ = Ends(expected)
        BY <1>1, <1>3, SequenceFacts DEF OperationInv, LinkedInv
    <2>2. /\ task_list_'.front_ = node /\ task_list_'.tail_ = task_list_.tail_
          /\ task_list_'.size_ = task_list_.size_
        BY <1>1, SequenceFacts, FieldsKept
    <2>3. LinkedInv'
        BY <1>1, <2>1, <2>2 DEF LinkedInv, Linked
    <2> QED
        BY <1>1, <2>3 DEF OperationInv, IdleInv, BackInv, FrontedInv, OnlyInv, SwapInv
<1> QED
    BY <1>1, <1>2, <1>3, SequenceFacts DEF SequenceInv

LEMMA OnlySequence ==
    ASSUME ListsInv, ListTypeOK', SequenceInv,
           Only
    PROVE  SequenceInv'
<1>1. /\ pc = "only" /\ pc' = "set_front"
      /\ task_list_' = [task_list_ EXCEPT !.tail_ = node]
      /\ UNCHANGED <<next_, node, expected, signalled, interrupted, submitted>>
    BY DEF Only, GoTo, regs, hist, sig
<1>2. Fresh' = Fresh
    BY <1>1 DEF Fresh
<1>3. ASSUME ~interrupted PROVE OperationInv'
    <2>1. task_list_.size_ = 0 /\ expected = <<node>>
        BY <1>1, <1>3, SequenceFacts DEF OperationInv, OnlyInv
    <2>2. task_list_'.tail_ = node /\ task_list_'.size_ = task_list_.size_
        BY <1>1, SequenceFacts, FieldsKept
    <2>3. node \in Nodes /\ next_[node] = null
        BY <1>1, SequenceFacts DEF Emplacing, Unlinked
    <2>4. Line(next_, node, <<node>>) /\ Len(<<node>>) = 1 /\ <<node>>[1] = node
        BY <2>3, OneNode
    <2>5. LinkedInv'
        BY <1>1, <2>1, <2>2, <2>4 DEF LinkedInv, Linked, Ends
    <2> QED
        BY <1>1, <2>5 DEF OperationInv, IdleInv, BackInv, FrontedInv, OnlyInv, SwapInv
<1> QED
    BY <1>1, <1>2, <1>3, SequenceFacts DEF SequenceInv

(* The operation is done, and the list is the sequence. *)
LEMMA GrowSequence ==
    ASSUME ListsInv, ListTypeOK', SequenceInv,
           Grow
    PROVE  SequenceInv'
<1>1. /\ pc = "grow" /\ pc' = caller /\ task_list_' = [task_list_ EXCEPT !.size_ = task_list_.size_ + 1]
      /\ UNCHANGED <<next_, expected, signalled, interrupted, submitted>>
    BY SequenceFacts DEF Grow, hist, sig, Lists
<1>2. Fresh' = Fresh
    BY <1>1 DEF Fresh
<1>3. ASSUME ~interrupted PROVE OperationInv'
    <2>1. Linked(task_list_.front_) /\ task_list_.tail_ = Ends(expected)
        BY <1>1, <1>3, SequenceFacts DEF OperationInv, LinkedInv
    <2>2. /\ task_list_'.front_ = task_list_.front_ /\ task_list_'.tail_ = task_list_.tail_
          /\ task_list_'.size_ = task_list_.size_ + 1
        BY <1>1, SequenceFacts, FieldsKept
    <2>3. IdleInv'
        BY <1>1, <2>1, <2>2 DEF IdleInv, Queue, Linked
    <2>4. pc' \in {"idle", "task"}
        BY <1>1, SequenceFacts
    <2> QED
        BY <2>3, <2>4 DEF OperationInv, BackInv, FrontedInv, OnlyInv, LinkedInv, SwapInv
<1> QED
    BY <1>1, <1>2, <1>3, SequenceFacts DEF SequenceInv

(* The walk along swap_list leaves task_list_ alone. *)
LEMMA WalkSequence ==
    ASSUME ListsInv, ListTypeOK', SequenceInv,
           StartSwap \/ RunTask \/ NextNode \/ Clear
    PROVE  SequenceInv'
<1>1. /\ pc \in {"idle", "each", "task"} /\ pc' \in {"idle", "each", "task", "take_front_"}
      /\ UNCHANGED <<task_list_, next_, expected, signalled, interrupted, submitted>>
    BY Labelled DEF StartSwap, RunTask, NextNode, Clear, GoTo, lists, hist, sig, regs
<1>2. Fresh' = Fresh
    BY <1>1 DEF Fresh
<1>3. ASSUME ~interrupted PROVE OperationInv'
    <2>1. Queue(expected)
        BY <1>1, <1>3, SequenceFacts DEF OperationInv, IdleInv
    <2>2. IdleInv'
        BY <1>1, <2>1 DEF IdleInv, Queue
    <2> QED
        BY <1>1, <2>2 DEF OperationInv, BackInv, FrontedInv, OnlyInv, LinkedInv, SwapInv
<1> QED
    BY <1>1, <1>2, <1>3, SequenceFacts DEF SequenceInv

LEMMA TakeSequence ==
    ASSUME ListsInv, ListTypeOK', SequenceInv,
           SwapTake(1) \/ SwapTake(2) \/ SwapTake(3)
    PROVE  SequenceInv'
<1>1. /\ <<pc, pc'>> \in {<<"take_front_", "give_front_">>, <<"take_tail_", "give_tail_">>,
                           <<"take_size_", "give_size_">>}
      /\ UNCHANGED <<task_list_, next_, expected, signalled, interrupted, submitted>>
    <2>1. StateOK
        BY SequenceFacts DEF ListTypeOK
    <2>2. UNCHANGED <<task_list_, next_, expected, signalled, interrupted, submitted>>
        BY DEF SwapTake, GoTo, hist, sig
    <2> QED
        BY <2>1, <2>2, SwapFields
<1>2. Fresh' = Fresh
    BY <1>1 DEF Fresh
<1>3. ASSUME ~interrupted PROVE OperationInv'
    <2>1. SwapInv
        BY <1>3, SequenceFacts DEF OperationInv
    <2>2. SwapInv'
        BY <1>1, <2>1 DEF SwapInv
    <2> QED
        BY <1>1, <2>2 DEF OperationInv, IdleInv, BackInv, FrontedInv, OnlyInv, LinkedInv
<1> QED
    BY <1>1, <1>2, <1>3, SequenceFacts DEF SequenceInv

LEMMA GiveSequence ==
    ASSUME ListsInv, ListTypeOK', SequenceInv,
           SwapGive(1) \/ SwapGive(2)
    PROVE  SequenceInv'
<1>0. StateOK /\ LocalsOK
    BY SequenceFacts DEF ListTypeOK
<1>1. /\ pc \in {"give_front_", "give_tail_"} /\ tmp = null
      /\ UNCHANGED <<next_, expected, signalled, interrupted, submitted>>
    <2>1. UNCHANGED <<next_, signalled, interrupted, submitted>>
        BY DEF SwapGive, sig
    <2> QED
        BY <1>0, <2>1, SwapFields DEF LocalsOK
<1>2. Fresh' = Fresh
    BY <1>1 DEF Fresh
<1>3. ASSUME ~interrupted PROVE OperationInv'
    <2>1. SwapInv /\ tmp = null
        BY <1>0, <1>1, <1>3, SequenceFacts DEF OperationInv, LocalsOK
    <2>2. CASE SwapGive(1)
        <3>1. pc' = "take_tail_" /\ task_list_' = [task_list_ EXCEPT !.front_ = tmp]
            BY <1>0, <2>2, SwapFields
        <3>2. task_list_'.front_ = null
            BY <2>1, <3>1, SequenceFacts, FieldsKept
        <3> QED
            BY <3>1, <3>2
            DEF OperationInv, IdleInv, BackInv, FrontedInv, OnlyInv, LinkedInv, SwapInv
    <2>3. CASE SwapGive(2)
        <3>1. pc = "give_tail_" /\ pc' = "take_size_" /\ task_list_' = [task_list_ EXCEPT !.tail_ = tmp]
            BY <1>0, <2>3, SwapFields
        <3>2. task_list_'.front_ = task_list_.front_ /\ task_list_'.tail_ = null
            BY <2>1, <3>1, SequenceFacts, FieldsKept
        <3> QED
            BY <2>1, <3>1, <3>2
            DEF OperationInv, IdleInv, BackInv, FrontedInv, OnlyInv, LinkedInv, SwapInv
    <2> QED
        BY <2>2, <2>3
<1> QED
    BY <1>1, <1>2, <1>3, SequenceFacts DEF SequenceInv

(* The swap is done, and task_list_ is empty. *)
LEMMA SwappedSequence ==
    ASSUME ListsInv, ListTypeOK', SequenceInv,
           SwapGive(3)
    PROVE  SequenceInv'
<1>0. StateOK /\ LocalsOK
    BY SequenceFacts DEF ListTypeOK
<1>1. /\ pc = "give_size_" /\ pc' = "each" /\ expected' = <<>>
      /\ task_list_' = [task_list_ EXCEPT !.size_ = tmp]
      /\ UNCHANGED <<next_, signalled, interrupted, submitted>>
    <2>1. UNCHANGED <<next_, signalled, interrupted, submitted>>
        BY DEF SwapGive, sig
    <2> QED
        BY <1>0, <2>1, SwapFields
<1>2. ToSet(expected') = {}
    BY <1>1, EmptyLine
<1>3. ASSUME ~interrupted PROVE OperationInv'
    <2>1. task_list_.front_ = null /\ task_list_.tail_ = null /\ tmp = 0
        BY <1>0, <1>1, <1>3, SequenceFacts DEF OperationInv, SwapInv, LocalsOK
    <2>2. task_list_'.front_ = null /\ task_list_'.tail_ = null /\ task_list_'.size_ = 0
        BY <1>1, <2>1, SequenceFacts, FieldsKept
    <2>3. Line(next_', null, <<>>) /\ Len(<<>>) = 0
        BY EmptyLine, EmptySeq
    <2>4. IdleInv'
        BY <1>1, <2>2, <2>3 DEF IdleInv, Queue, Ends
    <2> QED
        BY <1>1, <2>4 DEF OperationInv, BackInv, FrontedInv, OnlyInv, LinkedInv, SwapInv
<1> QED
    BY <1>1, <1>2, <1>3, SequenceFacts DEF SequenceInv

(* The task of the handler is in front of what waits, unless it interrupts. *)
LEMMA SignalSequence ==
    ASSUME ListsInv, ListTypeOK', SequenceInv,
           Signal
    PROVE  SequenceInv'
<1>1. /\ ~signalled /\ signalled' /\ (interrupted' <=> pc \notin {"idle", "task", "each"})
      /\ expected' = <<Exit>> \o expected /\ UNCHANGED <<pc, submitted>>
    BY DEF Signal
<1>2. Exit \in Fresh /\ Fresh' = Fresh \ {Exit} /\ Exit \in Nodes
    BY <1>1, Distinct DEF Fresh
<1>3. expected \in Seq(Nodes) /\ ToSet(expected) \cap Fresh = {} /\ Exit \notin ToSet(expected)
    BY <1>2, SequenceFacts
<1>4. /\ ToSet(expected') = {Exit} \cup ToSet(expected) /\ Len(expected) \in Nat
      /\ Len(expected') = Len(expected) + 1
      /\ Ends(expected') = IF Len(expected) = 0 THEN Exit ELSE Ends(expected)
    BY <1>1, <1>2, <1>3, PushSeq
<1>5. ToSet(expected') \cap Fresh' = {}
    BY <1>2, <1>3, <1>4
<1>6. ASSUME ~interrupted' PROVE OperationInv'
    <2>1. pc \in {"idle", "task", "each"} /\ ~interrupted
        BY <1>1, <1>6, SequenceFacts
    <2>2. Queue(expected)
        BY <2>1, SequenceFacts DEF OperationInv, IdleInv
    <2>3. /\ task_list_'.front_ = Exit
          /\ task_list_'.tail_ = IF task_list_.front_ = null THEN Exit ELSE task_list_.tail_
          /\ task_list_'.size_ = task_list_.size_ + 1
          /\ next_' = IF task_list_.front_ = null THEN next_ ELSE [next_ EXCEPT ![Exit] = task_list_.front_]
          /\ next_ \in [Nodes -> Pointer] /\ next_' \in [Nodes -> Pointer]
        BY SequenceFacts, SignalFields DEF ListTypeOK
    <2>4. next_'[Exit] = task_list_.front_ /\ \A x \in Nodes : x # Exit => next_'[x] = next_[x]
        BY <1>2, <2>3, SequenceFacts
    <2>5. Line(next_', task_list_.front_, expected)
        <3>1. \A x \in ToSet(expected) : next_'[x] = next_[x]
            BY <1>3, <2>4, InSet
        <3> QED
            BY <2>2, <3>1, LineFrame DEF Queue
    <2>6. Line(next_', Exit, <<Exit>> \o expected)
        <3>1. next_' \in [Nodes -> Pointer] /\ next_'[Exit] = task_list_.front_
            BY <2>3, <2>4
        <3> QED
            BY <1>2, <1>3, <2>5, <3>1, LinePush
    <2>7. task_list_.front_ = null <=> Len(expected) = 0
        BY <2>2, QueueEnds DEF Queue, Line
    <2>8. task_list_'.tail_ = Ends(expected') /\ task_list_'.size_ = Len(expected')
        BY <1>4, <2>2, <2>3, <2>7 DEF Queue
    <2>9. IdleInv'
        BY <1>1, <2>3, <2>6, <2>8 DEF IdleInv, Queue
    <2> QED
        BY <1>1, <2>1, <2>9 DEF OperationInv, BackInv, FrontedInv, OnlyInv, LinkedInv, SwapInv
<1> QED
    BY <1>1, <1>5, <1>6 DEF SequenceInv

LEMMA SequenceStep == ListsInv /\ SequenceInv /\ [Next]_vars => SequenceInv'
<1> SUFFICES ASSUME ListsInv, SequenceInv, [Next]_vars PROVE SequenceInv'
    OBVIOUS
<1>1. ListTypeOK'
    BY TypeStep DEF ListsInv
<1>2. CASE UNCHANGED vars
    BY <1>2
    DEF SequenceInv, OperationInv, IdleInv, BackInv, FrontedInv, OnlyInv, LinkedInv, SwapInv, Linked, Queue,
        Fresh, vars, lists, regs, hist, sig
<1>3. ASSUME NEW t \in Tasks, NEW operation \in {"back", "front"}, Call(t, operation) PROVE SequenceInv'
    BY <1>1, <1>3, CallSequence
<1>4. CASE TestTail \/ BackLink \/ SetTail
    BY <1>1, <1>4, TestTailSequence, BackLinkSequence, SetTailSequence
<1>5. CASE TestFront \/ FrontLink \/ SetFront
    BY <1>1, <1>5, TestFrontSequence, FrontLinkSequence, SetFrontSequence
<1>6. CASE Only \/ Grow
    BY <1>1, <1>6, OnlySequence, GrowSequence
<1>7. CASE StartSwap \/ RunTask \/ NextNode \/ Clear
    BY <1>1, <1>7, WalkSequence
<1>8. CASE SwapTake(1) \/ SwapTake(2) \/ SwapTake(3)
    BY <1>1, <1>8, TakeSequence
<1>9. CASE SwapGive(1) \/ SwapGive(2)
    BY <1>1, <1>9, GiveSequence
<1>10. CASE SwapGive(3)
    BY <1>1, <1>10, SwappedSequence
<1>11. CASE Signal
    BY <1>1, <1>11, SignalSequence
<1> QED
    BY <1>2, <1>3, <1>4, <1>5, <1>6, <1>7, <1>8, <1>9, <1>10, <1>11, NextCases

LEMMA SequenceInvariant == Spec => []SequenceInv
<1>1. Init => SequenceInv
    <2> SUFFICES ASSUME Init PROVE SequenceInv
        OBVIOUS
    <2>1. /\ task_list_ = Empty /\ pc = "idle" /\ expected = <<>> /\ interrupted = FALSE
          /\ Empty.front_ = null /\ Empty.tail_ = null /\ Empty.size_ = 0
        BY EmptyFacts DEF Init
    <2>2. Line(next_, null, <<>>) /\ ToSet(<<>>) = {} /\ Len(<<>>) = 0
        BY EmptyLine, EmptySeq
    <2>3. IdleInv
        BY <2>1, <2>2 DEF IdleInv, Queue, Ends
    <2> QED
        BY <2>1, <2>2, <2>3
        DEF SequenceInv, OperationInv, BackInv, FrontedInv, OnlyInv, LinkedInv, SwapInv
<1> QED
    BY <1>1, SequenceStep, ListsKept, PTL DEF Spec

(* If the handler has interrupted no operation, what is emplaced and not yet   *)
(* swapped out is in task_list_, in order, whenever no operation runs, and     *)
(* tail_ and size_ agree with it: emplace_back, emplace_front and swap.        *)
THEOREM SequenceKept == Spec => []SequenceUnlessInterrupted
<1>1. ListsInv /\ SequenceInv => SequenceUnlessInterrupted
    <2> SUFFICES ASSUME ListsInv, SequenceInv, Between, ~interrupted
                 PROVE  /\ Leads(task_list_.front_, expected)
                        /\ task_list_.tail_ = IF expected = <<>> THEN null ELSE Last(expected)
                        /\ task_list_.size_ = Len(expected)
        BY DEF SequenceUnlessInterrupted
    <2>1. Queue(expected)
        BY SequenceFacts DEF Between, OperationInv, IdleInv
    <2>2. expected \in Seq(Nodes) /\ DOMAIN expected = 1..Len(expected) /\ (expected = <<>> <=> Len(expected) = 0)
        BY SequenceFacts, InSet, EmptySeq
    <2>3. Leads(task_list_.front_, expected)
        BY <2>1, <2>2 DEF Leads, Queue, Line
    <2>4. task_list_.tail_ = IF expected = <<>> THEN null ELSE Last(expected)
        BY <2>1, <2>2 DEF Queue, Ends, Last
    <2> QED
        BY <2>1, <2>3, <2>4 DEF Queue
<1> QED
    BY <1>1, SequenceInvariant, ListsKept, PTL

--------------------------------------------------------------------------------
(* clear deletes no task that has not run, wherever the handler interrupts.    *)
THEOREM DeletedHaveRun == Spec => [](deleted \subseteq ToSet(ran))
<1>1. ListsInv => deleted \subseteq ToSet(ran)
    BY DEF ListsInv, TailInv
<1> QED
    BY <1>1, ListsKept, PTL

(* Where the task of the handler is: it has run, swap_list leads to it, or it  *)
(* waits for the swap.                                                         *)
ExitKept(w) == signalled /\ ~interrupted =>
                   \/ Exit \in ToSet(ran) \cup ToSet(w)
                   \/ pc \notin Swapping /\ Exit \in ToSet(expected)

ShutdownInv == \E w, s : Chains(w, s) /\ ExitKept(w)

(* Most steps move no task from one of these places to another.                *)
LEMMA ExitStays ==
    ASSUME NEW w, ExitKept(w), UNCHANGED sig, ToSet(ran) \subseteq ToSet(ran'),
           pc \in Swapping \/ (pc' \notin Swapping /\ ToSet(expected) \subseteq ToSet(expected'))
    PROVE  ExitKept(w)'
    BY DEF ExitKept, sig

LEMMA CallKeepsExit ==
    ASSUME ListsInv, NEW w, ExitKept(w), NEW t \in Tasks, NEW operation \in {"back", "front"}, Call(t, operation)
    PROVE  ExitKept(w)'
<1>1. /\ pc' = operation /\ UNCHANGED <<ran, sig>>
      /\ expected' = IF operation = "back" THEN Append(expected, t) ELSE <<t>> \o expected
    BY DEF Call
<1>2. expected \in Seq(Nodes) /\ t \in Nodes
    BY Distinct DEF ListsInv, ListTypeOK, StateOK
<1>3. ToSet(expected) \subseteq ToSet(expected')
    BY <1>1, <1>2, AppendSet, PushSeq
<1>4. pc' \notin Swapping
    BY <1>1 DEF Swapping
<1> QED
    BY <1>1, <1>3, <1>4, ExitStays

(* What swap_list takes is all that waited. *)
LEMMA TakeKeepsExit ==
    ASSUME ListsInv, SequenceInv, NEW w, NEW s, Chains(w, s), ExitKept(w), SwapTake(1)
    PROVE  ExitKept(s)'
<1>1. pc = "take_front_" /\ UNCHANGED <<ran, signalled, interrupted>>
    BY SequenceFacts, SwapFields DEF ListTypeOK, SwapTake, GoTo, hist, sig
<1>2. ASSUME ~interrupted PROVE ToSet(s) = ToSet(expected)
    <2>1. Line(next_, task_list_.front_, expected)
        BY <1>1, <1>2, SequenceFacts DEF OperationInv, IdleInv, Queue
    <2>2. Line(next_, task_list_.front_, s)
        BY DEF Chains, FrontInv, Waits
    <2> QED
        BY <2>1, <2>2, LineReach
<1>3. ToSet(w) = {}
    <2>1. swap_list = Empty
        BY <1>1, SequenceFacts DEF ListTypeOK, LocalsOK, Walking, Swapping, Emplacing, Unlinked
    <2>2. Line(next_, null, w)
        BY <2>1, EmptyFacts DEF Chains, WalkInv
    <2> QED
        BY <2>2, NullLine, EmptyLine
<1> QED
    BY <1>1, <1>2, <1>3 DEF ExitKept

(* Every task that swap_list led to has run at its end. *)
LEMMA ClearKeepsExit ==
    ASSUME ListsInv, NEW w, NEW s, Chains(w, s), ExitKept(w), Clear, NEW w2
    PROVE  ExitKept(w2)'
<1>1. /\ pc = "each" /\ ptr = null /\ pc' = "idle" /\ UNCHANGED <<ran, expected, signalled, interrupted>>
    BY DEF Clear, sig
<1>2. ToSet(w) \subseteq ToSet(ran)
    <2>1. PICK k \in 1..Len(w) + 1 : ptr = (IF k = Len(w) + 1 THEN null ELSE w[k]) /\ RunUpTo(w, k)
        BY <1>1 DEF Chains, WalkInv
    <2>2. w \in Seq(Nodes) /\ Len(w) \in Nat /\ \A i \in 1..Len(w) : w[i] \in Nodes
        BY InSet DEF Chains, WalkInv, Line
    <2>3. k = Len(w) + 1
        BY <1>1, <2>1, <2>2, Distinct
    <2>4. \A i \in 1..Len(w) : w[i] \in ToSet(ran)
        BY <2>1, <2>2, <2>3 DEF RunUpTo
    <2> QED
        BY <2>2, <2>4, InSet
<1>3. pc \notin Swapping /\ pc' \notin Swapping
    BY <1>1 DEF Swapping
<1> QED
    BY <1>1, <1>2, <1>3 DEF ExitKept

(* The handler leaves its task in front of what waits. *)
LEMMA SignalKeepsExit ==
    ASSUME ListsInv, NEW w, Signal
    PROVE  ExitKept(w)'
<1>1. /\ interrupted' = (pc \notin {"idle", "task", "each"}) /\ pc' = pc
      /\ expected' = <<Exit>> \o expected
    BY DEF Signal
<1>2. expected \in Seq(Nodes)
    BY DEF ListsInv, ListTypeOK, StateOK
<1>3. Exit \in ToSet(expected')
    BY <1>1, <1>2, Distinct, PushSeq
<1> QED
    BY <1>1, <1>3 DEF ExitKept, Swapping

LEMMA ShutdownStep == ListsInv /\ SequenceInv /\ ShutdownInv /\ [Next]_vars => ShutdownInv'
<1> SUFFICES ASSUME ListsInv, SequenceInv, ShutdownInv, [Next]_vars PROVE ShutdownInv'
    OBVIOUS
<1>1. PICK w, s : Chains(w, s) /\ ExitKept(w)
    BY DEF ShutdownInv
<1>2. ListTypeOK /\ TailInv
    BY DEF ListsInv
<1>3. ListTypeOK'
    BY <1>2, TypeStep
<1>4. CASE SwapTake(1)
    <2>1. Chains(s, s)'
        BY <1>1, <1>2, <1>3, <1>4, TakeFrontChain DEF Chains
    <2>2. ExitKept(s)'
        BY <1>1, <1>4, TakeKeepsExit
    <2> QED
        BY <2>1, <2>2 DEF ShutdownInv
<1>5. CASE Clear
    <2>1. PICK w2, s2 : Chains(w2, s2)'
        BY <1>1, <1>2, ChainStep
    <2>2. ExitKept(w2)'
        BY <1>1, <1>5, ClearKeepsExit
    <2> QED
        BY <2>1, <2>2 DEF ShutdownInv
<1>6. CASE ~SwapTake(1) /\ ~Clear
    <2>1. PICK s2 : Chains(w, s2)'
        BY <1>1, <1>2, <1>6, ChainStep DEF Follows
    <2> SUFFICES ExitKept(w)'
        BY <2>1 DEF ShutdownInv
    <2>2. CASE UNCHANGED vars
        BY <1>1, <2>2 DEF ExitKept, vars, hist, sig
    <2>3. ASSUME NEW t \in Tasks, NEW operation \in {"back", "front"}, Call(t, operation)
          PROVE  ExitKept(w)'
        BY <1>1, <2>3, CallKeepsExit
    <2>4. CASE TestTail \/ BackLink \/ SetTail \/ TestFront \/ FrontLink \/ SetFront \/ Only
        <3>1. UNCHANGED <<sig, ran, expected>> /\ pc' \notin Swapping
            BY <2>4
            DEF TestTail, BackLink, SetTail, TestFront, FrontLink, SetFront, Only, GoTo, hist, Swapping
        <3> QED
            BY <1>1, <3>1, ExitStays
    <2>5. CASE Grow
        <3>1. UNCHANGED <<sig, ran, expected>> /\ pc' \notin Swapping
            BY <2>5, SequenceFacts DEF Grow, hist, Swapping
        <3> QED
            BY <1>1, <3>1, ExitStays
    <2>6. CASE StartSwap \/ NextNode
        <3>1. UNCHANGED <<sig, ran, expected>> /\ pc' \notin Swapping
            BY <2>6, Labelled DEF StartSwap, NextNode, GoTo, hist, Swapping
        <3> QED
            BY <1>1, <3>1, ExitStays
    <2>7. CASE SwapTake(2) \/ SwapTake(3) \/ SwapGive(1) \/ SwapGive(2) \/ SwapGive(3)
        <3>1. UNCHANGED <<sig, ran>>
            BY <2>7 DEF SwapTake, SwapGive, GoTo, hist
        <3>2. pc \in Swapping
            BY <1>2, <2>7, SwapFields DEF ListTypeOK, Swapping
        <3> QED
            BY <1>1, <3>1, <3>2, ExitStays
    <2>8. CASE RunTask
        <3>1. /\ UNCHANGED <<sig, expected>> /\ pc' \notin Swapping /\ ran' = Append(ran, ptr)
              /\ ran \in Seq(Nodes) /\ ptr \in Nodes
            BY <1>2, <2>8 DEF RunTask, Swapping, ListTypeOK, StateOK, Pointer
        <3>2. ToSet(ran) \subseteq ToSet(ran')
            BY <3>1, AppendSet
        <3> QED
            BY <1>1, <3>1, <3>2, ExitStays
    <2>9. CASE Signal
        BY <2>9, SignalKeepsExit
    <2> QED
        BY <1>6, <2>2, <2>3, <2>4, <2>5, <2>6, <2>7, <2>8, <2>9, NextCases
<1> QED
    BY <1>4, <1>5, <1>6

(* If the handler has interrupted no operation, the task that ends the loop    *)
(* has run or is in task_list_ once the loop is back in epoll_wait: Shutdown   *)
(* from a handler is lost only by an interruption of an operation on the list. *)
THEOREM ShutdownUnlessInterrupted == Spec => [](~interrupted => ShutdownKept)
<1>1. Init => ShutdownInv
    <2> SUFFICES ASSUME Init PROVE ShutdownInv
        OBVIOUS
    <2>1. PICK w, s : Chains(w, s)
        BY ListsInit DEF ListsInv, ChainInv
    <2>2. ExitKept(w)
        BY DEF Init, ExitKept
    <2> QED
        BY <2>1, <2>2 DEF ShutdownInv
<1>2. ListsInv /\ SequenceInv /\ ShutdownInv => (~interrupted => ShutdownKept)
    <2> SUFFICES ASSUME ListsInv, SequenceInv, ShutdownInv, ~interrupted, signalled, pc = "idle"
                 PROVE  Exit \in ToSet(ran) \cup Reach(task_list_.front_)
        BY DEF ShutdownKept
    <2>1. PICK w, s : Chains(w, s) /\ ExitKept(w)
        BY DEF ShutdownInv
    <2>2. ToSet(w) = {}
        <3>1. swap_list = Empty
            BY SequenceFacts DEF ListTypeOK, LocalsOK, Walking, Swapping, Emplacing, Unlinked
        <3>2. Line(next_, null, w)
            BY <2>1, <3>1, EmptyFacts DEF Chains, WalkInv
        <3> QED
            BY <3>2, NullLine, EmptyLine
    <2>3. Line(next_, task_list_.front_, expected)
        BY SequenceFacts DEF OperationInv, IdleInv, Queue
    <2>4. Reach(task_list_.front_) = ToSet(expected)
        BY <2>3, LineReach
    <2> QED
        BY <2>1, <2>2, <2>4 DEF ExitKept
<1> QED
    BY <1>1, <1>2, ShutdownStep, SequenceInvariant, ListsKept, PTL DEF Spec

================================================================================
