------------------------------ MODULE ThreadGroup ------------------------------
(***************************************************************************)
(* thread/group.h: threads by their ids.  The system gives the id of a thread *)
(* to another one once it has ended and nobody can join it any more.  The     *)
(* group has no lock: its owner makes one call after the other.               *)
(***************************************************************************)
EXTENDS Integers, Functions

CONSTANTS Members,  \* objects of std::thread, each created once
          Ids,      \* of threads
          NoId,     \* the default id: not a thread
          Owner     \* the id of the thread that owns the group

ASSUME GroupAssumption == NoId \notin Ids /\ Owner \notin Ids \cup {NoId}

VARIABLES threads_,    \* a function from ids to members
          thread_id_,
          id,          \* of the thread of each member, NoId until it is created
          joinable,    \* members that were neither joined nor detached
          joiner,      \* the id of the thread inside JoinAll, if any
          terminated   \* std::terminate was called

groupVars == <<threads_, thread_id_, id, joinable, joiner, terminated>>

GroupInit == /\ threads_ = <<>>
             /\ thread_id_ = NoId
             /\ id = [m \in Members |-> NoId]
             /\ joinable = {}
             /\ joiner = NoId
             /\ terminated = FALSE

get_id(m) == IF m \in joinable THEN id[m] ELSE NoId

(* Mutant: emplace leaves an entry that is there. *)
CreateThreadEmplaces(m, i) ==
    /\ id[m] = NoId
    /\ joiner = NoId
    /\ id' = [id EXCEPT ![m] = i]
    /\ joinable' = joinable \cup {m}
    /\ thread_id_' = i
    /\ threads_' = [k \in DOMAIN threads_ \cup {i} |->
                        IF k \in DOMAIN threads_ THEN threads_[k] ELSE m]
    /\ UNCHANGED <<joiner, terminated>>

(* The thread is created with an id that is not in use. *)
CreateThread(m, i) == /\ id[m] = NoId
                      /\ joiner = NoId
                      /\ id' = [id EXCEPT ![m] = i]
                      /\ joinable' = joinable \cup {m}
                      /\ thread_id_' = i
                      /\ threads_' = [k \in DOMAIN threads_ \cup {i} |->
                                          IF k = i THEN m ELSE threads_[k]]
                      /\ UNCHANGED <<joiner, terminated>>

(* Through the pointer that CreateThread returned. *)
Detach(m) == /\ m \in joinable
             /\ joiner = NoId
             /\ joinable' = joinable \ {m}
             /\ UNCHANGED <<threads_, thread_id_, id, joiner, terminated>>

(* Erasing an entry destroys the std::thread, which must not be joinable. *)
Erase(ids) == /\ threads_' = Restrict(threads_, DOMAIN threads_ \ ids)
              /\ terminated' = \E i \in ids : threads_[i] \in joinable

(* Finds only a thread that can still be joined, and then terminates.         *)
RemoveThread(m) == /\ joiner = NoId
                   /\ get_id(m) \in DOMAIN threads_
                   /\ Erase({get_id(m)})
                   /\ UNCHANGED <<thread_id_, id, joinable, joiner>>

(* Mutant: looks no further than the thread created last. *)
IsLastThread(i) == i = thread_id_

IsThreadIn(i) == i = thread_id_ \/ i \in DOMAIN threads_

(* JoinAll, called by the thread with the id i; it throws in a member.        *)
JoinAll(i) == /\ joiner = NoId
              /\ joiner' = IF IsThreadIn(i) THEN NoId ELSE i
              /\ UNCHANGED <<threads_, thread_id_, id, joinable, terminated>>

(* The thread of m has ended. *)
JoinMember(m) == /\ joiner # NoId
                 /\ m \in joinable \cap Range(threads_)
                 /\ joinable' = joinable \ {m}
                 /\ UNCHANGED <<threads_, thread_id_, id, joiner, terminated>>

JoinReturns == /\ joiner # NoId
               /\ Range(threads_) \cap joinable = {}
               /\ joiner' = NoId
               /\ Erase(DOMAIN threads_)
               /\ UNCHANGED <<thread_id_, id, joinable>>

DestroyGroup == /\ joiner = NoId
                /\ Erase(DOMAIN threads_)
                /\ UNCHANGED <<thread_id_, id, joinable, joiner>>

(* Unless the program has been terminated, every thread that can be joined is *)
(* found under its id: none is lost when an id is used again.                 *)
GroupTypeOK ==
    /\ DOMAIN threads_ \subseteq Ids /\ Range(threads_) \subseteq Members
    /\ thread_id_ \in Ids \cup {NoId}
    /\ id \in [Members -> Ids \cup {NoId}]
    /\ \A i \in DOMAIN threads_ : id[threads_[i]] = i
    /\ terminated \/ joinable \subseteq Range(threads_)
    /\ joiner \in Ids \cup {Owner, NoId}
    /\ terminated \in BOOLEAN
================================================================================
