------------------------------- MODULE LogWriter -------------------------------
(***************************************************************************)
(* AsyncLogWriter of utils/logger.cpp: threads write messages, one thread    *)
(* brings them out, and the destructor ends that thread and brings out the   *)
(* rest itself.  Sections under mux_ are one step, every other access to     *)
(* state that two threads share is a step of its own.                        *)
(***************************************************************************)
EXTENDS Semaphore, Sequences

CONSTANTS Messages,  \* each is written once
          Writer     \* the thread that executes run

ASSUME WriterAssumption == Threads = {Writer}

VARIABLES running_,
          pctxs_,
          unposted,   \* messages in pctxs_ (or gone from it) whose Post is to come
          written,    \* those for which Write was called
          pc,         \* of Writer
          tmp_pctxs,  \* the local list of flush_all, of whichever thread runs it
          channels,   \* what write_to_channels was called with, in order
          dtor        \* how far ~AsyncLogWriter has come

writeVars == <<pctxs_, unposted, written>>
flushVars == <<tmp_pctxs, channels>>

vars == <<semVars, writeVars, flushVars, running_, pc, dtor>>
--------------------------------------------------------------------------------
Init == /\ SemInit
        /\ running_ = TRUE
        /\ pctxs_ = <<>>
        /\ unposted = {}
        /\ written = {}
        /\ pc = "test"
        /\ tmp_pctxs = <<>>
        /\ channels = <<>>
        /\ dtor = "no"

(* Write, under the mutex.  The caller keeps the writer alive meanwhile.     *)
Push(m) == /\ dtor = "no"
           /\ m \notin written
           /\ written' = written \cup {m}
           /\ pctxs_' = Append(pctxs_, m)
           /\ unposted' = unposted \cup {m}
           /\ UNCHANGED <<semVars, flushVars, running_, pc, dtor>>

(* Mutant: posts for the first message only, by the size it reads unlocked. *)
PostMessageIfFirst(m) == /\ m \in unposted
                         /\ unposted' = unposted \ {m}
                         /\ IF Len(pctxs_) = 1 THEN Post(1) ELSE UNCHANGED semVars
                         /\ UNCHANGED <<pctxs_, written, flushVars, running_, pc,
                                        dtor>>

(* The rest of Write. *)
PostMessage(m) == /\ m \in unposted
                  /\ unposted' = unposted \ {m}
                  /\ Post(1)
                  /\ UNCHANGED <<pctxs_, written, flushVars, running_, pc, dtor>>
--------------------------------------------------------------------------------
(* run.                                                                      *)

TestRunning == /\ pc = "test"
               /\ pc' = IF running_ THEN "wait" ELSE "ended"
               /\ UNCHANGED <<semVars, writeVars, flushVars, running_, dtor>>

WaitReturns == /\ pc = "wait"
               /\ Wait(Writer)
               /\ pc' = "take"
               /\ UNCHANGED <<writeVars, flushVars, running_, dtor>>

WaitSleeps == /\ pc = "wait"
              /\ Sleep(Writer)
              /\ UNCHANGED <<writeVars, flushVars, running_, pc, dtor>>

WakesUp == /\ SpuriousWakeup(Writer)
           /\ UNCHANGED <<writeVars, flushVars, running_, pc, dtor>>
--------------------------------------------------------------------------------
(* flush_all, executed by Writer or by the destructor.                       *)

TakeMessages == /\ tmp_pctxs' = pctxs_
                /\ pctxs_' = <<>>
                /\ UNCHANGED <<semVars, unposted, written, channels, running_>>

WriteToChannels == /\ tmp_pctxs # <<>>
                   /\ channels' = Append(channels, Head(tmp_pctxs))
                   /\ tmp_pctxs' = Tail(tmp_pctxs)
                   /\ UNCHANGED <<semVars, writeVars, running_, pc, dtor>>

(* Mutant: takes what is there when it wakes up, then clears the list again. *)
WriterReturnsClearing == /\ pc = "flush"
                         /\ tmp_pctxs = <<>>
                         /\ pctxs_' = <<>>
                         /\ pc' = "test"
                         /\ UNCHANGED <<semVars, unposted, written, flushVars,
                                        running_, dtor>>

WriterTakes == pc = "take" /\ TakeMessages /\ pc' = "flush" /\ UNCHANGED dtor

WriterFlushes == pc = "flush" /\ WriteToChannels

WriterReturns == /\ pc = "flush"
                 /\ tmp_pctxs = <<>>
                 /\ pc' = "test"
                 /\ UNCHANGED <<semVars, writeVars, flushVars, running_, dtor>>
--------------------------------------------------------------------------------
(* ~AsyncLogWriter.                                                          *)

StopRunning == /\ dtor = "no"
               /\ unposted = {}
               /\ running_' = FALSE
               /\ dtor' = "post"
               /\ UNCHANGED <<semVars, writeVars, flushVars, pc>>

(* Mutant: relies on the flag alone. *)
PostStopForgotten == /\ dtor = "post"
                     /\ dtor' = "join"
                     /\ UNCHANGED <<semVars, writeVars, flushVars, running_, pc>>

PostStop == /\ dtor = "post"
            /\ Post(1)
            /\ dtor' = "join"
            /\ UNCHANGED <<writeVars, flushVars, running_, pc>>

Join == /\ dtor = "join"
        /\ pc = "ended"
        /\ dtor' = "take"
        /\ UNCHANGED <<semVars, writeVars, flushVars, running_, pc>>

DtorTakes == dtor = "take" /\ TakeMessages /\ dtor' = "flush" /\ UNCHANGED pc

DtorFlushes == dtor = "flush" /\ WriteToChannels

DtorReturns == /\ dtor = "flush"
               /\ tmp_pctxs = <<>>
               /\ dtor' = "gone"
               /\ UNCHANGED <<semVars, writeVars, flushVars, running_, pc>>
--------------------------------------------------------------------------------
RunSteps == \/ TestRunning
            \/ WaitReturns
            \/ WaitSleeps
            \/ WriterTakes
            \/ WriterFlushes
            \/ WriterReturns

DtorSteps == PostStop \/ Join \/ DtorTakes \/ DtorFlushes \/ DtorReturns

Next == \/ \E m \in Messages : Push(m) \/ PostMessage(m)
        \/ RunSteps
        \/ WakesUp
        \/ StopRunning
        \/ DtorSteps

Spec == Init /\ [][Next]_vars

(* Threads that can go on do; nobody has to destroy the writer, and waits    *)
(* return early only by chance.                                              *)
FairSpec == /\ Spec
            /\ \A m \in Messages : WF_vars(PostMessage(m))
            /\ WF_vars(RunSteps)
            /\ WF_vars(DtorSteps)
--------------------------------------------------------------------------------
TypeOK == /\ SemTypeOK
          /\ running_ \in BOOLEAN
          /\ pctxs_ \in Seq(Messages)
          /\ unposted \in SUBSET written
          /\ written \in SUBSET Messages
          /\ pc \in {"test", "wait", "take", "flush", "ended"}
          /\ tmp_pctxs \in Seq(Messages)
          /\ channels \in Seq(Messages)
          /\ dtor \in {"no", "post", "join", "take", "flush", "gone"}

(* While the writer's thread sleeps in Wait, no message waits for it whose   *)
(* Write has returned, and the destructor has not posted: a Post between the *)
(* test of the count and cond_.wait, or between two flushes, is never lost.  *)
NoLostWakeup ==
    Writer \in sleeping =>
        /\ \A i \in DOMAIN pctxs_ : pctxs_[i] \in unposted
        /\ dtor \in {"no", "post"}

(* The destructor returns: run sees running_ cleared and ends, wherever the  *)
(* destructor found it between its test of the flag and its wait.            *)
DestructorReturns == dtor = "post" ~> dtor = "gone"

(* Every message comes out once, in the order of the writes, the last ones   *)
(* by the destructor's flush_all (LogWriter of utils/logger.h).              *)
Stream == INSTANCE LogStream
          WITH pending <- tmp_pctxs \o pctxs_, out <- channels, gone <- dtor = "gone"

ImplementsLogStream == Stream!FairSpec
================================================================================
