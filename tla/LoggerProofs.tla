----------------------------- MODULE LoggerProofs ------------------------------
(***************************************************************************)
(* AsyncLogWriter for any set of messages: types, no lost wakeup, and every   *)
(* message out once and in order (LogStream's safety part); then Logger,      *)
(* which uses its AsyncLogWriter as the specification of that component       *)
(* allows, so that what is proved of the component holds within Logger, and   *)
(* what its channels show.                                                    *)
(***************************************************************************)
EXTENDS Logger, SequenceTheorems, TLAPS

LEMMA SemNext ==
    ASSUME SemTypeOK,
           \/ Post(1)
           \/ \E t \in Threads : Wait(t) \/ Sleep(t) \/ SpuriousWakeup(t)
           \/ UNCHANGED semVars
    PROVE  SemTypeOK'
<1>1. CASE Post(1)
  BY <1>1 DEF SemTypeOK, Post, Wake
<1>2. ASSUME NEW t \in Threads, Wait(t) \/ Sleep(t) \/ SpuriousWakeup(t)
      PROVE  SemTypeOK'
  BY <1>2 DEF SemTypeOK, Wait, Sleep, SpuriousWakeup, Wake
<1>3. CASE UNCHANGED semVars
  BY <1>3 DEF SemTypeOK, semVars
<1> QED
  BY <1>1, <1>2, <1>3

LEMMA TypeNext == TypeOK /\ [Next]_vars => TypeOK'
<1> SUFFICES ASSUME TypeOK, [Next]_vars
             PROVE  TypeOK'
  OBVIOUS
<1> USE DEF TypeOK, writeVars, flushVars
<1>a. Writer \in Threads
  BY WriterAssumption
<1>b. <<>> \in Seq(Messages)
  BY EmptySeq
<1>1. ASSUME NEW m \in Messages, Push(m) PROVE TypeOK'
  BY <1>1, SemNext, AppendProperties DEF Push
<1>2. ASSUME NEW m \in Messages, PostMessage(m) PROVE TypeOK'
  BY <1>2, SemNext DEF PostMessage
<1>3. CASE TestRunning
  BY <1>3, SemNext DEF TestRunning
<1>4. CASE WaitReturns
  BY <1>4, <1>a, SemNext DEF WaitReturns
<1>5. CASE WaitSleeps
  BY <1>5, <1>a, SemNext DEF WaitSleeps
<1>6. CASE WakesUp
  BY <1>6, <1>a, SemNext DEF WakesUp
<1>7. CASE WriterTakes
  BY <1>7, <1>b, SemNext DEF WriterTakes, TakeMessages
<1>8. CASE WriterFlushes \/ DtorFlushes
  <2>1. WriteToChannels
    BY <1>8 DEF WriterFlushes, DtorFlushes
  <2>2. Head(tmp_pctxs) \in Messages /\ Tail(tmp_pctxs) \in Seq(Messages)
    BY <2>1, HeadTailProperties DEF WriteToChannels
  <2>3. channels' \in Seq(Messages) /\ tmp_pctxs' \in Seq(Messages)
    BY <2>1, <2>2, AppendProperties DEF WriteToChannels
  <2> QED
    BY <2>1, <2>3, SemNext DEF WriteToChannels
<1>9. CASE WriterReturns
  BY <1>9, SemNext DEF WriterReturns
<1>10. CASE StopRunning
  BY <1>10, SemNext DEF StopRunning
<1>11. CASE PostStop
  BY <1>11, SemNext DEF PostStop
<1>12. CASE Join
  BY <1>12, SemNext DEF Join
<1>13. CASE DtorTakes
  BY <1>13, <1>b, SemNext DEF DtorTakes, TakeMessages
<1>14. CASE DtorReturns
  BY <1>14, SemNext DEF DtorReturns
<1>15. CASE UNCHANGED vars
  BY <1>15, SemNext DEF vars
<1> QED
  BY <1>1, <1>2, <1>3, <1>4, <1>5, <1>6, <1>7, <1>8, <1>9, <1>10, <1>11, <1>12,
     <1>13, <1>14, <1>15 DEF Next, RunSteps, DtorSteps

LEMMA TypeInit == Init => TypeOK
  BY EmptySeq DEF Init, SemInit, TypeOK, SemTypeOK

(* Every variable of AsyncLogWriter keeps its type, and the count stays a     *)
(* natural number although Wait decrements it.                                *)
THEOREM TypeCorrect == Spec => []TypeOK
  BY TypeInit, TypeNext, PTL DEF Spec
--------------------------------------------------------------------------------
(* Without a permit, only messages whose Post is to come are in the list,     *)
(* unless the writer is about to take them all.                               *)
PermitPending == count_ = 0 /\ pc # "take" =>
                     \A i \in DOMAIN pctxs_ : pctxs_[i] \in unposted

(* Once posted to, a writer that did not see running_ cleared has a permit.   *)
StopPending == /\ dtor # "no" => running_ = FALSE
               /\ dtor \notin {"no", "post"} /\ pc = "wait" => count_ > 0

SleepsInWait == Writer \in sleeping => count_ = 0 /\ pc = "wait"

WakeupInv == TypeOK /\ PermitPending /\ StopPending /\ SleepsInWait

LEMMA PostEffect ==
    ASSUME TypeOK, Post(1)
    PROVE  count_' > 0 /\ Writer \notin sleeping'
<1>1. count_' > 0
  BY DEF TypeOK, SemTypeOK, Post
<1>2. Writer \notin sleeping'
  BY WriterAssumption DEF TypeOK, SemTypeOK, Post, Wake
<1> QED
  BY <1>1, <1>2

LEMMA WakeupNext == WakeupInv /\ [Next]_vars => WakeupInv'
<1> SUFFICES ASSUME WakeupInv, [Next]_vars
             PROVE  WakeupInv'
  OBVIOUS
<1>0. TypeOK /\ TypeOK'
  BY TypeNext DEF WakeupInv
<1> SUFFICES PermitPending' /\ StopPending' /\ SleepsInWait'
  BY <1>0 DEF WakeupInv
<1> USE DEF WakeupInv, PermitPending, StopPending, SleepsInWait, semVars,
            writeVars, flushVars
<1>1. ASSUME NEW m \in Messages, Push(m)
       PROVE  PermitPending' /\ StopPending' /\ SleepsInWait'
  <2>1. ASSUME count_ = 0, pc # "take", NEW i \in DOMAIN pctxs_'
        PROVE  pctxs_'[i] \in unposted'
    <3>1. pctxs_' = Append(pctxs_, m) /\ pctxs_ \in Seq(Messages)
      BY <1>0, <1>1 DEF Push, TypeOK
    <3>2. i \in 1..Len(pctxs_) + 1 /\ Len(pctxs_) \in Nat
      BY <3>1, <2>1, AppendProperties, LenProperties
    <3>3. CASE i = Len(pctxs_) + 1
      BY <3>1, <3>3, <1>1, AppendProperties DEF Push
    <3>4. CASE i \in 1..Len(pctxs_)
      BY <3>1, <3>4, <2>1, <1>1, AppendProperties, LenProperties DEF Push
    <3> QED
      BY <3>2, <3>3, <3>4
  <2> QED
    BY <1>1, <2>1 DEF Push
<1>2. ASSUME NEW m \in Messages, PostMessage(m)
       PROVE  PermitPending' /\ StopPending' /\ SleepsInWait'
  BY <1>0, <1>2, PostEffect DEF PostMessage
<1>3. CASE TestRunning
  BY <1>0, <1>3 DEF TestRunning, TypeOK
<1>4. CASE WaitReturns
  BY <1>0, <1>4 DEF WaitReturns, Wait
<1>5. CASE WaitSleeps
  BY <1>0, <1>5 DEF WaitSleeps, Sleep
<1>6. CASE WakesUp
  BY <1>0, <1>6 DEF WakesUp, SpuriousWakeup, Wake
<1>7. CASE WriterTakes
  BY <1>0, <1>7, EmptySeq, LenProperties DEF WriterTakes, TakeMessages
<1>8. CASE WriterFlushes \/ DtorFlushes
  BY <1>8 DEF WriterFlushes, DtorFlushes, WriteToChannels
<1>9. CASE WriterReturns
  BY <1>0, <1>9 DEF WriterReturns
<1>10. CASE StopRunning
  BY <1>10 DEF StopRunning
<1>11. CASE PostStop
  BY <1>0, <1>11, PostEffect DEF PostStop
<1>12. CASE Join
  BY <1>12 DEF Join
<1>13. CASE DtorTakes
  BY <1>13, EmptySeq, LenProperties DEF DtorTakes, TakeMessages
<1>14. CASE DtorReturns
  BY <1>14 DEF DtorReturns
<1>15. CASE UNCHANGED vars
  BY <1>15 DEF vars
<1> QED
  BY <1>1, <1>2, <1>3, <1>4, <1>5, <1>6, <1>7, <1>8, <1>9, <1>10, <1>11, <1>12,
     <1>13, <1>14, <1>15 DEF Next, RunSteps, DtorSteps

(* The writer never sleeps over a message whose Write has returned, nor over  *)
(* the destructor: Semaphore's Post and Wait lose no wakeup.                  *)
THEOREM WakeupCorrect == Spec => []NoLostWakeup
<1>1. Init => WakeupInv
  BY TypeInit, EmptySeq
     DEF Init, SemInit, WakeupInv, PermitPending, StopPending, SleepsInWait
<1>2. WakeupInv => NoLostWakeup
  BY DEF WakeupInv, PermitPending, StopPending, SleepsInWait, NoLostWakeup, TypeOK
<1> QED
  BY <1>1, <1>2, WakeupNext, PTL DEF Spec
--------------------------------------------------------------------------------
(* Only one thread flushes, and nothing is written once the destructor does.  *)
FlushInv ==
    /\ TypeOK
    /\ tmp_pctxs # <<>> => pc = "flush" \/ dtor = "flush"
    /\ dtor \in {"take", "flush", "gone"} => pc = "ended"
    /\ dtor \in {"flush", "gone"} => pctxs_ = <<>>

LEMMA FlushNext == FlushInv /\ [Next]_vars => FlushInv'
<1> SUFFICES ASSUME FlushInv, [Next]_vars
             PROVE  FlushInv'
  OBVIOUS
<1>0. TypeOK'
  BY TypeNext DEF FlushInv
<1> USE <1>0 DEF FlushInv, semVars, writeVars, flushVars
<1>1. CASE RunSteps
  BY <1>1 DEF RunSteps, TestRunning, WaitReturns, WaitSleeps, WriterTakes, TakeMessages,
              WriterFlushes, WriteToChannels, WriterReturns
<1>2. CASE DtorSteps
  BY <1>2 DEF DtorSteps, PostStop, Join, DtorTakes, TakeMessages, DtorFlushes,
              WriteToChannels, DtorReturns
<1>3. CASE Next /\ ~RunSteps /\ ~DtorSteps
  BY <1>3 DEF Next, Push, PostMessage, WakesUp, StopRunning
<1>4. CASE UNCHANGED vars
  BY <1>4 DEF vars
<1> QED
  BY <1>1, <1>2, <1>3, <1>4

Pending == tmp_pctxs \o pctxs_

LEMMA PushAppends ==
    ASSUME TypeOK, NEW m \in Messages, Push(m)
    PROVE  Pending' = Append(Pending, m)
<1>1. <<m>> \in Seq(Messages)
  OBVIOUS
<1>2. Pending' = tmp_pctxs \o (pctxs_ \o <<m>>)
  BY AppendIsConcat DEF Pending, Push, flushVars, TypeOK
<1>3. @ = (tmp_pctxs \o pctxs_) \o <<m>>
  BY <1>1, ConcatAssociative DEF TypeOK
<1>4. @ = Append(Pending, m)
  BY ConcatProperties, AppendIsConcat DEF Pending, TypeOK
<1> QED
  BY <1>2, <1>3, <1>4

LEMMA TakeHidden ==
    ASSUME FlushInv, TakeMessages, pc # "flush", dtor # "flush"
    PROVE  Pending' = Pending
<1>1. tmp_pctxs = <<>>
  BY DEF FlushInv
<1>2. Pending = pctxs_ /\ Pending' = pctxs_
  BY <1>1, ConcatEmptySeq DEF Pending, FlushInv, TypeOK, TakeMessages
<1> QED
  BY <1>2

LEMMA FlushEmitsHead ==
    ASSUME TypeOK, WriteToChannels
    PROVE  /\ Pending # <<>>
           /\ channels' = Append(channels, Head(Pending))
           /\ Pending' = Tail(Pending)
<1> DEFINE x == Head(tmp_pctxs)
           s == Tail(tmp_pctxs)
<1>1. x \in Messages /\ s \in Seq(Messages) /\ tmp_pctxs = <<x>> \o s
  BY HeadTailProperties, SeqEqual, ConcatProperties DEF TypeOK, WriteToChannels
<1>2. s \o pctxs_ \in Seq(Messages)
  BY <1>1, ConcatProperties DEF TypeOK
<1>3. Pending = <<x>> \o (s \o pctxs_)
  <2>1. <<x>> \in Seq(Messages)
    BY <1>1
  <2> QED
    BY <1>1, <2>1, ConcatAssociative DEF Pending, TypeOK
<1>4. /\ Pending # <<>>
      /\ Head(Pending) = x
      /\ Tail(Pending) = s \o pctxs_
  BY <1>1, <1>2, <1>3
<1> QED
  BY <1>4 DEF Pending, WriteToChannels, writeVars

LEMMA StepRefines == FlushInv /\ [Next]_vars => [Stream!Next]_Stream!vars
<1> SUFFICES ASSUME FlushInv, [Next]_vars
             PROVE  Stream!Next \/ UNCHANGED <<Pending, channels, dtor = "gone">>
  BY DEF Stream!vars, Pending
<1>0. TypeOK
  BY DEF FlushInv
<1>1. ASSUME NEW m \in Messages, Push(m) PROVE Stream!Next
  <2>1. Pending' = Append(Pending, m)
    BY <1>0, <1>1, PushAppends
  <2>2. Stream!Write
    BY <1>1, <2>1 DEF Push, flushVars, Stream!Write, Pending
  <2> QED
    BY <2>2 DEF Stream!Next
<1>2. CASE WriterTakes \/ DtorTakes
  <2>1. Pending' = Pending
    BY <1>2, TakeHidden DEF WriterTakes, DtorTakes, FlushInv
  <2> QED
    BY <1>2, <2>1 DEF WriterTakes, DtorTakes, TakeMessages
<1>3. CASE WriterFlushes \/ DtorFlushes
  <2>1. WriteToChannels
    BY <1>3 DEF WriterFlushes, DtorFlushes
  <2>2. Stream!Emit
    BY <1>0, <2>1, FlushEmitsHead DEF WriteToChannels, Stream!Emit, Pending
  <2> QED
    BY <2>2 DEF Stream!Next
<1>4. CASE DtorReturns
  <2>1. Pending = <<>>
    BY <1>4, ConcatEmptySeq, EmptySeq DEF DtorReturns, FlushInv, Pending
  <2>2. Stream!Close
    BY <1>4, <2>1 DEF DtorReturns, writeVars, flushVars, Stream!Close, Pending
  <2> QED
    BY <2>2 DEF Stream!Next
<1>5. CASE \/ \E m \in Messages : PostMessage(m)
           \/ TestRunning \/ WaitReturns \/ WaitSleeps \/ WakesUp \/ WriterReturns
           \/ StopRunning \/ PostStop \/ Join \/ UNCHANGED vars
  BY <1>5 DEF PostMessage, TestRunning, WaitReturns, WaitSleeps, WakesUp, WriterReturns,
              StopRunning, PostStop, Join, vars, writeVars, flushVars, Pending
<1> QED
  BY <1>1, <1>2, <1>3, <1>4, <1>5 DEF Next, RunSteps, DtorSteps

(* Every message comes out once and in the order of the writes, and the       *)
(* writer is gone only when all are out: run and the destructor share         *)
(* flush_all without losing, repeating or overtaking a message.               *)
THEOREM RefinesLogStream == Spec => Stream!Spec
<1>1. Init => Stream!Init
  BY ConcatEmptySeq, EmptySeq DEF Init, Stream!Init
<1>2. Init => FlushInv
  BY TypeInit DEF Init, FlushInv
<1> QED
  BY <1>1, <1>2, FlushNext, StepRefines, PTL DEF Spec, Stream!Spec
--------------------------------------------------------------------------------
(* The Logger around it. *)

LEMMA StepOfWriter == LoggerNext => [Next]_vars
<1>1. ASSUME NEW c \in Channels, NEW level \in Levels,
             AddChannel(c, level) \/ SetLevel(c, level)
      PROVE  UNCHANGED vars
  BY <1>1 DEF AddChannel, SetLevel
<1>2. ASSUME NEW c \in Channels, RemoveChannel(c)
      PROVE  UNCHANGED vars
  BY <1>2 DEF RemoveChannel
<1>3. CASE SetWriter
  BY <1>3 DEF SetWriter
<1>4. ASSUME NEW m \in Messages, Capture(m) \/ Endl(m) \/ Clear(m) \/ LogPosts(m)
      PROVE  UNCHANGED vars \/ Push(m) \/ PostMessage(m)
  BY <1>4 DEF Capture, Write, Endl, Clear, LogPosts
<1>5. Run \/ Destroy \/ DestroyWriter => RunSteps \/ StopRunning \/ DtorSteps
  BY DEF Run, Destroy, DestroyWriter
<1> QED
  BY <1>1, <1>2, <1>3, <1>4, <1>5 DEF LoggerNext, Next

(* Whatever statements, channels, levels and the end of the Logger do, the     *)
(* writer sees only what LogWriter describes: no Write once its destructor has *)
(* begun, none twice.                                                          *)
THEOREM UsesLogWriter == LoggerSpec => Spec
<1>1. LoggerInit => Init
  BY DEF LoggerInit
<1>2. [LoggerNext]_loggerVars => [Next]_vars
  BY StepOfWriter DEF loggerVars
<1> QED
  BY <1>1, <1>2, PTL DEF LoggerSpec, Spec

(* In the Logger too, the writer's thread never sleeps over a message whose    *)
(* Write has returned, nor over the destructor.                                *)
THEOREM LoggerWakeup == LoggerSpec => []NoLostWakeup
  BY UsesLogWriter, WakeupCorrect, PTL

(* Every message the Logger's writer accepts comes out once and in order, and  *)
(* none is left when it is gone.                                               *)
THEOREM LoggerRefinesLogStream == LoggerSpec => Stream!Spec
  BY UsesLogWriter, RefinesLogStream, PTL
--------------------------------------------------------------------------------
(* What its channels show.                                                     *)

LEMMA WritesOne ==
    Run \/ DestroyWriter =>
        \/ channels' = channels /\ output' = [c \in Channels |-> output[c]]
        \/ /\ WriteToChannels
           /\ channels' # channels
           /\ output' = [c \in Channels |->
                             IF c \in DOMAIN channels_ /\ Takes(c, Head(tmp_pctxs))
                             THEN Append(output[c], Head(tmp_pctxs)) ELSE output[c]]
<1> SUFFICES ASSUME Run \/ DestroyWriter
             PROVE  \/ channels' = channels /\ output' = [c \in Channels |-> output[c]]
                    \/ /\ WriteToChannels
                       /\ channels' # channels
                       /\ output' = [c \in Channels |->
                             IF c \in DOMAIN channels_ /\ Takes(c, Head(tmp_pctxs))
                             THEN Append(output[c], Head(tmp_pctxs)) ELSE output[c]]
  OBVIOUS
<1>1. WriteToChannels \/ channels' = channels
  BY DEF Run, DestroyWriter, RunSteps, DtorSteps, TestRunning, WaitReturns, WaitSleeps,
         WriterTakes, WriterFlushes, WriterReturns, PostStop, Join, DtorTakes, DtorFlushes,
         DtorReturns, TakeMessages, flushVars
<1>2. WriteChannels
  BY DEF Run, DestroyWriter
<1>3. CASE channels' = channels
  BY <1>2, <1>3 DEF WriteChannels
<1>4. CASE channels' # channels
  BY <1>1, <1>2, <1>4 DEF WriteChannels, Format
<1> QED
  BY <1>3, <1>4

(* The other steps bring nothing out. *)
LEMMA Silent ==
    ASSUME LoggerNext, ~Run, ~DestroyWriter
    PROVE  channels' = channels /\ output' = output
<1>1. ASSUME NEW c \in Channels, NEW level \in Levels,
             RemoveChannel(c) \/ AddChannel(c, level) \/ SetLevel(c, level)
      PROVE  channels' = channels /\ output' = output
  BY <1>1 DEF RemoveChannel, AddChannel, SetLevel, vars, flushVars
<1>2. ASSUME NEW c \in Channels, RemoveChannel(c)
      PROVE  channels' = channels /\ output' = output
  BY <1>2 DEF RemoveChannel, vars, flushVars
<1>3. ASSUME NEW m \in Messages, Capture(m) \/ Endl(m) \/ Clear(m) \/ LogPosts(m)
      PROVE  channels' = channels /\ output' = output
  BY <1>3 DEF Capture, Endl, Write, Push, Clear, LogPosts, PostMessage, vars, flushVars
<1>4. SetWriter \/ (WakesUp /\ UNCHANGED <<tables, pctx_, output>>) \/ Destroy
         => channels' = channels /\ output' = output
  BY DEF SetWriter, WakesUp, Destroy, StopRunning, vars, flushVars
<1> QED
  BY <1>1, <1>2, <1>3, <1>4 DEF LoggerNext

LEMMA LoggerTypeNext == LoggerTypeOK /\ [LoggerNext]_loggerVars => LoggerTypeOK'
<1> SUFFICES ASSUME LoggerTypeOK, [LoggerNext]_loggerVars PROVE LoggerTypeOK'
  OBVIOUS
<1>0. TypeOK /\ TypeOK'
  <2>1. [Next]_vars
    BY StepOfWriter DEF loggerVars
  <2> QED
    BY <2>1, TypeNext DEF LoggerTypeOK
<1>1. ASSUME NEW c \in Channels, NEW level \in Levels, AddChannel(c, level)
      PROVE  LoggerTypeOK'
  <2>1. /\ DOMAIN channels_' = DOMAIN channels_ \cup {c}
        /\ \A n \in DOMAIN channels_' :
              channels_'[n] = IF n = c THEN level ELSE channels_[n]
        /\ had' = [had EXCEPT ![c] = {level}]
        /\ UNCHANGED <<writer_, pctx_, output>>
    BY <1>1 DEF AddChannel
  <2>2. had' \in [Channels -> SUBSET Levels]
    BY <2>1 DEF LoggerTypeOK
  <2>3. \A n \in DOMAIN channels_' : channels_'[n] \in had'[n]
    BY <2>1 DEF LoggerTypeOK
  <2> QED
    BY <1>0, <2>1, <2>2, <2>3 DEF LoggerTypeOK
<1>2. ASSUME NEW c \in Channels, RemoveChannel(c)
      PROVE  LoggerTypeOK'
  <2>1. /\ DOMAIN channels_' = DOMAIN channels_ \ {c}
        /\ \A n \in DOMAIN channels_' : channels_'[n] = channels_[n]
        /\ had' = [had EXCEPT ![c] = {}]
        /\ UNCHANGED <<writer_, pctx_, output>>
    BY <1>2 DEF RemoveChannel, Restrict
  <2>2. had' \in [Channels -> SUBSET Levels]
    BY <2>1 DEF LoggerTypeOK
  <2>3. \A n \in DOMAIN channels_' : channels_'[n] \in had'[n]
    BY <2>1 DEF LoggerTypeOK
  <2> QED
    BY <1>0, <2>1, <2>2, <2>3 DEF LoggerTypeOK
<1>3. ASSUME NEW c \in Channels, NEW level \in Levels, SetLevel(c, level)
      PROVE  LoggerTypeOK'
  <2>1. /\ DOMAIN channels_' = DOMAIN channels_
        /\ \A n \in DOMAIN channels_' :
              channels_'[n] = IF n = c THEN level ELSE channels_[n]
        /\ had' = [had EXCEPT ![c] = @ \cup {level}]
        /\ UNCHANGED <<writer_, pctx_, output>>
    BY <1>3 DEF SetLevel
  <2>2. had' \in [Channels -> SUBSET Levels]
    BY <2>1 DEF LoggerTypeOK
  <2>3. \A n \in DOMAIN channels_' : channels_'[n] \in had'[n]
    BY <2>1 DEF LoggerTypeOK
  <2> QED
    BY <1>0, <2>1, <2>2, <2>3 DEF LoggerTypeOK
<1>4. CASE SetWriter
  BY <1>0, <1>4 DEF SetWriter, LoggerTypeOK
<1>5. ASSUME NEW m \in Messages, Capture(m) \/ Endl(m) \/ Clear(m) \/ LogPosts(m)
      PROVE  LoggerTypeOK'
  <2>1. pctx_' \in [Messages -> {"none", "held", "reset"}]
    BY <1>5 DEF Capture, Endl, Clear, LogPosts, LoggerTypeOK
  <2>2. UNCHANGED <<tables, output>>
    BY <1>5 DEF Capture, Endl, Clear, LogPosts
  <2> QED
    BY <1>0, <2>1, <2>2 DEF LoggerTypeOK, tables
<1>6. CASE (WakesUp /\ UNCHANGED <<tables, pctx_, output>>) \/ Destroy
  BY <1>0, <1>6 DEF Destroy, LoggerTypeOK, tables
<1>7. CASE Run \/ DestroyWriter
  <2>1. UNCHANGED <<tables, pctx_>>
    BY <1>7 DEF Run, DestroyWriter, WriteChannels
  <2>2. \A c \in Channels : output[c] \in Seq(Messages)
    BY DEF LoggerTypeOK
  <2>3. WriteToChannels => \A c \in Channels :
            Append(output[c], Head(tmp_pctxs)) \in Seq(Messages)
    <3>1. WriteToChannels => Head(tmp_pctxs) \in Messages
      BY <1>0, HeadTailProperties DEF WriteToChannels, TypeOK
    <3> QED
      BY <2>2, <3>1, AppendProperties
  <2>4. output' \in [Channels -> Seq(Messages)]
    BY <1>7, <2>2, <2>3, WritesOne
  <2> QED
    BY <1>0, <2>1, <2>4 DEF LoggerTypeOK, tables
<1>8. CASE UNCHANGED loggerVars
  BY <1>0, <1>8 DEF loggerVars, LoggerTypeOK, tables
<1> QED
  BY <1>1, <1>2, <1>3, <1>4, <1>5, <1>6, <1>7, <1>8 DEF LoggerNext

LEMMA LoggerTypeInit == LoggerInit => LoggerTypeOK
<1> SUFFICES ASSUME LoggerInit PROVE LoggerTypeOK
  OBVIOUS
<1>1. TypeOK
  BY TypeInit DEF LoggerInit
<1>2. DOMAIN channels_ = {}
  BY EmptySeq DEF LoggerInit
<1>3. output \in [Channels -> Seq(Messages)]
  BY EmptySeq DEF LoggerInit
<1> QED
  BY <1>1, <1>2, <1>3 DEF LoggerInit, LoggerTypeOK

(* LoggerTypeOK: every variable of Logger and of its writer keeps its type,    *)
(* and the level a channel has now is one of those it has had (SetLevel).      *)
THEOREM LoggerTyped == LoggerSpec => []LoggerTypeOK
  BY LoggerTypeInit, LoggerTypeNext, PTL DEF LoggerSpec
--------------------------------------------------------------------------------
NoRepeat(s) == \A i, j \in DOMAIN s : i # j => s[i] # s[j]

LEMMA AppendRange ==
    ASSUME NEW S, NEW s \in Seq(S), NEW e \in S
    PROVE  /\ DOMAIN s = 1..Len(s) /\ Len(s) \in Nat
           /\ Append(s, e) \in Seq(S)
           /\ DOMAIN Append(s, e) = DOMAIN s \cup {Len(s) + 1}
           /\ \A i \in DOMAIN s : Append(s, e)[i] = s[i] /\ i < Len(s) + 1
           /\ Append(s, e)[Len(s) + 1] = e
           /\ Range(Append(s, e)) = Range(s) \cup {e}
           /\ NoRepeat(s) /\ e \notin Range(s) => NoRepeat(Append(s, e))
<1>1. /\ DOMAIN s = 1..Len(s) /\ Len(s) \in Nat
      /\ Append(s, e) \in Seq(S)
      /\ Len(Append(s, e)) = Len(s) + 1
  BY LenProperties, AppendProperties
<1>2. DOMAIN Append(s, e) = 1..Len(s) + 1
  BY <1>1, LenProperties
<1>3. DOMAIN Append(s, e) = DOMAIN s \cup {Len(s) + 1}
  BY <1>1, <1>2
<1>4. \A i \in DOMAIN s : Append(s, e)[i] = s[i] /\ i < Len(s) + 1
  BY <1>1, AppendProperties
<1>5. Append(s, e)[Len(s) + 1] = e
  BY <1>1, AppendProperties
<1>6. Range(Append(s, e)) = Range(s) \cup {e}
  BY <1>3, <1>4, <1>5, Zenon DEF Range
<1>7. NoRepeat(s) /\ e \notin Range(s) => NoRepeat(Append(s, e))
  BY <1>3, <1>4, <1>5, Zenon DEF Range, NoRepeat
<1> QED
  BY <1>1, <1>3, <1>4, <1>5, <1>6, <1>7

LEMMA TailRange ==
    ASSUME NEW S, NEW s \in Seq(S), s # <<>>, NoRepeat(s)
    PROVE  /\ Head(s) \in Range(s)
           /\ NoRepeat(Tail(s))
           /\ Range(Tail(s)) = Range(s) \ {Head(s)}
<1> DEFINE t == Tail(s)
<1>1. /\ Head(s) = s[1] /\ 1 \in DOMAIN s
      /\ \A i \in DOMAIN t : /\ i + 1 \in DOMAIN s /\ i + 1 # 1
                             /\ t[i] = s[i + 1]
      /\ \A i, j \in DOMAIN t : i # j => i + 1 # j + 1
  OBVIOUS
<1>2. \A i \in DOMAIN s : i # 1 => i - 1 \in DOMAIN t /\ t[i - 1] = s[i]
  OBVIOUS
<1> HIDE DEF t
<1>3. Head(s) \in Range(s)
  BY <1>1 DEF Range
<1>4. NoRepeat(t)
  BY <1>1 DEF NoRepeat
<1>5. \A x \in Range(t) : x \in Range(s) /\ x # Head(s)
  BY <1>1 DEF Range, NoRepeat
<1>6. \A x \in Range(s) : x # Head(s) => x \in Range(t)
  BY <1>1, <1>2 DEF Range
<1>7. Range(t) = Range(s) \ {Head(s)}
  BY <1>5, <1>6
<1> QED
  BY <1>3, <1>4, <1>7 DEF t

(* No message is in the writer twice, nor there and out already.               *)
OnceInv == /\ FlushInv
           /\ NoRepeat(Pending)
           /\ NoRepeat(channels)
           /\ Range(Pending) \cap Range(channels) = {}
           /\ Range(Pending) \cup Range(channels) \subseteq written

LEMMA OnceInit == Init => OnceInv
<1> SUFFICES ASSUME Init PROVE OnceInv
  OBVIOUS
<1>1. FlushInv
  BY TypeInit DEF Init, FlushInv
<1>2. Pending = <<>> /\ channels = <<>>
  BY ConcatEmptySeq, EmptySeq DEF Init, Pending
<1>3. DOMAIN <<>> = {}
  BY EmptySeq
<1> QED
  BY <1>1, <1>2, <1>3 DEF OnceInv, NoRepeat, Range

LEMMA OnceNext == OnceInv /\ [Next]_vars => OnceInv'
<1> SUFFICES ASSUME OnceInv, [Next]_vars PROVE OnceInv'
  OBVIOUS
<1>0. /\ FlushInv /\ FlushInv'
      /\ TypeOK
      /\ Pending \in Seq(Messages) /\ channels \in Seq(Messages)
      /\ NoRepeat(Pending) /\ NoRepeat(channels)
      /\ Range(Pending) \cap Range(channels) = {}
      /\ Range(Pending) \cup Range(channels) \subseteq written
  <2>1. FlushInv /\ FlushInv' /\ TypeOK
    BY FlushNext DEF OnceInv, FlushInv
  <2>2. Pending \in Seq(Messages) /\ channels \in Seq(Messages)
    BY <2>1, ConcatProperties DEF TypeOK, Pending
  <2> QED
    BY <2>1, <2>2 DEF OnceInv
<1>1. ASSUME NEW m \in Messages, Push(m) PROVE OnceInv'
  <2>1. Pending' = Append(Pending, m)
    BY <1>0, <1>1, PushAppends
  <2>2. channels' = channels /\ m \notin written /\ written' = written \cup {m}
    BY <1>1 DEF Push, flushVars
  <2>3. Range(Pending') = Range(Pending) \cup {m} /\ NoRepeat(Pending')
    BY <1>0, <2>1, <2>2, AppendRange
  <2>4. NoRepeat(Pending)' /\ NoRepeat(channels)'
    BY <1>0, <2>2, <2>3 DEF NoRepeat
  <2> QED
    BY <1>0, <2>2, <2>3, <2>4 DEF OnceInv
<1>2. CASE WriterFlushes \/ DtorFlushes
  <2>1. WriteToChannels /\ written' = written
    BY <1>2 DEF WriterFlushes, DtorFlushes, WriteToChannels, writeVars
  <2>2. /\ Pending # <<>>
        /\ channels' = Append(channels, Head(Pending))
        /\ Pending' = Tail(Pending)
    BY <1>0, <2>1, FlushEmitsHead
  <2>3. /\ Head(Pending) \in Range(Pending) /\ Head(Pending) \in Messages
        /\ NoRepeat(Tail(Pending))
        /\ Range(Tail(Pending)) = Range(Pending) \ {Head(Pending)}
    BY <1>0, <2>2, TailRange, HeadTailProperties
  <2>4. /\ Range(Append(channels, Head(Pending))) = Range(channels) \cup {Head(Pending)}
        /\ NoRepeat(Append(channels, Head(Pending)))
    <3>1. Head(Pending) \notin Range(channels)
      BY <1>0, <2>3
    <3> QED
      BY <1>0, <2>3, <3>1, AppendRange
  <2>5. NoRepeat(Pending)' /\ NoRepeat(channels)'
    BY <2>2, <2>3, <2>4 DEF NoRepeat
  <2>6. Range(Pending)' = Range(Tail(Pending))
        /\ Range(channels)' = Range(Append(channels, Head(Pending)))
    BY <2>2 DEF Range
  <2> QED
    BY <1>0, <2>1, <2>3, <2>4, <2>5, <2>6 DEF OnceInv
<1>3. ASSUME Pending' = Pending, channels' = channels, written' = written
      PROVE  OnceInv'
  BY <1>0, <1>3 DEF OnceInv, NoRepeat, Range
<1>4. CASE WriterTakes \/ DtorTakes
  <2>1. Pending' = Pending
    BY <1>0, <1>4, TakeHidden DEF WriterTakes, DtorTakes, FlushInv
  <2> QED
    BY <1>3, <1>4, <2>1 DEF WriterTakes, DtorTakes, TakeMessages
<1>5. CASE \/ \E m \in Messages : PostMessage(m)
           \/ TestRunning \/ WaitReturns \/ WaitSleeps \/ WakesUp \/ WriterReturns
           \/ StopRunning \/ PostStop \/ Join \/ DtorReturns \/ UNCHANGED vars
  <2>1. UNCHANGED <<tmp_pctxs, pctxs_, channels, written>>
    BY <1>5 DEF PostMessage, TestRunning, WaitReturns, WaitSleeps, WakesUp, WriterReturns,
              StopRunning, PostStop, Join, DtorReturns, vars, writeVars, flushVars
  <2> QED
    BY <1>3, <2>1 DEF Pending
<1> QED
  BY <1>1, <1>2, <1>4, <1>5 DEF Next, RunSteps, DtorSteps

(* Before SetWriter nothing was written, so that nothing that is in channels_  *)
(* then has missed a message.                                                  *)
ChannelsInv ==
    /\ LoggerTypeOK
    /\ OnceInv
    /\ ~writer_ => written = {} /\ \A c \in Channels : output[c] = <<>>
    /\ \A c \in Channels : had[c] # {} => c \in DOMAIN channels_
    /\ ChannelsComplete

(* When a message comes out, a channel of channels_ takes it or leaves it, as  *)
(* a level that it has had says.                                               *)
LEMMA OneShown ==
    ASSUME ChannelsInv, WriteToChannels, NEW c \in Channels, had[c] # {}, had' = had,
           output' = [d \in Channels |->
                          IF d \in DOMAIN channels_ /\ Takes(d, Head(tmp_pctxs))
                          THEN Append(output[d], Head(tmp_pctxs)) ELSE output[d]]
    PROVE  ShownInOrder(c)' /\ ShownByLevel(c)'
<1> DEFINE m == Head(tmp_pctxs)
<1>0. /\ TypeOK /\ LoggerTypeOK /\ c \in DOMAIN channels_
      /\ ShownInOrder(c) /\ ShownByLevel(c)
      /\ NoRepeat(Pending) /\ Range(Pending) \cap Range(channels) = {}
  BY DEF ChannelsInv, OnceInv, LoggerTypeOK, ChannelsComplete
<1>1. m \in Messages /\ channels' = Append(channels, m)
  BY <1>0, HeadTailProperties DEF TypeOK, WriteToChannels
<1>2. m \notin Range(channels)
  <2>1. Pending # <<>> /\ channels' = Append(channels, Head(Pending))
    BY <1>0, FlushEmitsHead
  <2>2. Pending \in Seq(Messages)
    BY <1>0, ConcatProperties DEF TypeOK, Pending
  <2>3. Head(Pending) \in Range(Pending) /\ Head(Pending) \in Messages
    BY <1>0, <2>1, <2>2, TailRange, HeadTailProperties
  <2>4. channels \in Seq(Messages)
    BY <1>0 DEF TypeOK
  <2>5. m = Head(Pending)
    BY <1>1, <2>1, <2>3, <2>4, AppendRange
  <2> QED
    BY <1>0, <2>3, <2>5
<1>3. channels \in Seq(Messages) /\ output[c] \in Seq(Messages)
  BY <1>0 DEF TypeOK, LoggerTypeOK
<1>4. \A x \in Range(output[c]) : x \in Range(channels)
  <2>1. \A i \in DOMAIN output[c] : \E k \in DOMAIN channels : channels[k] = output[c][i]
    BY <1>0 DEF ShownInOrder
  <2> QED
    BY <2>1 DEF Range
<1>5. /\ channels_[c] \in had[c]
      /\ channels_[c] \in Nat /\ LevelOf[m] \in Nat
      /\ \A l \in had[c] : l \in Nat
  BY <1>0, <1>1, LoggerAssumption DEF LoggerTypeOK
<1>6. output'[c] = IF Takes(c, m) THEN Append(output[c], m) ELSE output[c]
  BY <1>0
<1> HIDE DEF m
<1> DEFINE n == Len(channels) + 1
<1>7. /\ DOMAIN channels' = DOMAIN channels \cup {n}
      /\ \A k \in DOMAIN channels : channels'[k] = channels[k] /\ k < n
      /\ channels'[n] = m
      /\ Range(channels') = Range(channels) \cup {m}
  BY <1>1, <1>3, AppendRange
<1> HIDE DEF n
<1>8. CASE ~Takes(c, m)
  <2>1. output'[c] = output[c]
    BY <1>6, <1>8
  <2>2. ShownInOrder(c)'
    <3>1. ASSUME NEW i \in DOMAIN output'[c], NEW j \in DOMAIN output'[c]
          PROVE  /\ i # j => output'[c][i] # output'[c][j]
                 /\ \E k, l \in DOMAIN channels' : /\ channels'[k] = output'[c][i]
                                                   /\ channels'[l] = output'[c][j]
                                                   /\ i < j => k < l
      <4>1. /\ i # j => output[c][i] # output[c][j]
            /\ \E k, l \in DOMAIN channels' : /\ channels'[k] = output[c][i]
                                              /\ channels'[l] = output[c][j]
                                              /\ i < j => k < l
        <5>1. i \in DOMAIN output[c] /\ j \in DOMAIN output[c]
          BY <2>1, <3>1
        <5> QED
          BY <5>1, <1>0, <1>7 DEF ShownInOrder
      <4> QED
        BY <2>1, <4>1
    <3> QED
      BY <3>1 DEF ShownInOrder
  <2>3. ~(channels_[c] <= LevelOf[m])
    BY <1>8 DEF Takes
  <2>4. m \notin Range(output[c])
    BY <1>2, <1>4
  <2>5. ~ \A l \in had[c] : l <= LevelOf[m]
    BY <1>5, <2>3
  <2>6. Range(channels)' = Range(channels') /\ Range(output[c])' = Range(output[c])
    BY <2>1 DEF Range
  <2>7. ShownByLevel(c)'
    BY <1>0, <1>7, <2>4, <2>5, <2>6 DEF ShownByLevel
  <2> QED
    BY <2>2, <2>7
<1>9. CASE Takes(c, m)
  <2> DEFINE p == Len(output[c]) + 1
  <2>1. /\ DOMAIN output'[c] = DOMAIN output[c] \cup {p}
        /\ \A i \in DOMAIN output[c] : output'[c][i] = output[c][i] /\ i < p
        /\ output'[c][p] = m
        /\ Range(output'[c]) = Range(output[c]) \cup {m}
    BY <1>1, <1>3, <1>6, <1>9, AppendRange
  <2> HIDE DEF p
  <2>2. \A i \in DOMAIN output[c] : output[c][i] \in Range(channels)
    BY <1>4, Zenon DEF Range
  <2>3. \A i \in DOMAIN output[c] : \E k \in DOMAIN channels : channels[k] = output[c][i]
    BY <2>2, Zenon DEF Range
  <2>4. ASSUME NEW i \in DOMAIN output'[c], NEW j \in DOMAIN output'[c]
        PROVE  /\ i # j => output'[c][i] # output'[c][j]
               /\ \E k, l \in DOMAIN channels' : /\ channels'[k] = output'[c][i]
                                                 /\ channels'[l] = output'[c][j]
                                                 /\ i < j => k < l
    <3>1. CASE i \in DOMAIN output[c] /\ j \in DOMAIN output[c]
      <4>1. /\ i # j => output[c][i] # output[c][j]
            /\ \E k, l \in DOMAIN channels' : /\ channels'[k] = output[c][i]
                                              /\ channels'[l] = output[c][j]
                                              /\ i < j => k < l
        BY <3>1, <1>0, <1>7 DEF ShownInOrder
      <4> QED
        BY <3>1, <2>1, <4>1
    <3>2. CASE i \in DOMAIN output[c] /\ j = p
      <4>1. output'[c][i] # m
        BY <3>2, <1>2, <2>1, <2>2
      <4>2. PICK k \in DOMAIN channels : channels[k] = output[c][i]
        BY <3>2, <2>3
      <4>3. k < n /\ channels'[k] = output'[c][i] /\ channels'[n] = output'[c][j]
        BY <3>2, <4>2, <1>7, <2>1
      <4> QED
        BY <3>2, <4>1, <4>3, <1>7, <2>1
    <3>3. CASE i = p /\ j \in DOMAIN output[c]
      <4>1. ~(i < j)
        <5>1. j \in Nat /\ p \in Nat /\ j < p
          BY <3>3, <1>3, <2>1, AppendRange, LenProperties DEF p
        <5> QED
          BY <3>3, <5>1
      <4> QED
        BY <3>3, <4>1, <1>2, <1>7, <2>1, <2>2, <2>3, Zenon
    <3>4. CASE i = p /\ j = p
      <4>1. ~(i < j)
        <5>1. p \in Nat
          BY <1>3, LenProperties DEF p
        <5> QED
          BY <3>4, <5>1
      <4> QED
        BY <3>4, <4>1, <1>7, <2>1, Zenon
    <3> QED
      BY <2>1, <3>1, <3>2, <3>3, <3>4
  <2>5. ShownInOrder(c)'
    BY <2>4 DEF ShownInOrder
  <2>6. ~ \A l \in had[c] : l > LevelOf[m]
    BY <1>5, <1>9 DEF Takes
  <2>7. Range(channels)' = Range(channels') /\ Range(output[c])' = Range(output'[c])
    BY DEF Range
  <2>8. ShownByLevel(c)'
    BY <1>0, <1>2, <1>7, <2>1, <2>6, <2>7 DEF ShownByLevel
  <2> QED
    BY <2>5, <2>8
<1> QED
  BY <1>8, <1>9

LEMMA ChannelsInit == LoggerInit => ChannelsInv
<1> SUFFICES ASSUME LoggerInit PROVE ChannelsInv
  OBVIOUS
<1>1. LoggerTypeOK /\ OnceInv
  BY LoggerTypeInit, OnceInit DEF LoggerInit
<1>2. written = {} /\ \A c \in Channels : output[c] = <<>> /\ had[c] = {}
  BY DEF LoggerInit, Init
<1> QED
  BY <1>1, <1>2 DEF ChannelsInv, ChannelsComplete

LEMMA ChannelsNext == ChannelsInv /\ [LoggerNext]_loggerVars => ChannelsInv'
<1> SUFFICES ASSUME ChannelsInv, [LoggerNext]_loggerVars PROVE ChannelsInv'
  OBVIOUS
<1>0. LoggerTypeOK' /\ OnceInv'
  <2>1. [Next]_vars
    BY StepOfWriter DEF loggerVars
  <2> QED
    BY <2>1, LoggerTypeNext, OnceNext DEF ChannelsInv
<1>1. /\ LoggerTypeOK /\ OnceInv /\ ChannelsComplete
      /\ ~writer_ => written = {} /\ \A c \in Channels : output[c] = <<>>
      /\ \A c \in Channels : had[c] # {} => c \in DOMAIN channels_
  BY DEF ChannelsInv
(* What a channel that keeps its output and its level still shows. *)
<1>2. ASSUME NEW c \in Channels, had[c] # {}, channels' = channels, output' = output,
             had'[c] = had[c] \/ \E l : had'[c] = had[c] \cup {l}
      PROVE  ShownInOrder(c)' /\ ShownByLevel(c)'
  <2>1. ShownInOrder(c) /\ ShownByLevel(c)
    BY <1>1, <1>2 DEF ChannelsComplete
  <2>2. ShownInOrder(c)'
    BY <1>2, <2>1 DEF ShownInOrder
  <2>3. Range(channels)' = Range(channels) /\ Range(output[c])' = Range(output[c])
    BY <1>2 DEF Range
  <2>4. \A l \in had[c] : l \in had'[c]
    BY <1>2
  <2>5. ShownByLevel(c)'
    BY <2>1, <2>3, <2>4 DEF ShownByLevel
  <2> QED
    BY <2>2, <2>5
(* Before SetWriter, a channel shows all of nothing. *)
<1>3. ASSUME NEW c \in Channels, ~writer_, channels' = channels, output' = output
      PROVE  ShownInOrder(c)' /\ ShownByLevel(c)'
  <2>1. Range(channels) = {} /\ DOMAIN output'[c] = {}
    <3>1. Range(channels) = {}
      BY <1>1, <1>3 DEF OnceInv
    <3>2. DOMAIN <<>> = {}
      BY EmptySeq
    <3> QED
      BY <1>1, <1>3, <3>1, <3>2
  <2>2. Range(channels)' = {}
    BY <1>3, <2>1 DEF Range
  <2> QED
    BY <2>1, <2>2 DEF ShownInOrder, ShownByLevel
<1>4. ASSUME NEW c \in Channels, NEW level \in Levels, AddChannel(c, level)
      PROVE  ChannelsInv'
  <2>1. /\ ~writer_ /\ DOMAIN channels_' = DOMAIN channels_ \cup {c}
        /\ had' = [had EXCEPT ![c] = {level}]
        /\ UNCHANGED <<writer_, output, channels, written>>
    BY <1>4 DEF AddChannel, vars, flushVars, writeVars
  <2>2. \A d \in Channels : had'[d] # {} => d \in DOMAIN channels_'
    BY <1>1, <2>1 DEF LoggerTypeOK
  <2>3. ChannelsComplete'
    BY <1>3, <2>1 DEF ChannelsComplete
  <2> QED
    BY <1>0, <1>1, <2>1, <2>2, <2>3 DEF ChannelsInv
<1>5. ASSUME NEW c \in Channels, RemoveChannel(c)
      PROVE  ChannelsInv'
  <2>1. /\ ~writer_ /\ DOMAIN channels_' = DOMAIN channels_ \ {c}
        /\ had' = [had EXCEPT ![c] = {}]
        /\ UNCHANGED <<writer_, output, channels, written>>
    BY <1>5 DEF RemoveChannel, Restrict, vars, flushVars, writeVars
  <2>2. \A d \in Channels : had'[d] # {} => d \in DOMAIN channels_'
    BY <1>1, <2>1 DEF LoggerTypeOK
  <2>3. ChannelsComplete'
    BY <1>3, <2>1 DEF ChannelsComplete
  <2> QED
    BY <1>0, <1>1, <2>1, <2>2, <2>3 DEF ChannelsInv
<1>6. ASSUME NEW c \in Channels, NEW level \in Levels, SetLevel(c, level)
      PROVE  ChannelsInv'
  <2>1. /\ c \in DOMAIN channels_ /\ DOMAIN channels_' = DOMAIN channels_
        /\ had' = [had EXCEPT ![c] = had[c] \cup {level}]
        /\ UNCHANGED <<writer_, output, channels, written>>
    BY <1>6 DEF SetLevel, vars, flushVars, writeVars
  <2>2. had[c] # {}
    BY <1>1, <2>1 DEF LoggerTypeOK
  <2>3. \A d \in Channels : had'[d] = had[d] \/ \E l : had'[d] = had[d] \cup {l}
    BY <1>1, <2>1 DEF LoggerTypeOK
  <2>4. \A d \in Channels : had'[d] # {} => had[d] # {}
    BY <1>1, <2>1, <2>2 DEF LoggerTypeOK
  <2>5. ChannelsComplete'
    BY <1>2, <2>1, <2>3, <2>4 DEF ChannelsComplete
  <2> QED
    BY <1>0, <1>1, <2>1, <2>4, <2>5 DEF ChannelsInv
(* Every other step leaves channels_ and had alone. *)
<1>7. ASSUME UNCHANGED <<channels_, had>>, channels' = channels, output' = output,
             ~writer_' => ~writer_ /\ written' = written
      PROVE  ChannelsInv'
  <2>1. ChannelsComplete'
    BY <1>2, <1>7 DEF ChannelsComplete
  <2> QED
    BY <1>0, <1>1, <1>7, <2>1 DEF ChannelsInv
<1>8. CASE SetWriter \/ (WakesUp /\ UNCHANGED <<tables, pctx_, output>>) \/ Destroy
           \/ UNCHANGED loggerVars
  <2>1. UNCHANGED <<channels_, had, channels, output, written>> /\ (~writer_' => ~writer_)
    BY <1>8 DEF SetWriter, WakesUp, Destroy, StopRunning, loggerVars, vars, flushVars,
                writeVars, tables
  <2> QED
    BY <1>7, <2>1
<1>9. ASSUME NEW m \in Messages, Capture(m) \/ Endl(m) \/ Clear(m) \/ LogPosts(m)
      PROVE  ChannelsInv'
  <2>1. /\ UNCHANGED <<channels_, had, channels, output, writer_>>
        /\ ~writer_ => written' = written
    BY <1>9 DEF Capture, Endl, Clear, LogPosts, Write, Push, PostMessage, vars, flushVars,
                writeVars, tables
  <2> QED
    BY <1>7, <2>1
<1>10. CASE Run \/ DestroyWriter
  <2>1. UNCHANGED <<channels_, had, writer_>>
    BY <1>10 DEF Run, DestroyWriter, WriteChannels, tables
  <2>2. written' = written
    BY <1>10 DEF Run, DestroyWriter, RunSteps, DtorSteps, TestRunning, WaitReturns, WaitSleeps,
         WriterTakes, WriterFlushes, WriterReturns, PostStop, Join, DtorTakes, DtorFlushes,
         DtorReturns, TakeMessages, WriteToChannels, writeVars
  <2>3. CASE channels' = channels /\ output' = [c \in Channels |-> output[c]]
    <3>1. output' = output
      BY <1>1, <2>3 DEF LoggerTypeOK
    <3> QED
      BY <1>7, <2>1, <2>2, <2>3, <3>1
  <2>4. CASE /\ WriteToChannels
             /\ channels' # channels
             /\ output' = [c \in Channels |->
                               IF c \in DOMAIN channels_ /\ Takes(c, Head(tmp_pctxs))
                               THEN Append(output[c], Head(tmp_pctxs)) ELSE output[c]]
    <3>1. \A c \in Channels : had[c] # {} => ShownInOrder(c)' /\ ShownByLevel(c)'
      BY <2>1, <2>4, OneShown
    <3>2. ChannelsComplete'
      BY <2>1, <3>1 DEF ChannelsComplete
    <3>3. writer_
      <4>1. TypeOK /\ Range(Pending) \subseteq written
        BY <1>1 DEF LoggerTypeOK, OnceInv
      <4>2. Pending # <<>> /\ Pending \in Seq(Messages)
        BY <2>4, <4>1, FlushEmitsHead, ConcatProperties DEF TypeOK, Pending
      <4>3. Head(Pending) \in Range(Pending)
        BY <1>1, <4>2, TailRange DEF OnceInv
      <4> QED
        BY <1>1, <4>1, <4>3
    <3> QED
      BY <1>0, <1>1, <2>1, <3>2, <3>3 DEF ChannelsInv
  <2> QED
    BY <1>10, <2>3, <2>4, WritesOne
<1> QED
  BY <1>4, <1>5, <1>6, <1>8, <1>9, <1>10 DEF LoggerNext

(* ChannelsComplete: what SetLevel did meanwhile and whoever flushed, a channel *)
(* shows every message its levels let through, once, in the order of the        *)
(* writes, and none that they exclude (write_channels, ConsoleChannel::Write,  *)
(* ~Logger).                                                                   *)
THEOREM ChannelsShowAll == LoggerSpec => []ChannelsComplete
<1>1. ChannelsInv => ChannelsComplete
  BY DEF ChannelsInv
<1> QED
  BY <1>1, ChannelsInit, ChannelsNext, PTL DEF LoggerSpec
================================================================================
