--------------------------- MODULE ConnectionProofs ---------------------------
(* Connection for any set of attempts: types, the fields of a Socket, its     *)
(* descriptors, and the callbacks that Connector promises.                    *)
EXTENDS Connection, SequenceTheorems, TLAPS

TaskRec == {Task(kind, a) : kind \in Kinds, a \in Attempts}

LEMMA TaskType == \A kind \in Kinds, a \in Attempts : Task(kind, a) \in TaskRec
  BY DEF TaskRec

LEMMA ReleaseType ==
    ASSUME TypeOK, NEW held,
           NEW map \in [Attempts -> {None, "on_connected", "attached"}],
           ReleaseFrom(map, held)
    PROVE  /\ event_map_' \in [Attempts -> {None, "on_connected", "attached"}]
           /\ kernel' \in [Attempts -> {"none", "connecting", Established, "refused",
                                        "closed", "leaked"}]
  BY DEF ReleaseFrom, TypeOK

LEMMA EmitType ==
    ASSUME TypeOK, EmitError
    PROVE  /\ connect_timer_' \in Attempts \cup {None}
           /\ async_connect_cb_' \in Attempts \cup {None}
           /\ sockfd_' \in Attempts \cup {None}
           /\ tasks' \in Seq(TaskRec)
<1>1. CASE sockfd_ = None
  BY <1>1 DEF EmitError, TypeOK, socketVars, TaskRec
<1>2. CASE sockfd_ # None
  <2>1. Task("error", sockfd_) \in TaskRec /\ tasks \in Seq(TaskRec)
    BY <1>2, TaskType DEF TypeOK, TaskRec, Kinds
  <2>2. tasks' \in Seq(TaskRec)
    BY <1>2, <2>1, AppendProperties DEF EmitError
  <2> QED
    BY <1>2, <2>2 DEF EmitError, ClearSocket
<1> QED
  BY <1>1, <1>2

LEMMA TailType ==
    ASSUME TypeOK, tasks # <<>>
    PROVE  Tail(tasks) \in Seq(TaskRec)
<1>1. tasks \in Seq(TaskRec)
  BY DEF TypeOK, TaskRec
<1> QED
  BY <1>1, HeadTailProperties

LEMMA ReportType ==
    ASSUME TypeOK, NEW a \in Attempts, NEW code \in Codes, ConnectCb(a, code)
    PROVE  /\ reports' \in Seq([attempt : Attempts, code : Codes])
           /\ connect_timer_' = None
           /\ async_connect_cb_' = None
           /\ UNCHANGED <<alive, tried, errors>>
  BY AppendProperties DEF TypeOK, ConnectCb

LEMMA TypeNext == TypeOK /\ [Next]_vars => TypeOK'
<1> SUFFICES ASSUME TypeOK, [Next]_vars
             PROVE  TypeOK'
  OBVIOUS
<1>0. /\ alive \in BOOLEAN
      /\ connect_timer_ \in Attempts \cup {None}
      /\ async_connect_cb_ \in Attempts \cup {None}
      /\ sockfd_ \in Attempts \cup {None}
      /\ strong_sockfd \in Attempts \cup {None}
      /\ event \in SUBSET {"read", "write", "error"}
      /\ pc \in {"idle", "read", "read_cb", "write", "flushed_cb", "error"}
      /\ tasks \in Seq(TaskRec)
      /\ event_map_ \in [Attempts -> {None, "on_connected", "attached"}]
      /\ kernel \in [Attempts -> {"none", "connecting", Established, "refused", "closed",
                                  "leaked"}]
      /\ add_failed \in SUBSET Attempts
      /\ errno \in Errnos
      /\ tried \in SUBSET Attempts
      /\ reports \in Seq([attempt : Attempts, code : Codes])
      /\ errors \in Seq(Attempts)
  BY DEF TypeOK, TaskRec
<1>g. TypeOK' <=>
      /\ alive' \in BOOLEAN
      /\ connect_timer_' \in Attempts \cup {None}
      /\ async_connect_cb_' \in Attempts \cup {None}
      /\ sockfd_' \in Attempts \cup {None}
      /\ strong_sockfd' \in Attempts \cup {None}
      /\ event' \in SUBSET {"read", "write", "error"}
      /\ pc' \in {"idle", "read", "read_cb", "write", "flushed_cb", "error"}
      /\ tasks' \in Seq(TaskRec)
      /\ event_map_' \in [Attempts -> {None, "on_connected", "attached"}]
      /\ kernel' \in [Attempts -> {"none", "connecting", Established, "refused", "closed",
                                   "leaked"}]
      /\ add_failed' \in SUBSET Attempts
      /\ errno' \in Errnos
      /\ tried' \in SUBSET Attempts
      /\ reports' \in Seq([attempt : Attempts, code : Codes])
      /\ errors' \in Seq(Attempts)
  BY DEF TypeOK, TaskRec
<1> USE <1>0, <1>g DEF socketVars, handlerVars, fdVars, toldVars
<1>1. ASSUME NEW a \in Attempts, Connect(a) PROVE TypeOK'
  <2>1. tasks' \in Seq(TaskRec)
    BY <1>1, TaskType, AppendProperties DEF Connect, Kinds
  <2> QED
    BY <1>1, <2>1, ReleaseType DEF Connect, Release
<1>2. CASE Close
  BY <1>2, ReleaseType DEF Close, ClearSocket, Release
<1>3. CASE Destroy
  BY <1>3, ReleaseType DEF Destroy, ClearSocket, Release
<1>4. CASE OthersSetErrno
  BY <1>4 DEF OthersSetErrno
<1>5. ASSUME NEW a \in Attempts, Network(a) PROVE TypeOK'
  BY <1>5 DEF Network
<1>6. ASSUME NEW a \in Attempts, Hop1(a) PROVE TypeOK'
  <2>1. Tail(tasks) \in Seq(TaskRec)
    BY <1>6, TailType DEF Hop1, RunTask
  <2>2. Task("hop2", a) \in TaskRec /\ Task("unreachable", a) \in TaskRec
    BY TaskType DEF Kinds
  <2>3. /\ Append(Tail(tasks), Task("hop2", a)) \in Seq(TaskRec)
        /\ Append(Tail(tasks), Task("unreachable", a)) \in Seq(TaskRec)
    BY <2>1, <2>2, AppendProperties
  <2>4. tasks' \in Seq(TaskRec)
    BY <1>6, <2>3 DEF Hop1
  <2> QED
    BY <1>6, <2>4 DEF Hop1, Errnos
<1>7. ASSUME NEW a \in Attempts, Hop2Drops(a) PROVE TypeOK'
  BY <1>7, TailType DEF Hop2Drops, RunTask
<1>8. ASSUME NEW a \in Attempts, Hop2Registers(a) PROVE TypeOK'
  BY <1>8, TailType, ReleaseType DEF Hop2Registers, RunTask
<1>9. ASSUME NEW a \in Attempts, Hop2Fails(a) PROVE TypeOK'
  BY <1>9, TailType, ReleaseType, ReportType DEF Hop2Fails, RunTask, Codes
<1>10. ASSUME NEW a \in Attempts, Unreachable(a) PROVE TypeOK'
  BY <1>10, TailType, ReleaseType, ReportType DEF Unreachable, RunTask, Release, Codes
<1>11. ASSUME NEW a \in Attempts, ErrorCb(a) PROVE TypeOK'
  BY <1>11, TailType, AppendProperties DEF ErrorCb, RunTask
<1>12. ASSUME NEW a \in Attempts, Timeout(a) PROVE TypeOK'
  BY <1>12, ReleaseType, ReportType DEF Timeout, Release, Codes
<1>13. ASSUME NEW a \in Attempts, WritableEvent(a) PROVE TypeOK'
  <2>1. SocketError(a) \in Codes
    BY DEF SocketError, Codes
  <2>2. CASE ConnectedInError(a)
    BY <2>1, <2>2, ReleaseType, ReportType DEF ConnectedInError, Release
  <2>3. CASE Connected(a)
    BY <2>3, ReportType DEF Connected, Codes
  <2>4. CASE ConnectedUnattached(a)
    BY <2>4, ReleaseType, ReportType DEF ConnectedUnattached, Codes
  <2> QED
    BY <1>13, <2>2, <2>3, <2>4 DEF WritableEvent
<1>14. ASSUME NEW a \in Attempts, HandleEvent(a) PROVE TypeOK'
  BY <1>14 DEF HandleEvent
<1>15. CASE ReadData \/ ReadCbReturns \/ ReadNothing \/ WriteReturns \/ WriteFlushed
            \/ FlushedCbReturns
  BY <1>15 DEF ReadData, ReadCbReturns, ReadNothing, WriteReturns, WriteFlushed,
               FlushedCbReturns, Continue, Errnos
<1>16. CASE ReadFails \/ WriteFails
  BY <1>16, EmitType, ReleaseType DEF ReadFails, WriteFails, Continue, Release, Errnos
<1>17. CASE HandlerReturns
  BY <1>17, EmitType, ReleaseType DEF HandlerReturns, Release
<1>18. CASE UNCHANGED vars
  BY <1>18 DEF vars
<1> QED
  BY <1>1, <1>2, <1>3, <1>4, <1>5, <1>6, <1>7, <1>8, <1>9, <1>10, <1>11, <1>12,
     <1>13, <1>14, <1>15, <1>16, <1>17, <1>18
     DEF Next, Tasks, ReadEnds, HandlerSteps

LEMMA TypeInit == Init => TypeOK
  BY EmptySeq DEF Init, TypeOK, Errnos

(* Every variable of the socket and its poller keeps its type: no SocketFD,   *)
(* task or report is ever made for nothing.                                   *)
THEOREM TypeCorrect == Spec => []TypeOK
  BY TypeInit, TypeNext, PTL DEF Spec
--------------------------------------------------------------------------------
(* OneAttempt needs to know what a handler holds and what the poller knows.    *)
HandlerHolds == pc = "idle" <=> strong_sockfd = None
OnlyHeldRegistered ==
    \A a \in Attempts : event_map_[a] # None => a \in {sockfd_, strong_sockfd}

HeldInv == TypeOK /\ OneAttempt /\ HandlerHolds /\ OnlyHeldRegistered

LEMMA ReleaseHeld ==
    ASSUME TypeOK, NEW held, NEW map \in [Attempts -> {None, "on_connected", "attached"}],
           ReleaseFrom(map, held),
           \A a \in Attempts : map[a] # None => a \in held \cup {sockfd_', strong_sockfd'}
    PROVE  /\ OnlyHeldRegistered'
           /\ \A a \in Attempts : a \in {sockfd_', strong_sockfd'}
                                     => event_map_'[a] = map[a]
  BY ConnectionAssumption DEF ReleaseFrom, OnlyHeldRegistered

LEMMA ReleaseAll ==
    ASSUME HeldInv, Release
    PROVE  /\ OnlyHeldRegistered'
           /\ \A a \in Attempts : a \in {sockfd_', strong_sockfd'}
                                     => event_map_'[a] = event_map_[a]
<1>1. event_map_ \in [Attempts -> {None, "on_connected", "attached"}]
  BY DEF HeldInv, TypeOK
<1>2. \A a \in Attempts : event_map_[a] # None
         => a \in {sockfd_, strong_sockfd} \cup {sockfd_', strong_sockfd'}
  BY DEF HeldInv, OnlyHeldRegistered
<1> QED
  BY <1>1, <1>2, ReleaseHeld DEF Release, HeldInv

(* What a step that leaves the Socket without a SocketFD has to show.         *)
LEMMA WithoutSocket ==
    ASSUME sockfd_' = None, async_connect_cb_' = connect_timer_'
    PROVE  OneAttempt'
  BY DEF OneAttempt

LEMMA EmitHeld ==
    ASSUME HeldInv, EmitError
    PROVE  sockfd_' = None /\ async_connect_cb_' = connect_timer_'
  BY DEF HeldInv, OneAttempt, EmitError, ClearSocket, socketVars

LEMMA HeldNext == HeldInv /\ [Next]_vars => HeldInv'
<1> SUFFICES ASSUME HeldInv, [Next]_vars
             PROVE  HeldInv'
  OBVIOUS
<1>0. TypeOK /\ TypeOK'
  BY TypeNext DEF HeldInv
<1>g. HeldInv' <=> OneAttempt' /\ HandlerHolds' /\ OnlyHeldRegistered'
  BY <1>0 DEF HeldInv
<1>h. /\ OneAttempt
      /\ HandlerHolds
      /\ OnlyHeldRegistered
  BY DEF HeldInv
<1>s. /\ event_map_ \in [Attempts -> {None, "on_connected", "attached"}]
      /\ sockfd_ \in Attempts \cup {None}
  BY <1>0 DEF TypeOK
<1>u. ASSUME UNCHANGED <<socketVars, strong_sockfd, pc, event_map_>> PROVE HeldInv'
  BY <1>g, <1>h, <1>u DEF OneAttempt, HandlerHolds, OnlyHeldRegistered, socketVars
<1>r. ASSUME Release, sockfd_' = None, async_connect_cb_' = connect_timer_',
             UNCHANGED <<strong_sockfd, pc>>
      PROVE  HeldInv'
  BY <1>g, <1>h, <1>r, ReleaseAll, WithoutSocket DEF HandlerHolds
<1>l. ASSUME UNCHANGED <<socketVars, strong_sockfd, event_map_>>,
             pc # "idle", pc' # "idle"
      PROVE  HeldInv'
  BY <1>g, <1>h, <1>l DEF OneAttempt, HandlerHolds, OnlyHeldRegistered, socketVars
<1>w. ASSUME NEW a \in Attempts, pc = "idle", event_map_[a] # None
      PROVE  sockfd_ = a /\ strong_sockfd = None
  BY <1>h, <1>w, ConnectionAssumption DEF HandlerHolds, OnlyHeldRegistered
<1>1. ASSUME NEW a \in Attempts, Connect(a) PROVE HeldInv'
  BY <1>1, <1>r DEF Connect, handlerVars
<1>2. CASE Close
  BY <1>2, <1>r DEF Close, ClearSocket, handlerVars
<1>3. CASE Destroy
  BY <1>3, <1>r DEF Destroy, ClearSocket, handlerVars
<1>4. CASE OthersSetErrno
  BY <1>4, <1>u DEF OthersSetErrno, handlerVars, fdVars
<1>5. ASSUME NEW a \in Attempts, Network(a) PROVE HeldInv'
  BY <1>5, <1>u DEF Network, handlerVars
<1>6. ASSUME NEW a \in Attempts, Hop1(a) \/ Hop2Drops(a) \/ ErrorCb(a) PROVE HeldInv'
  BY <1>6, <1>u DEF Hop1, Hop2Drops, ErrorCb, handlerVars, fdVars
<1>7. ASSUME NEW a \in Attempts, Hop2Registers(a) PROVE HeldInv'
  <2> DEFINE map == [event_map_ EXCEPT ![a] = "on_connected"]
  <2>1. /\ pc = "idle" /\ strong_sockfd = None /\ sockfd_' = a
        /\ connect_timer_' = a /\ async_connect_cb_' = a
        /\ pc' = pc /\ strong_sockfd' = strong_sockfd
        /\ ReleaseFrom(map, {sockfd_})
    BY <1>7, <1>h DEF Hop2Registers, RunTask, HandlerHolds, OneAttempt, handlerVars
  <2>2. map \in [Attempts -> {None, "on_connected", "attached"}]
    BY <1>s
  <2>3. \A x \in Attempts : map[x] # None => x \in {sockfd_} \cup {sockfd_', strong_sockfd'}
    BY <1>h, <1>s, <2>1 DEF OnlyHeldRegistered
  <2> HIDE DEF map
  <2>4. OnlyHeldRegistered' /\ event_map_'[a] = map[a]
    BY <1>0, <2>1, <2>2, <2>3, ReleaseHeld
  <2>5. map[a] = "on_connected"
    BY <1>s DEF map
  <2> QED
    BY <1>g, <1>h, <2>1, <2>4, <2>5, ConnectionAssumption DEF OneAttempt, HandlerHolds
<1>8. ASSUME NEW a \in Attempts, Hop2Fails(a) PROVE HeldInv'
  <2>1. \A x \in Attempts :
           event_map_[x] # None => x \in {sockfd_, a} \cup {sockfd_', strong_sockfd'}
    BY <1>8, <1>h DEF Hop2Fails, handlerVars, OnlyHeldRegistered
  <2>2. OnlyHeldRegistered'
    BY <1>8, <1>0, <1>s, <2>1, ReleaseHeld DEF Hop2Fails
  <2> QED
    BY <1>8, <1>g, <1>h, <2>2, WithoutSocket
       DEF Hop2Fails, ConnectCb, handlerVars, HandlerHolds
<1>9. ASSUME NEW a \in Attempts, Unreachable(a) PROVE HeldInv'
  <2>1. CASE async_connect_cb_ = a
    BY <1>9, <2>1, <1>r DEF Unreachable, ConnectCb, handlerVars
  <2>2. CASE async_connect_cb_ # a
    BY <1>9, <2>2, <1>u DEF Unreachable, handlerVars, fdVars
  <2> QED
    BY <2>1, <2>2
<1>10. ASSUME NEW a \in Attempts, Timeout(a) PROVE HeldInv'
  BY <1>10, <1>r DEF Timeout, ConnectCb, handlerVars
<1>11. ASSUME NEW a \in Attempts, ConnectedInError(a) PROVE HeldInv'
  BY <1>11, <1>r DEF ConnectedInError, ConnectCb, handlerVars
<1>12. ASSUME NEW a \in Attempts, Connected(a) PROVE HeldInv'
  <2>1. sockfd_ = a /\ strong_sockfd = None /\ pc = "idle"
    BY <1>12, <1>w, ConnectionAssumption, <1>s DEF Connected, Writable, OneAttempt
  <2>2. /\ event_map_' = [event_map_ EXCEPT ![a] = "attached"]
        /\ connect_timer_' = None /\ async_connect_cb_' = None
        /\ sockfd_' = sockfd_ /\ strong_sockfd' = strong_sockfd /\ pc' = pc
    BY <1>12 DEF Connected, ConnectCb, handlerVars
  <2> QED
    BY <1>g, <1>h, <1>s, <2>1, <2>2 DEF OneAttempt, HandlerHolds, OnlyHeldRegistered
<1>13. ASSUME NEW a \in Attempts, ConnectedUnattached(a) PROVE HeldInv'
  <2> DEFINE map == [event_map_ EXCEPT ![a] = None]
  <2>1. map \in [Attempts -> {None, "on_connected", "attached"}]
    BY <1>s
  <2>2. /\ sockfd_' = None /\ async_connect_cb_' = connect_timer_'
        /\ strong_sockfd' = strong_sockfd /\ pc' = pc
        /\ ReleaseFrom(map, {sockfd_})
    BY <1>13 DEF ConnectedUnattached, ConnectCb, handlerVars
  <2>3. \A x \in Attempts : map[x] # None => x \in {sockfd_} \cup {sockfd_', strong_sockfd'}
    BY <1>h, <1>s, <2>2 DEF OnlyHeldRegistered
  <2> HIDE DEF map
  <2>4. OnlyHeldRegistered'
    BY <1>0, <2>1, <2>2, <2>3, ReleaseHeld
  <2> QED
    BY <1>g, <1>h, <2>2, <2>4, WithoutSocket DEF HandlerHolds
<1>14. ASSUME NEW a \in Attempts, HandleEvent(a) PROVE HeldInv'
  <2>1. sockfd_ = a
    BY <1>14, <1>w, ConnectionAssumption DEF HandleEvent
  <2>2. /\ strong_sockfd' = a /\ pc' # "idle"
        /\ UNCHANGED <<socketVars, event_map_>>
    BY <1>14 DEF HandleEvent, fdVars
  <2> QED
    BY <1>g, <1>h, <2>1, <2>2, <1>w, ConnectionAssumption
       DEF OneAttempt, HandlerHolds, OnlyHeldRegistered, socketVars
<1>15. CASE ReadData \/ ReadCbReturns \/ ReadNothing \/ WriteReturns \/ WriteFlushed
            \/ FlushedCbReturns
  BY <1>15, <1>l DEF ReadData, ReadCbReturns, ReadNothing, WriteReturns, WriteFlushed,
                     FlushedCbReturns, Continue, fdVars
<1>16. CASE ReadFails \/ WriteFails
  <2>1. /\ Release /\ EmitError /\ strong_sockfd' = strong_sockfd
        /\ pc # "idle" /\ pc' # "idle"
    BY <1>16 DEF ReadFails, WriteFails, Continue
  <2> QED
    BY <1>g, <1>h, <2>1, EmitHeld, ReleaseAll, WithoutSocket DEF HandlerHolds
<1>17. CASE HandlerReturns
  <2>1. Release /\ strong_sockfd' = None /\ pc' = "idle"
    BY <1>17 DEF HandlerReturns
  <2>2. HandlerHolds' /\ OnlyHeldRegistered'
    BY <2>1, ReleaseAll DEF HandlerHolds
  <2>3. CASE EmitError
    BY <1>g, <2>2, <2>3, EmitHeld, WithoutSocket
  <2>4. CASE UNCHANGED socketVars
    <3>1. sockfd_ # None => event_map_'[sockfd_] = event_map_[sockfd_]
      BY <2>1, <2>4, <1>s, ReleaseAll DEF socketVars
    <3> QED
      BY <1>g, <1>h, <2>1, <2>2, <2>4, <3>1 DEF OneAttempt, socketVars
  <2> QED
    BY <1>17, <2>3, <2>4 DEF HandlerReturns
<1>18. CASE UNCHANGED vars
  BY <1>18, <1>u DEF vars, handlerVars, fdVars
<1> QED
  BY <1>1, <1>2, <1>3, <1>4, <1>5, <1>6, <1>7, <1>8, <1>9, <1>10, <1>11, <1>12,
     <1>13, <1>14, <1>15, <1>16, <1>17, <1>18
     DEF Next, Tasks, WritableEvent, ReadEnds, HandlerSteps

LEMMA HeldInit == Init => HeldInv
  BY TypeInit DEF Init, HeldInv, OneAttempt, HandlerHolds, OnlyHeldRegistered

(* The timer, the callback, the descriptor and its registration are always    *)
(* those of the same attempt, for any number of attempts, whatever the user    *)
(* does in callbacks and the network meanwhile.                                *)
THEOREM OneAttemptCorrect == Spec => []OneAttempt
<1>1. HeldInv => OneAttempt
  BY DEF HeldInv
<1> QED
  BY <1>1, HeldInit, HeldNext, PTL DEF Spec
--------------------------------------------------------------------------------
(* The attempts that a list of tasks is about, and those of one kind.         *)
QueuedIn(list) == {list[i].attempt : i \in DOMAIN list}
PendingIn(list, kind) == {a \in Attempts : \E i \in DOMAIN list : list[i] = Task(kind, a)}
OneTaskIn(list) == \A i, j \in DOMAIN list : list[i].attempt = list[j].attempt => i = j

Hops == {"hop1", "hop2", "unreachable"}
Held == {sockfd_, strong_sockfd} \ {None}

(* An attempt has one task at most.  While it is the task of a hop, it has no *)
(* SocketFD; a broken connection has at most the handler's.                   *)
TaskInv ==
    /\ OneTaskIn(tasks)
    /\ QueuedIn(tasks) \subseteq tried
    /\ Held \subseteq tried
    /\ sockfd_ \notin QueuedIn(tasks)
    /\ \A kind \in Hops : strong_sockfd \notin PendingIn(tasks, kind)

IsOpen(a) == kernel[a] \in {"connecting", Established, "refused"}

(* A descriptor is opened by the first hop and waits for the second, then has *)
(* a SocketFD and is registered as long as it has.                            *)
KernelInv ==
    /\ \A a \in Attempts :
          /\ a \notin tried \/ a \in PendingIn(tasks, "hop1") \cup PendingIn(tasks, "unreachable")
               => kernel[a] = "none"
          /\ a \in PendingIn(tasks, "hop2") \/ a \in Held <=> IsOpen(a)
          /\ a \in Held <=> event_map_[a] # None
          /\ kernel[a] = "leaked" => a \in add_failed
    /\ strong_sockfd # None => event_map_[strong_sockfd] = "attached"

LEMMA PendingDef == \A kind : Pending(kind) = PendingIn(tasks, kind)
  BY DEF Pending, PendingIn

LEMMA AppendTask ==
    ASSUME NEW s \in Seq(TaskRec), NEW kind \in Kinds, NEW a \in Attempts,
           OneTaskIn(s), a \notin QueuedIn(s)
    PROVE  /\ OneTaskIn(Append(s, Task(kind, a)))
           /\ QueuedIn(Append(s, Task(kind, a))) = QueuedIn(s) \cup {a}
           /\ \A k \in Kinds : PendingIn(Append(s, Task(kind, a)), k)
                                 = PendingIn(s, k) \cup (IF k = kind THEN {a} ELSE {})
<1> DEFINE x == Task(kind, a)
           p == Append(s, x)
<1>1. /\ DOMAIN s = 1..Len(s) /\ Len(s) \in Nat
      /\ DOMAIN p = 1..(Len(s) + 1)
      /\ \A i \in 1..Len(s) : p[i] = s[i]
      /\ p[Len(s) + 1] = x
  <2>1. x \in TaskRec
    BY TaskType
  <2> QED
    BY <2>1, AppendProperties, LenProperties
<1>2. 1..(Len(s) + 1) = (1..Len(s)) \cup {Len(s) + 1}
  BY <1>1
<1>3. x.attempt = a
  BY DEF Task
<1> HIDE DEF p, x
<1>4. QueuedIn(p) = QueuedIn(s) \cup {a}
  BY <1>1, <1>2, <1>3 DEF QueuedIn
<1>5. OneTaskIn(p)
  BY <1>1, <1>2, <1>3 DEF QueuedIn, OneTaskIn
<1>6. ASSUME NEW k \in Kinds
      PROVE  PendingIn(p, k) = PendingIn(s, k) \cup (IF k = kind THEN {a} ELSE {})
  <2>1. \A b \in Attempts : x = Task(k, b) <=> k = kind /\ b = a
    BY DEF x, Task
  <2>2. PendingIn(p, k) = PendingIn(s, k) \cup {b \in Attempts : x = Task(k, b)}
    BY <1>1, <1>2 DEF PendingIn
  <2> QED
    BY <2>1, <2>2
<1> QED
  BY <1>4, <1>5, <1>6 DEF p, x

LEMMA TailTask ==
    ASSUME NEW s \in Seq(TaskRec), s # <<>>, NEW kind \in Kinds, NEW a \in Attempts,
           OneTaskIn(s), Head(s) = Task(kind, a)
    PROVE  /\ OneTaskIn(Tail(s))
           /\ a \in QueuedIn(s)
           /\ QueuedIn(Tail(s)) = QueuedIn(s) \ {a}
           /\ a \in PendingIn(s, kind)
           /\ \A k \in Kinds : PendingIn(Tail(s), k) = PendingIn(s, k) \ {a}
<1> DEFINE t == Tail(s)
<1>1. /\ DOMAIN s = 1..Len(s) /\ Len(s) \in Nat \ {0}
      /\ DOMAIN t = 1..(Len(s) - 1)
      /\ s[1] = Task(kind, a)
      /\ \A i \in 1..(Len(s) - 1) : t[i] = s[i + 1]
  BY HeadTailProperties, LenProperties, EmptySeq
<1>2. \A i \in DOMAIN t : i + 1 \in DOMAIN s /\ i + 1 # 1 /\ t[i] = s[i + 1]
  BY <1>1
<1>3. \A i \in DOMAIN s : i # 1 => i - 1 \in DOMAIN t /\ t[i - 1] = s[i]
  <2> SUFFICES ASSUME NEW i \in DOMAIN s, i # 1 PROVE i - 1 \in DOMAIN t /\ t[i - 1] = s[i]
    OBVIOUS
  <2>1. i - 1 \in DOMAIN t /\ (i - 1) + 1 = i
    BY <1>1
  <2> QED
    BY <2>1, <1>2
<1>4. 1 \in DOMAIN s /\ s[1].attempt = a
  BY <1>1 DEF Task
<1>5. \A i \in DOMAIN s : s[i].attempt = a => i = 1
  BY <1>4 DEF OneTaskIn
<1> HIDE DEF t
<1>6. OneTaskIn(t)
  <2> SUFFICES ASSUME NEW i \in DOMAIN t, NEW j \in DOMAIN t, t[i].attempt = t[j].attempt
               PROVE  i = j
    BY DEF OneTaskIn
  <2>1. i + 1 = j + 1
    BY <1>2 DEF OneTaskIn
  <2> QED
    BY <2>1, <1>1
<1>7. QueuedIn(t) = QueuedIn(s) \ {a}
  <2>1. QueuedIn(t) \subseteq QueuedIn(s) \ {a}
    BY <1>2, <1>5 DEF QueuedIn
  <2>2. QueuedIn(s) \ {a} \subseteq QueuedIn(t)
    BY <1>3, <1>4 DEF QueuedIn
  <2> QED
    BY <2>1, <2>2
<1>8. ASSUME NEW k \in Kinds PROVE PendingIn(t, k) = PendingIn(s, k) \ {a}
  <2>1. \A b \in Attempts : Task(k, b).attempt = b
    BY DEF Task
  <2>2. PendingIn(t, k) \subseteq PendingIn(s, k) \ {a}
    BY <1>2, <1>5, <2>1 DEF PendingIn
  <2>3. PendingIn(s, k) \ {a} \subseteq PendingIn(t, k)
    BY <1>3, <1>4, <2>1 DEF PendingIn
  <2> QED
    BY <2>2, <2>3
<1>9. a \in QueuedIn(s) /\ a \in PendingIn(s, kind)
  BY <1>1, <1>4 DEF QueuedIn, PendingIn
<1> QED
  BY <1>6, <1>7, <1>8, <1>9 DEF t

LEMMA PendingQueued ==
    ASSUME NEW s, NEW kind
    PROVE  PendingIn(s, kind) \subseteq QueuedIn(s) \cap Attempts
  BY DEF PendingIn, QueuedIn, Task

(* The first task leaves the queue, or leaves it for the next hop.            *)
LEMMA Dequeue ==
    ASSUME TypeOK, TaskInv, NEW kind \in Kinds, NEW a \in Attempts, RunTask(Task(kind, a)),
           tasks' = Tail(tasks)
    PROVE  /\ OneTaskIn(tasks')
           /\ QueuedIn(tasks') = QueuedIn(tasks) \ {a}
           /\ a \in QueuedIn(tasks) /\ a \in PendingIn(tasks, kind)
           /\ \A k \in Kinds : PendingIn(tasks', k) = PendingIn(tasks, k) \ {a}
  BY TailTask DEF TypeOK, TaskRec, TaskInv, RunTask

LEMMA Requeue ==
    ASSUME TypeOK, TaskInv, NEW kind \in Kinds, NEW a \in Attempts, RunTask(Task(kind, a)),
           NEW next \in Kinds, tasks' = Append(Tail(tasks), Task(next, a))
    PROVE  /\ OneTaskIn(tasks')
           /\ QueuedIn(tasks') = QueuedIn(tasks)
           /\ a \in QueuedIn(tasks) /\ a \in PendingIn(tasks, kind)
           /\ \A k \in Kinds : PendingIn(tasks', k)
                                 = (PendingIn(tasks, k) \ {a}) \cup (IF k = next THEN {a} ELSE {})
<1> DEFINE t == Tail(tasks)
<1>1. /\ t \in Seq(TaskRec)
      /\ tasks \in Seq(TaskRec) /\ tasks # <<>> /\ Head(tasks) = Task(kind, a)
      /\ OneTaskIn(tasks)
  BY TailType DEF TypeOK, TaskRec, TaskInv, RunTask
<1>2. /\ OneTaskIn(t)
      /\ QueuedIn(t) = QueuedIn(tasks) \ {a}
      /\ \A k \in Kinds : PendingIn(t, k) = PendingIn(tasks, k) \ {a}
  BY <1>1, TailTask
<1>3. a \in QueuedIn(tasks) /\ a \in PendingIn(tasks, kind)
  BY <1>1, TailTask
<1> DEFINE p == Append(t, Task(next, a))
<1>4. p = tasks'
  OBVIOUS
<1> HIDE DEF t
<1>5. /\ OneTaskIn(p)
      /\ QueuedIn(p) = QueuedIn(t) \cup {a}
      /\ \A k \in Kinds : PendingIn(p, k) = PendingIn(t, k) \cup (IF k = next THEN {a} ELSE {})
  BY <1>1, <1>2, AppendTask
<1> HIDE DEF p
<1>6. QueuedIn(p) = QueuedIn(tasks)
  BY <1>2, <1>3, <1>5
<1>7. \A k \in Kinds : PendingIn(p, k)
         = (PendingIn(tasks, k) \ {a}) \cup (IF k = next THEN {a} ELSE {})
  BY <1>2, <1>5
<1> QED
  BY <1>3, <1>4, <1>5, <1>6, <1>7, Zenon
--------------------------------------------------------------------------------
DescInv == HeldInv /\ TaskInv /\ KernelInv

LEMMA DescTypes ==
    ASSUME DescInv
    PROVE  /\ TypeOK /\ TaskInv /\ OneAttempt
           /\ QueuedIn(tasks) \subseteq tried /\ tried \subseteq Attempts
           /\ None \notin Attempts /\ None \notin QueuedIn(tasks)
           /\ tasks \in Seq(TaskRec)
           /\ \A k : PendingIn(tasks, k) \subseteq QueuedIn(tasks)
  BY ConnectionAssumption, PendingQueued DEF DescInv, HeldInv, TaskInv, TypeOK, TaskRec

LEMMA TaskNext == DescInv /\ [Next]_vars => TaskInv'
<1> SUFFICES ASSUME DescInv, [Next]_vars PROVE TaskInv'
  OBVIOUS
<1>0. /\ TypeOK /\ TaskInv /\ OneAttempt
      /\ QueuedIn(tasks) \subseteq tried /\ tried \subseteq Attempts
      /\ None \notin Attempts /\ None \notin QueuedIn(tasks)
      /\ tasks \in Seq(TaskRec)
      /\ \A k : PendingIn(tasks, k) \subseteq QueuedIn(tasks)
  BY DescTypes
<1> USE DEF socketVars, handlerVars, fdVars, toldVars
<1>t. ASSUME UNCHANGED tasks, tried \subseteq tried',
             sockfd_' \in {sockfd_, None}, strong_sockfd' \in {strong_sockfd, None, sockfd_}
      PROVE  TaskInv'
  BY <1>0, <1>t DEF TaskInv, Held
<1>1. ASSUME NEW a \in Attempts, Connect(a) PROVE TaskInv'
  <2>1. /\ a \notin QueuedIn(tasks) /\ OneTaskIn(tasks)
        /\ tasks' = Append(tasks, Task("hop1", a))
        /\ tried' = tried \cup {a} /\ sockfd_' = None /\ strong_sockfd' = strong_sockfd
    BY <1>0, <1>1 DEF Connect, TaskInv
  <2>2. /\ OneTaskIn(tasks')
        /\ QueuedIn(tasks') = QueuedIn(tasks) \cup {a}
        /\ \A k \in Kinds : PendingIn(tasks', k)
                              = PendingIn(tasks, k) \cup (IF k = "hop1" THEN {a} ELSE {})
    BY <1>0, <2>1, AppendTask DEF Kinds
  <2>3. strong_sockfd # a
    BY <1>0, <1>1, <2>1 DEF Connect, TaskInv, Held
  <2> QED
    BY <1>0, <2>1, <2>2, <2>3 DEF TaskInv, Held, Hops, Kinds
<1>2. CASE Close
  BY <1>2, <1>t DEF Close, ClearSocket
<1>3. CASE Destroy
  BY <1>3, <1>t DEF Destroy, ClearSocket
<1>4. CASE OthersSetErrno
  BY <1>4, <1>t DEF OthersSetErrno
<1>5. ASSUME NEW a \in Attempts, Network(a) PROVE TaskInv'
  BY <1>5, <1>t DEF Network
<1>d. ASSUME NEW kind \in Kinds, NEW a \in Attempts, RunTask(Task(kind, a)),
             tasks' = Tail(tasks), UNCHANGED <<tried, strong_sockfd>>,
             sockfd_' \in {sockfd_, None} \/ (sockfd_' = a /\ kind \in Hops)
      PROVE  TaskInv'
  <2>1. /\ OneTaskIn(tasks')
        /\ QueuedIn(tasks') = QueuedIn(tasks) \ {a}
        /\ a \in QueuedIn(tasks) /\ a \in PendingIn(tasks, kind)
        /\ \A k \in Kinds : PendingIn(tasks', k) = PendingIn(tasks, k) \ {a}
    BY <1>0, <1>d, Dequeue
  <2> QED
    BY <1>0, <1>d, <2>1 DEF TaskInv, Held, Hops, Kinds
<1>6. ASSUME NEW a \in Attempts, Hop1(a) PROVE TaskInv'
  <2>1. PICK next \in Kinds : tasks' = Append(Tail(tasks), Task(next, a))
    BY <1>6 DEF Hop1, Kinds
  <2>2. RunTask(Task("hop1", a)) /\ UNCHANGED <<sockfd_, strong_sockfd, tried>>
    BY <1>6 DEF Hop1
  <2>3. /\ OneTaskIn(tasks')
        /\ QueuedIn(tasks') = QueuedIn(tasks)
        /\ a \in PendingIn(tasks, "hop1")
        /\ \A k \in Kinds : PendingIn(tasks', k)
                              = (PendingIn(tasks, k) \ {a}) \cup (IF k = next THEN {a} ELSE {})
    BY <1>0, <2>1, <2>2, Requeue DEF Kinds
  <2>4. strong_sockfd # a
    BY <1>0, <2>3 DEF TaskInv, Hops
  <2> QED
    BY <1>0, <2>2, <2>3, <2>4 DEF TaskInv, Held, Hops, Kinds
<1>7. ASSUME NEW a \in Attempts, Hop2Drops(a) PROVE TaskInv'
  BY <1>7, <1>d DEF Hop2Drops, Kinds
<1>8. ASSUME NEW a \in Attempts, Hop2Registers(a) PROVE TaskInv'
  BY <1>8, <1>d DEF Hop2Registers, Kinds, Hops
<1>9. ASSUME NEW a \in Attempts, Hop2Fails(a) PROVE TaskInv'
  BY <1>9, <1>d DEF Hop2Fails, ConnectCb, Kinds
<1>10. ASSUME NEW a \in Attempts, Unreachable(a) PROVE TaskInv'
  BY <1>10, <1>d DEF Unreachable, ConnectCb, Kinds
<1>11. ASSUME NEW a \in Attempts, ErrorCb(a) PROVE TaskInv'
  BY <1>11, <1>d DEF ErrorCb, Kinds
<1>12. ASSUME NEW a \in Attempts, Timeout(a) PROVE TaskInv'
  BY <1>12, <1>t DEF Timeout, ConnectCb
<1>13. ASSUME NEW a \in Attempts, WritableEvent(a) PROVE TaskInv'
  BY <1>13, <1>t DEF WritableEvent, ConnectedInError, Connected, ConnectedUnattached, ConnectCb
<1>14. ASSUME NEW a \in Attempts, HandleEvent(a) PROVE TaskInv'
  <2>1. strong_sockfd = None /\ a \in {sockfd_, strong_sockfd}
    BY <1>14, ConnectionAssumption DEF HandleEvent, DescInv, HeldInv, HandlerHolds, OnlyHeldRegistered
  <2> QED
    BY <1>0, <1>14, <2>1, <1>t DEF HandleEvent
<1>15. CASE ReadData \/ ReadCbReturns \/ ReadNothing \/ WriteReturns \/ WriteFlushed
            \/ FlushedCbReturns
  BY <1>15, <1>t DEF ReadData, ReadCbReturns, ReadNothing, WriteReturns, WriteFlushed,
                     FlushedCbReturns, Continue
<1>e. ASSUME EmitError, UNCHANGED tried, pc # "idle",
             strong_sockfd' \in {strong_sockfd, None}
      PROVE  TaskInv'
  <2>1. CASE sockfd_ = None
    BY <1>e, <1>t, <2>1 DEF EmitError
  <2>2. CASE sockfd_ # None
    <3> DEFINE a == sockfd_
    <3>1. /\ a \in Attempts /\ a = strong_sockfd /\ a \in tried
          /\ a \notin QueuedIn(tasks) /\ OneTaskIn(tasks)
          /\ tasks' = Append(tasks, Task("error", a)) /\ sockfd_' = None
      BY <1>e, <2>2, <1>0 DEF EmitError, ClearSocket, OneAttempt, TypeOK, TaskInv, Held
    <3> HIDE DEF a
    <3>2. /\ OneTaskIn(tasks')
          /\ QueuedIn(tasks') = QueuedIn(tasks) \cup {a}
          /\ \A k \in Kinds : PendingIn(tasks', k)
                                = PendingIn(tasks, k) \cup (IF k = "error" THEN {a} ELSE {})
      BY <1>0, <3>1, AppendTask DEF Kinds
    <3>3. \A k \in Hops : PendingIn(tasks', k) = PendingIn(tasks, k)
      BY <3>2 DEF Hops, Kinds
    <3>4. None \notin PendingIn(tasks, "hop1") \cup PendingIn(tasks, "hop2")
                       \cup PendingIn(tasks, "unreachable")
      BY <1>0
    <3> QED
      BY <1>0, <1>e, <3>1, <3>2, <3>3, <3>4 DEF TaskInv, Held, Hops
  <2> QED
    BY <2>1, <2>2
<1>16. CASE ReadFails \/ WriteFails
  BY <1>16, <1>e DEF ReadFails, WriteFails, Continue
<1>17. CASE HandlerReturns
  BY <1>17, <1>e, <1>t DEF HandlerReturns
<1>18. CASE UNCHANGED vars
  BY <1>18, <1>t DEF vars
<1> QED
  BY <1>1, <1>2, <1>3, <1>4, <1>5, <1>6, <1>7, <1>8, <1>9, <1>10, <1>11, <1>12,
     <1>13, <1>14, <1>15, <1>16, <1>17, <1>18
     DEF Next, Tasks, ReadEnds, HandlerSteps
--------------------------------------------------------------------------------
(* The SocketFD objects that a step drops close their descriptors.            *)
LEMMA Released ==
    ASSUME DescInv, Release,
           sockfd_' \in {sockfd_, None}, strong_sockfd' \in {strong_sockfd, None}
    PROVE  \A a \in Attempts :
              IF a \in Held \ Held'
              THEN event_map_'[a] = None /\ kernel'[a] = "closed"
              ELSE event_map_'[a] = event_map_[a] /\ kernel'[a] = kernel[a]
  BY DEF DescInv, HeldInv, TypeOK, KernelInv, Held, Release, ReleaseFrom

LEMMA ReleasedKernel ==
    ASSUME DescInv, Release,
           sockfd_' \in {sockfd_, None}, strong_sockfd' \in {strong_sockfd, None},
           tried \subseteq tried', add_failed' = add_failed,
           PendingIn(tasks', "hop2") = PendingIn(tasks, "hop2"),
           \A a \in Attempts :
              a \in PendingIn(tasks', "hop1") \/ a \in PendingIn(tasks', "unreachable") =>
                 \/ a \notin tried
                 \/ a \in PendingIn(tasks, "hop1")
                 \/ a \in PendingIn(tasks, "unreachable")
    PROVE  KernelInv'
<1>1. \A a \in Attempts :
         IF a \in Held \ Held'
         THEN event_map_'[a] = None /\ kernel'[a] = "closed"
         ELSE event_map_'[a] = event_map_[a] /\ kernel'[a] = kernel[a]
  BY Released
<1>2. Held' \subseteq Held /\ Held \subseteq tried /\ Held \subseteq Attempts
      /\ None \notin Attempts
  BY ConnectionAssumption DEF DescInv, HeldInv, TypeOK, TaskInv, Held
<1>3. \A a \in Held : a \notin PendingIn(tasks, "hop1") /\ a \notin PendingIn(tasks, "hop2")
                       /\ a \notin PendingIn(tasks, "unreachable")
  BY PendingQueued DEF DescInv, TaskInv, Held, Hops
<1>4. ASSUME NEW a \in Attempts
      PROVE  /\ a \notin tried' \/ a \in PendingIn(tasks', "hop1") \cup PendingIn(tasks', "unreachable")
                  => kernel'[a] = "none"
             /\ a \in PendingIn(tasks', "hop2") \/ a \in Held' <=> IsOpen(a)'
             /\ a \in Held' <=> event_map_'[a] # None
             /\ kernel'[a] = "leaked" => a \in add_failed'
  <2>1. CASE a \in Held \ Held'
    <3>1. event_map_'[a] = None /\ kernel'[a] = "closed"
      BY <1>1, <2>1
    <3>2. /\ a \in tried /\ a \notin PendingIn(tasks, "hop1")
          /\ a \notin PendingIn(tasks, "hop2") /\ a \notin PendingIn(tasks, "unreachable")
      BY <1>2, <1>3, <2>1
    <3>3. ~IsOpen(a)'
      BY <3>1 DEF IsOpen, Established
    <3> QED
      BY <2>1, <3>1, <3>2, <3>3
  <2>2. CASE a \notin Held \ Held'
    <3>1. event_map_'[a] = event_map_[a] /\ kernel'[a] = kernel[a]
      BY <1>1, <2>2
    <3>2. IsOpen(a)' <=> IsOpen(a)
      BY <3>1 DEF IsOpen
    <3>3. a \in Held' <=> a \in Held
      BY <1>2, <2>2
    <3> QED
      BY <3>1, <3>2, <3>3 DEF DescInv, KernelInv
  <2> QED
    BY <2>1, <2>2
<1>5. strong_sockfd' # None => event_map_'[strong_sockfd'] = "attached"
  <2>1. strong_sockfd' # None => strong_sockfd' = strong_sockfd /\ strong_sockfd \in Held'
                                 /\ strong_sockfd \in Attempts
    BY <1>2 DEF Held
  <2> QED
    BY <1>1, <2>1 DEF DescInv, KernelInv
<1> QED
  BY <1>4, <1>5 DEF KernelInv

LEMMA KernelNext == DescInv /\ [Next]_vars => KernelInv'
<1> SUFFICES ASSUME DescInv, [Next]_vars PROVE KernelInv'
  OBVIOUS
<1>0. /\ TypeOK /\ TaskInv /\ OneAttempt
      /\ QueuedIn(tasks) \subseteq tried /\ tried \subseteq Attempts
      /\ None \notin Attempts /\ None \notin QueuedIn(tasks)
      /\ tasks \in Seq(TaskRec)
      /\ \A k : PendingIn(tasks, k) \subseteq QueuedIn(tasks)
  BY DescTypes
<1>h. pc = "idle" <=> strong_sockfd = None
  BY DEF DescInv, HeldInv, HandlerHolds
<1> USE DEF socketVars, handlerVars, fdVars, toldVars
<1>u. ASSUME UNCHANGED <<tasks, tried, sockfd_, strong_sockfd, kernel, event_map_, add_failed>>
      PROVE  KernelInv'
  BY <1>u DEF DescInv, KernelInv, Held, IsOpen
<1>r. ASSUME Release, sockfd_' \in {sockfd_, None}, strong_sockfd' \in {strong_sockfd, None},
             UNCHANGED <<tasks, tried, add_failed>>
      PROVE  KernelInv'
  BY <1>r, ReleasedKernel
<1>d. ASSUME NEW kind \in Kinds, NEW a \in Attempts, RunTask(Task(kind, a)),
             tasks' = Tail(tasks)
      PROVE  /\ a \in PendingIn(tasks, kind) /\ a \in QueuedIn(tasks) /\ a \in tried
             /\ \A k \in Kinds : PendingIn(tasks', k) = PendingIn(tasks, k) \ {a}
             /\ \A k \in Kinds : a \in PendingIn(tasks, k) => k = kind
             /\ strong_sockfd = None /\ sockfd_ # a
  <2>1. a \in PendingIn(tasks, kind) /\ a \in QueuedIn(tasks) /\ a \in tried
    BY <1>0, <1>d, Dequeue
  <2>2. \A k \in Kinds : PendingIn(tasks', k) = PendingIn(tasks, k) \ {a}
    BY <1>0, <1>d, Dequeue
  <2>3. \A k \in Kinds : a \in PendingIn(tasks, k) => k = kind
    <3>1. OneTaskIn(tasks)
      BY <1>0 DEF TaskInv
    <3> QED
      BY <2>1, <3>1 DEF PendingIn, OneTaskIn, Task
  <2> QED
    BY <1>0, <1>d, <1>h, <2>1, <2>2, <2>3 DEF RunTask, TaskInv
<1>1. ASSUME NEW a \in Attempts, Connect(a) PROVE KernelInv'
  <2>1. /\ a \notin QueuedIn(tasks) /\ OneTaskIn(tasks) /\ a \notin tried
        /\ tasks' = Append(tasks, Task("hop1", a))
        /\ tried' = tried \cup {a} /\ sockfd_' = None /\ strong_sockfd' = strong_sockfd
        /\ Release /\ add_failed' = add_failed
    BY <1>0, <1>1 DEF Connect, TaskInv, Release
  <2>2. /\ \A k \in Kinds : PendingIn(tasks', k)
                              = PendingIn(tasks, k) \cup (IF k = "hop1" THEN {a} ELSE {})
    BY <1>0, <2>1, AppendTask DEF Kinds
  <2>3. /\ PendingIn(tasks', "hop1") = PendingIn(tasks, "hop1") \cup {a}
        /\ PendingIn(tasks', "hop2") = PendingIn(tasks, "hop2")
        /\ PendingIn(tasks', "unreachable") = PendingIn(tasks, "unreachable")
    BY <2>2 DEF Kinds
  <2> QED
    BY <2>1, <2>3, ReleasedKernel
<1>2. CASE Close
  BY <1>2, <1>r DEF Close, ClearSocket, Release
<1>3. CASE Destroy
  BY <1>3, <1>r DEF Destroy, ClearSocket, Release
<1>4. CASE OthersSetErrno
  BY <1>4, <1>u DEF OthersSetErrno
<1>5. ASSUME NEW a \in Attempts, Network(a) PROVE KernelInv'
  <2>1. PICK s \in {Established, "refused"} : kernel' = [kernel EXCEPT ![a] = s]
    BY <1>5 DEF Network
  <2> QED
    BY <1>5, <2>1, <1>0 DEF Network, DescInv, KernelInv, Held, IsOpen, TypeOK, Established
<1>6. ASSUME NEW a \in Attempts, Hop1(a) PROVE KernelInv'
  <2>1. PICK next \in {"hop2", "unreachable"} :
           /\ tasks' = Append(Tail(tasks), Task(next, a))
           /\ IF next = "hop2"
              THEN \E s \in {"connecting", Established} : kernel' = [kernel EXCEPT ![a] = s]
              ELSE UNCHANGED kernel
    BY <1>6 DEF Hop1
  <2>2. RunTask(Task("hop1", a))
        /\ UNCHANGED <<sockfd_, strong_sockfd, tried, event_map_, add_failed>>
    BY <1>6 DEF Hop1
  <2>3. a \in PendingIn(tasks, "hop1") /\ a \in tried
    BY <1>0, <2>1, <2>2, Requeue DEF Kinds
  <2>4. \A k \in Kinds : PendingIn(tasks', k)
                          = (PendingIn(tasks, k) \ {a}) \cup (IF k = next THEN {a} ELSE {})
    BY <1>0, <2>1, <2>2, Requeue DEF Kinds
  <2>5. a \notin Held /\ kernel[a] = "none" /\ Held' = Held
    <3>1. sockfd_ # a /\ strong_sockfd # a
      BY <1>0, <2>3 DEF TaskInv, Hops
    <3>2. kernel[a] = "none"
      BY <2>3 DEF DescInv, KernelInv
    <3> QED
      BY <2>2, <3>1, <3>2 DEF Held
  <2>6. CASE next = "hop2"
    <3>1. /\ PendingIn(tasks', "hop1") = PendingIn(tasks, "hop1") \ {a}
          /\ PendingIn(tasks', "hop2") = PendingIn(tasks, "hop2") \cup {a}
          /\ PendingIn(tasks', "unreachable") = PendingIn(tasks, "unreachable") \ {a}
      BY <2>4, <2>6 DEF Kinds
    <3>2. PICK s \in {"connecting", Established} : kernel' = [kernel EXCEPT ![a] = s]
      BY <2>1, <2>6
    <3> QED
      BY <2>2, <2>3, <2>5, <3>1, <3>2, <1>0 DEF DescInv, KernelInv, IsOpen, TypeOK, Established
  <2>7. CASE next = "unreachable"
    <3>1. /\ PendingIn(tasks', "hop1") = PendingIn(tasks, "hop1") \ {a}
          /\ PendingIn(tasks', "hop2") = PendingIn(tasks, "hop2") \ {a}
          /\ PendingIn(tasks', "unreachable") = PendingIn(tasks, "unreachable") \cup {a}
      BY <2>4, <2>7 DEF Kinds
    <3>2. kernel' = kernel
      BY <2>1, <2>7
    <3> QED
      BY <2>2, <2>3, <2>5, <3>1, <3>2, <1>0 DEF DescInv, KernelInv, IsOpen, TypeOK, Established
  <2> QED
    BY <2>6, <2>7
<1>7. ASSUME NEW a \in Attempts, Hop2Drops(a) PROVE KernelInv'
  <2>1. /\ RunTask(Task("hop2", a)) /\ tasks' = Tail(tasks)
        /\ kernel' = [kernel EXCEPT ![a] = "closed"]
        /\ UNCHANGED <<sockfd_, strong_sockfd, tried, event_map_, add_failed>>
    BY <1>7 DEF Hop2Drops
  <2> QED
    BY <1>0, <2>1, <1>d DEF DescInv, KernelInv, Held, IsOpen, TypeOK, Kinds, Established
<1>8. ASSUME NEW a \in Attempts, Hop2Registers(a) PROVE KernelInv'
  <2>1. /\ RunTask(Task("hop2", a)) /\ tasks' = Tail(tasks)
        /\ sockfd_' = a /\ async_connect_cb_ = a
        /\ UNCHANGED <<strong_sockfd, tried, add_failed>>
        /\ ReleaseFrom([event_map_ EXCEPT ![a] = "on_connected"], {sockfd_})
    BY <1>8 DEF Hop2Registers
  <2>2. /\ a \in PendingIn(tasks, "hop2") /\ a \in QueuedIn(tasks) /\ a \in tried
        /\ \A k \in Kinds : PendingIn(tasks', k) = PendingIn(tasks, k) \ {a}
        /\ \A k \in Kinds : a \in PendingIn(tasks, k) => k = "hop2"
        /\ strong_sockfd = None /\ sockfd_ # a
    BY <2>1, <1>d DEF Kinds
  <2>3. sockfd_ = None
    BY <1>0, <2>1, <2>2 DEF OneAttempt
  <2>4. Held = {} /\ Held' = {a}
    BY <1>0, <2>1, <2>2, <2>3 DEF Held
  <2>5. \A b \in Attempts :
           /\ event_map_'[b] = IF b = a THEN "on_connected" ELSE event_map_[b]
           /\ kernel'[b] = kernel[b]
    BY <1>0, <2>1, <2>3 DEF ReleaseFrom, TypeOK
  <2>6. /\ PendingIn(tasks', "hop1") = PendingIn(tasks, "hop1") \ {a}
        /\ PendingIn(tasks', "hop2") = PendingIn(tasks, "hop2") \ {a}
        /\ PendingIn(tasks', "unreachable") = PendingIn(tasks, "unreachable") \ {a}
    BY <2>2 DEF Kinds
  <2>7. \A b \in Attempts : IsOpen(b)' <=> IsOpen(b)
    BY <2>5 DEF IsOpen
  <2> QED
    BY <1>0, <2>1, <2>2, <2>4, <2>5, <2>6, <2>7, ConnectionAssumption DEF DescInv, KernelInv
<1>9. ASSUME NEW a \in Attempts, Hop2Fails(a) PROVE KernelInv'
  <2>1. /\ RunTask(Task("hop2", a)) /\ tasks' = Tail(tasks)
        /\ sockfd_' = None /\ async_connect_cb_ = a /\ add_failed' = add_failed \cup {a}
        /\ UNCHANGED <<strong_sockfd, tried>>
        /\ ReleaseFrom(event_map_, {sockfd_, a})
    BY <1>9 DEF Hop2Fails, ConnectCb
  <2>2. /\ a \in PendingIn(tasks, "hop2") /\ a \in QueuedIn(tasks) /\ a \in tried
        /\ \A k \in Kinds : PendingIn(tasks', k) = PendingIn(tasks, k) \ {a}
        /\ \A k \in Kinds : a \in PendingIn(tasks, k) => k = "hop2"
        /\ strong_sockfd = None /\ sockfd_ # a
    BY <2>1, <1>d DEF Kinds
  <2>3. sockfd_ = None
    BY <1>0, <2>1, <2>2 DEF OneAttempt
  <2>4. Held = {} /\ Held' = {}
    BY <1>0, <2>1, <2>2, <2>3 DEF Held
  <2>5. event_map_[a] = None
    BY <2>4 DEF DescInv, KernelInv
  <2>6. \A b \in Attempts : /\ event_map_'[b] = event_map_[b]
                            /\ kernel'[b] = IF b = a THEN "leaked" ELSE kernel[b]
    BY <1>0, <2>1, <2>2, <2>3, <2>5 DEF ReleaseFrom, TypeOK
  <2> QED
    BY <1>0, <2>1, <2>2, <2>4, <2>6 DEF DescInv, KernelInv, IsOpen, TypeOK, Kinds, Established
<1>10. ASSUME NEW a \in Attempts, Unreachable(a) PROVE KernelInv'
  <2>1. RunTask(Task("unreachable", a)) /\ tasks' = Tail(tasks)
        /\ UNCHANGED <<strong_sockfd, tried, add_failed>>
    BY <1>10 DEF Unreachable, ConnectCb, Release
  <2>2. /\ PendingIn(tasks', "hop1") \subseteq PendingIn(tasks, "hop1")
        /\ PendingIn(tasks', "hop2") = PendingIn(tasks, "hop2")
        /\ PendingIn(tasks', "unreachable") \subseteq PendingIn(tasks, "unreachable")
    BY <2>1, <1>d DEF Kinds
  <2>3. CASE async_connect_cb_ = a
    BY <1>10, <2>1, <2>2, <2>3, ReleasedKernel DEF Unreachable
  <2>4. CASE async_connect_cb_ # a
    <3>1. UNCHANGED <<sockfd_, kernel, event_map_>>
      BY <1>10, <2>4 DEF Unreachable
    <3>2. Held' = Held /\ \A b : IsOpen(b)' <=> IsOpen(b)
      BY <2>1, <3>1 DEF Held, IsOpen
    <3> QED
      BY <2>1, <2>2, <3>1, <3>2 DEF DescInv, KernelInv
  <2> QED
    BY <2>3, <2>4
<1>11. ASSUME NEW a \in Attempts, ErrorCb(a) PROVE KernelInv'
  <2>1. RunTask(Task("error", a)) /\ tasks' = Tail(tasks)
        /\ UNCHANGED <<sockfd_, strong_sockfd, tried, kernel, event_map_, add_failed>>
    BY <1>11 DEF ErrorCb
  <2>2. /\ \A k \in Kinds : PendingIn(tasks', k) = PendingIn(tasks, k) \ {a}
        /\ \A k \in Kinds : a \in PendingIn(tasks, k) => k = "error"
    BY <2>1, <1>d DEF Kinds
  <2>3. \A k \in Hops : PendingIn(tasks', k) = PendingIn(tasks, k)
    BY <2>2 DEF Kinds, Hops
  <2> QED
    BY <2>1, <2>3 DEF DescInv, KernelInv, Held, IsOpen, Hops
<1>12. ASSUME NEW a \in Attempts, Timeout(a) PROVE KernelInv'
  BY <1>12, <1>r DEF Timeout, ConnectCb, Release
<1>13. ASSUME NEW a \in Attempts, ConnectedInError(a) PROVE KernelInv'
  BY <1>13, <1>r DEF ConnectedInError, ConnectCb, Release
<1>14. ASSUME NEW a \in Attempts, Connected(a) PROVE KernelInv'
  <2>1. /\ event_map_' = [event_map_ EXCEPT ![a] = "attached"] /\ event_map_[a] # None
        /\ UNCHANGED <<tasks, tried, sockfd_, strong_sockfd, kernel, add_failed>>
    BY <1>14, ConnectionAssumption DEF Connected, Writable, ConnectCb
  <2>2. /\ \A b \in Attempts : event_map_'[b] # None <=> event_map_[b] # None
        /\ \A b \in Attempts : event_map_[b] = "attached" => event_map_'[b] = "attached"
    BY <2>1, <1>0, ConnectionAssumption DEF TypeOK
  <2> QED
    BY <1>0, <2>1, <2>2 DEF DescInv, KernelInv, Held, IsOpen, TypeOK
<1>15. ASSUME NEW a \in Attempts, ConnectedUnattached(a) PROVE KernelInv'
  <2>1. /\ sockfd_' = None /\ add_failed' = add_failed \cup {a}
        /\ UNCHANGED <<tasks, tried, strong_sockfd>>
        /\ pc = "idle" /\ event_map_[a] # None
        /\ ReleaseFrom([event_map_ EXCEPT ![a] = None], {sockfd_})
    BY <1>15, ConnectionAssumption DEF ConnectedUnattached, ConnectCb, Writable
  <2>2. strong_sockfd = None /\ sockfd_ = a /\ Held = {a} /\ Held' = {}
    BY <1>0, <1>h, <2>1 DEF DescInv, KernelInv, Held
  <2>3. \A b \in Attempts : /\ event_map_'[b] = IF b = a THEN None ELSE event_map_[b]
                            /\ kernel'[b] = IF b = a THEN "leaked" ELSE kernel[b]
    BY <1>0, <2>1, <2>2 DEF ReleaseFrom, TypeOK
  <2>4. a \in tried /\ a \notin QueuedIn(tasks)
    BY <1>0, <2>2 DEF TaskInv
  <2> QED
    BY <1>0, <2>1, <2>2, <2>3, <2>4 DEF DescInv, KernelInv, IsOpen, TypeOK, Established
<1>16. ASSUME NEW a \in Attempts, HandleEvent(a) PROVE KernelInv'
  <2>1. /\ strong_sockfd' = a /\ event_map_[a] = "attached" /\ event_map_[a] # None /\ pc = "idle"
        /\ UNCHANGED <<tasks, tried, sockfd_, kernel, event_map_, add_failed>>
    BY <1>16, ConnectionAssumption DEF HandleEvent
  <2>2. Held' = Held
    BY <1>h, <2>1 DEF DescInv, KernelInv, Held
  <2> QED
    BY <2>1, <2>2 DEF DescInv, KernelInv, IsOpen
<1>17. CASE ReadData \/ ReadCbReturns \/ ReadNothing \/ WriteReturns \/ WriteFlushed
            \/ FlushedCbReturns
  BY <1>17, <1>u DEF ReadData, ReadCbReturns, ReadNothing, WriteReturns, WriteFlushed,
                     FlushedCbReturns, Continue
<1>e. ASSUME EmitError, Release, UNCHANGED tried, pc # "idle",
             strong_sockfd' \in {strong_sockfd, None}
      PROVE  KernelInv'
  <2>1. CASE sockfd_ = None
    BY <1>e, <1>r, <2>1 DEF EmitError, Release
  <2>2. CASE sockfd_ # None
    <3> DEFINE a == sockfd_
    <3>1. /\ a \in Attempts
          /\ a \notin QueuedIn(tasks) /\ OneTaskIn(tasks)
          /\ tasks' = Append(tasks, Task("error", a)) /\ sockfd_' = None
      BY <1>e, <2>2, <1>0 DEF EmitError, ClearSocket, TypeOK, TaskInv
    <3> HIDE DEF a
    <3>2. \A k \in Kinds : PendingIn(tasks', k)
                            = PendingIn(tasks, k) \cup (IF k = "error" THEN {a} ELSE {})
      BY <1>0, <3>1, AppendTask DEF Kinds
    <3>3. \A k \in Hops : PendingIn(tasks', k) = PendingIn(tasks, k)
      BY <3>2 DEF Hops, Kinds
    <3> QED
      BY <1>e, <3>1, <3>3, ReleasedKernel DEF Hops, Release
  <2> QED
    BY <2>1, <2>2
<1>18. CASE ReadFails \/ WriteFails
  BY <1>18, <1>e DEF ReadFails, WriteFails, Continue
<1>19. CASE HandlerReturns
  BY <1>19, <1>e, <1>r DEF HandlerReturns, Release
<1>20. CASE UNCHANGED vars
  BY <1>20, <1>u DEF vars
<1> QED
  BY <1>1, <1>2, <1>3, <1>4, <1>5, <1>6, <1>7, <1>8, <1>9, <1>10, <1>11, <1>12,
     <1>13, <1>14, <1>15, <1>16, <1>17, <1>18, <1>19, <1>20
     DEF Next, Tasks, WritableEvent, ReadEnds, HandlerSteps

LEMMA DescAlways == Spec => []DescInv
<1>1. Init => DescInv
  <2> SUFFICES ASSUME Init PROVE TaskInv /\ KernelInv
    BY HeldInit DEF DescInv
  <2>1. QueuedIn(tasks) = {} /\ \A k : PendingIn(tasks, k) = {}
    BY DEF Init, QueuedIn, PendingIn
  <2>2. Held = {}
    BY DEF Init, Held
  <2> QED
    BY <2>1, <2>2 DEF Init, TaskInv, KernelInv, OneTaskIn, IsOpen, Established
<1>2. DescInv /\ [Next]_vars => DescInv'
  BY HeldNext, TaskNext, KernelNext DEF DescInv
<1> QED
  BY <1>1, <1>2, PTL DEF Spec

(* No descriptor is lost or closed twice, whatever Close, Connect again, the  *)
(* timer and a failing AddEvent do between the hops of Connect: ~SocketFD and *)
(* CLOSE_SOCKET leave open only those whose registration failed.              *)
THEOREM DescriptorsCorrect == Spec => []DescriptorsHeld
<1>1. DescInv => DescriptorsHeld
  <2> SUFFICES ASSUME DescInv PROVE DescriptorsHeld
    OBVIOUS
  <2>1. \A a \in Attempts : a \in Open <=> IsOpen(a)
    BY DEF Open, IsOpen
  <2>2. \A a \in Attempts : a \in {sockfd_, strong_sockfd} <=> a \in Held
    BY ConnectionAssumption DEF Held
  <2>3. Pending("hop2") = PendingIn(tasks, "hop2") /\ Open \subseteq Attempts
    BY PendingDef DEF Open
  <2>4. \A a \in Held : a \notin PendingIn(tasks, "hop2")
    BY PendingQueued DEF DescInv, TaskInv, Held, Hops
  <2> QED
    BY <2>1, <2>2, <2>3, <2>4 DEF DescriptorsHeld, DescInv, KernelInv
<1> QED
  BY <1>1, DescAlways, PTL
--------------------------------------------------------------------------------
(* What Connector sees of a Socket.                                           *)
Current == IF connect_timer_ # None THEN connect_timer_ ELSE sockfd_
IsConnected == connect_timer_ = None /\ sockfd_ # None
ErrorsOwed == IF alive THEN Pending("error") ELSE {}

(* Once the Socket is gone, none of its fields comes back.                    *)
GoneForGood == ~alive => connect_timer_ = None /\ sockfd_ = None

LEMMA GoneNext == DescInv /\ GoneForGood /\ [Next]_vars => GoneForGood'
<1> SUFFICES ASSUME DescInv, GoneForGood, [Next]_vars, ~alive'
             PROVE  connect_timer_' = None /\ sockfd_' = None
  BY DEF GoneForGood
<1>1. async_connect_cb_ = connect_timer_ /\ None \notin Attempts
  BY ConnectionAssumption DEF DescInv, HeldInv, OneAttempt
<1> USE DEF GoneForGood, socketVars, handlerVars, fdVars, toldVars
<1>2. ASSUME NEW a \in Attempts, Connect(a) PROVE FALSE
  BY <1>2 DEF Connect, UserRuns
<1>3. CASE Close \/ Destroy
  BY <1>3 DEF Close, Destroy, ClearSocket
<1>4. CASE OthersSetErrno \/ ReadData
  BY <1>4 DEF OthersSetErrno, ReadData, Continue
<1>5. ASSUME NEW a \in Attempts, Network(a) \/ Tasks(a) \/ Timeout(a)
      PROVE  connect_timer_' = None /\ sockfd_' = None
  BY <1>1, <1>5 DEF Network, Tasks, Hop1, Hop2Drops, Hop2Registers, Hop2Fails, Unreachable,
                    ErrorCb, ConnectCb, Timeout
<1>6. ASSUME NEW a \in Attempts, WritableEvent(a) \/ HandleEvent(a)
      PROVE  connect_timer_' = None /\ sockfd_' = None
  BY <1>6 DEF WritableEvent, ConnectedInError, Connected, ConnectedUnattached, ConnectCb,
              HandleEvent
<1>7. CASE ReadEnds \/ HandlerSteps
  BY <1>7 DEF ReadEnds, HandlerSteps, ReadNothing, ReadFails, ReadCbReturns, WriteReturns,
              WriteFlushed, FlushedCbReturns, WriteFails, HandlerReturns, EmitError,
              ClearSocket, Continue
<1>8. CASE UNCHANGED vars
  BY <1>8 DEF vars
<1> QED
  BY <1>2, <1>3, <1>4, <1>5, <1>6, <1>7, <1>8 DEF Next

(* A step of Connection that ends the attempt the socket is at.               *)
LEMMA StepReports ==
    ASSUME TypeOK, OneAttempt, NEW a \in Attempts, NEW code \in Codes,
           code # "ERR_SUCCESS", ConnectCb(a, code), connect_timer_ = a, sockfd_' = None,
           Pending("error")' = Pending("error")
    PROVE  Promise!Report(code)
<1>1. /\ Current = a /\ ~IsConnected /\ a # None
      /\ Current' = None /\ ~IsConnected' /\ ErrorsOwed' = ErrorsOwed
      /\ reports' = Append(reports, [attempt |-> Current, code |-> code])
      /\ UNCHANGED <<tried, errors>>
  BY ConnectionAssumption DEF ConnectCb, Current, IsConnected, ErrorsOwed
<1> QED
  BY <1>1 DEF Promise!Report, Current, IsConnected, ErrorsOwed

LEMMA StepImplements ==
    DescInv /\ GoneForGood /\ [Next]_vars => [Promise!Next]_(Promise!vars)
<1> DEFINE Stutter == UNCHANGED <<Current, IsConnected, ErrorsOwed, tried, reports, errors>>
<1> SUFFICES ASSUME DescInv, GoneForGood, [Next]_vars PROVE Promise!Next \/ Stutter
  BY DEF Promise!vars, Current, IsConnected, ErrorsOwed
<1>0. /\ TypeOK /\ TaskInv /\ OneAttempt
      /\ QueuedIn(tasks) \subseteq tried /\ tried \subseteq Attempts
      /\ None \notin Attempts /\ None \notin QueuedIn(tasks)
      /\ tasks \in Seq(TaskRec)
      /\ \A k : PendingIn(tasks, k) \subseteq QueuedIn(tasks)
  BY DescTypes
<1> USE DEF socketVars, handlerVars, fdVars, toldVars
<1>p. Pending("error") = PendingIn(tasks, "error")
      /\ Pending("error")' = PendingIn(tasks', "error")
  BY DEF Pending, PendingIn
<1>k. ASSUME UNCHANGED tasks PROVE Pending("error")' = Pending("error")
  BY <1>k, <1>p
<1>d. ASSUME NEW kind \in Hops, NEW a \in Attempts, RunTask(Task(kind, a)),
             tasks' = Tail(tasks)
      PROVE  Pending("error")' = Pending("error")
  <2>1. /\ OneTaskIn(tasks) /\ kind \in Kinds /\ a \in PendingIn(tasks, kind)
        /\ PendingIn(tasks', "error") = PendingIn(tasks, "error") \ {a}
    BY <1>0, <1>d, Dequeue DEF TaskInv, Kinds, Hops
  <2>2. a \notin PendingIn(tasks, "error")
    BY <1>d, <2>1 DEF PendingIn, OneTaskIn, Task, Hops
  <2> QED
    BY <1>p, <2>1, <2>2
<1>1. ASSUME NEW a \in Attempts, Connect(a) PROVE Promise!Next
  <2>1. /\ a \notin tried /\ tried' = tried \cup {a} /\ connect_timer_' = a
        /\ UNCHANGED <<alive, reports, errors>>
    BY <1>1 DEF Connect
  <2>2. Pending("error")' = Pending("error")
    <3>1. a \notin QueuedIn(tasks) /\ OneTaskIn(tasks) /\ tasks' = Append(tasks, Task("hop1", a))
      BY <1>0, <1>1 DEF Connect, TaskInv
    <3>2. \A k \in Kinds : PendingIn(tasks', k)
                            = PendingIn(tasks, k) \cup (IF k = "hop1" THEN {a} ELSE {})
      BY <1>0, <3>1, AppendTask DEF Kinds
    <3> QED
      BY <1>p, <3>2 DEF Kinds
  <2>3. Current' = a /\ ~IsConnected' /\ ErrorsOwed' = ErrorsOwed
    BY <1>0, <2>1, <2>2 DEF Current, IsConnected, ErrorsOwed
  <2>4. Promise!Connect(a)
    BY <2>1, <2>3 DEF Promise!Connect, Current, IsConnected, ErrorsOwed
  <2> QED
    BY <2>4 DEF Promise!Next
<1>2. CASE Close \/ Destroy
  <2>1. /\ connect_timer_' = None /\ sockfd_' = None /\ UNCHANGED <<tasks, tried, reports, errors>>
        /\ ~alive' \/ alive' = alive
    BY <1>2 DEF Close, Destroy, ClearSocket
  <2>2. Current' = None /\ IsConnected' = FALSE
    BY <2>1 DEF Current, IsConnected
  <2>4. ErrorsOwed' \in {ErrorsOwed, {}}
    BY <1>k, <2>1 DEF ErrorsOwed
  <2>3. Promise!Close
    BY <2>1, <2>2, <2>4 DEF Promise!Close, Current, IsConnected, ErrorsOwed
  <2> QED
    BY <2>3 DEF Promise!Next
<1>u. ASSUME UNCHANGED <<alive, connect_timer_, sockfd_, tried, reports, errors>>,
             Pending("error")' = Pending("error")
      PROVE  Stutter
  BY <1>u DEF Current, IsConnected, ErrorsOwed
<1>4. CASE OthersSetErrno
  BY <1>4, <1>u, <1>k DEF OthersSetErrno
<1>5. ASSUME NEW a \in Attempts, Network(a) \/ HandleEvent(a) PROVE Stutter
  BY <1>5, <1>u, <1>k DEF Network, HandleEvent
<1>6. ASSUME NEW a \in Attempts, Hop1(a) PROVE Stutter
  <2>1. PICK next \in {"hop2", "unreachable"} : tasks' = Append(Tail(tasks), Task(next, a))
    BY <1>6 DEF Hop1
  <2>2. RunTask(Task("hop1", a)) /\ OneTaskIn(tasks)
    BY <1>0, <1>6 DEF Hop1, TaskInv
  <2>3. a \in PendingIn(tasks, "hop1")
        /\ \A k \in Kinds : PendingIn(tasks', k)
                = (PendingIn(tasks, k) \ {a}) \cup (IF k = next THEN {a} ELSE {})
    BY <1>0, <2>1, <2>2, Requeue DEF Kinds
  <2>4. a \notin PendingIn(tasks, "error")
    BY <2>2, <2>3 DEF PendingIn, OneTaskIn, Task
  <2>5. Pending("error")' = Pending("error")
    BY <1>p, <2>3, <2>4 DEF Kinds
  <2> QED
    BY <1>6, <2>5, <1>u DEF Hop1
<1>7. ASSUME NEW a \in Attempts, Hop2Drops(a) PROVE Stutter
  BY <1>7, <1>d, <1>u DEF Hop2Drops, Hops
<1>8. ASSUME NEW a \in Attempts, Hop2Registers(a) PROVE Stutter
  <2>1. Pending("error")' = Pending("error")
    BY <1>8, <1>d DEF Hop2Registers, Hops
  <2>2. /\ connect_timer_ = a /\ sockfd_' = a
        /\ UNCHANGED <<alive, connect_timer_, tried, reports, errors>>
    BY <1>8, <1>0 DEF Hop2Registers, OneAttempt
  <2> QED
    BY <1>0, <2>1, <2>2 DEF Current, IsConnected, ErrorsOwed
<1>9. ASSUME NEW a \in Attempts, Hop2Fails(a) PROVE Promise!Next
  <2>1. Pending("error")' = Pending("error")
    BY <1>9, <1>d DEF Hop2Fails, Hops
  <2>2. /\ connect_timer_ = a /\ sockfd_' = None /\ ConnectCb(a, "ERR_OTHER")
    BY <1>9, <1>0 DEF Hop2Fails, OneAttempt
  <2>3. Promise!Report("ERR_OTHER")
    BY <1>0, <2>1, <2>2, StepReports DEF Codes
  <2> QED
    BY <2>3 DEF Promise!Next, Codes
<1>10. ASSUME NEW a \in Attempts, Unreachable(a) PROVE Promise!Next \/ Stutter
  <2>1. Pending("error")' = Pending("error")
    BY <1>10, <1>d DEF Unreachable, Hops
  <2>2. CASE async_connect_cb_ = a
    <3>1. connect_timer_ = a /\ sockfd_' = None /\ ConnectCb(a, "ERR_UNREACHABLE")
      BY <1>10, <1>0, <2>2 DEF Unreachable, OneAttempt
    <3>2. Promise!Report("ERR_UNREACHABLE")
      BY <1>0, <2>1, <3>1, StepReports DEF Codes
    <3> QED
      BY <3>2 DEF Promise!Next, Codes
  <2>3. CASE async_connect_cb_ # a
    BY <1>10, <2>1, <2>3, <1>u DEF Unreachable
  <2> QED
    BY <2>2, <2>3
<1>11. ASSUME NEW a \in Attempts, ErrorCb(a) PROVE Promise!Next \/ Stutter
  <2>1. /\ a \in Pending("error") /\ Pending("error")' = Pending("error") \ {a}
    BY <1>0, <1>11, <1>p, Dequeue DEF ErrorCb, Kinds
  <2>2. /\ errors' = IF alive THEN Append(errors, a) ELSE errors
        /\ UNCHANGED <<alive, connect_timer_, sockfd_, tried, reports>>
    BY <1>11 DEF ErrorCb
  <2>3. CASE alive
    <3>1. a \in ErrorsOwed /\ ErrorsOwed' = ErrorsOwed \ {a}
          /\ UNCHANGED <<Current, IsConnected>>
      BY <2>1, <2>2, <2>3 DEF ErrorsOwed, Current, IsConnected
    <3>2. Promise!ReportError(a)
      BY <2>2, <2>3, <3>1 DEF Promise!ReportError, Current, IsConnected, ErrorsOwed
    <3> QED
      BY <3>2 DEF Promise!Next
  <2>4. CASE ~alive
    BY <2>2, <2>4 DEF Current, IsConnected, ErrorsOwed
  <2> QED
    BY <2>3, <2>4
<1>12. ASSUME NEW a \in Attempts, Timeout(a) PROVE Promise!Next
  <2>1. connect_timer_ = a /\ sockfd_' = None /\ ConnectCb(a, "ERR_TIMEOUT") /\ UNCHANGED tasks
    BY <1>12 DEF Timeout
  <2>2. Promise!Report("ERR_TIMEOUT")
    BY <1>0, <2>1, <1>k, StepReports DEF Codes
  <2> QED
    BY <2>2 DEF Promise!Next, Codes
<1>w. ASSUME NEW a \in Attempts, Writable(a)
      PROVE  sockfd_ = a /\ connect_timer_ = a
  <2>1. pc = "idle" /\ event_map_[a] = "on_connected"
    BY <1>w DEF Writable
  <2>2. sockfd_ = a
    BY <2>1, ConnectionAssumption
    DEF DescInv, HeldInv, HandlerHolds, OnlyHeldRegistered
  <2> QED
    BY <1>0, <2>1, <2>2 DEF OneAttempt
<1>13. ASSUME NEW a \in Attempts, ConnectedInError(a) PROVE Promise!Next
  <2>1. /\ connect_timer_ = a /\ sockfd_' = None /\ ConnectCb(a, SocketError(a))
        /\ UNCHANGED tasks /\ SocketError(a) # "ERR_SUCCESS"
    BY <1>13, <1>w DEF ConnectedInError
  <2>2. SocketError(a) \in Codes
    BY DEF SocketError, Codes
  <2>3. Promise!Report(SocketError(a))
    BY <1>0, <2>1, <2>2, <1>k, StepReports
  <2> QED
    BY <2>2, <2>3 DEF Promise!Next
<1>14. ASSUME NEW a \in Attempts, ConnectedUnattached(a) PROVE Promise!Next
  <2>1. /\ connect_timer_ = a /\ sockfd_' = None /\ ConnectCb(a, "ERR_OTHER")
        /\ UNCHANGED tasks
    BY <1>14, <1>w DEF ConnectedUnattached
  <2>2. Promise!Report("ERR_OTHER")
    BY <1>0, <2>1, <1>k, StepReports DEF Codes
  <2> QED
    BY <2>2 DEF Promise!Next, Codes
<1>15. ASSUME NEW a \in Attempts, Connected(a) PROVE Promise!Next
  <2>1. /\ connect_timer_ = a /\ sockfd_ = a /\ sockfd_' = a /\ a # None
        /\ ConnectCb(a, "ERR_SUCCESS") /\ UNCHANGED tasks
    BY <1>0, <1>15, <1>w DEF Connected
  <2>2. /\ Current = a /\ ~IsConnected /\ Current' = a /\ IsConnected' = TRUE
        /\ ErrorsOwed' = ErrorsOwed
        /\ reports' = Append(reports, [attempt |-> Current, code |-> "ERR_SUCCESS"])
        /\ UNCHANGED <<tried, errors>>
    BY <2>1, <1>k DEF ConnectCb, Current, IsConnected, ErrorsOwed
  <2>3. Promise!Report("ERR_SUCCESS")
    BY <2>1, <2>2 DEF Promise!Report, Current, IsConnected, ErrorsOwed
  <2> QED
    BY <2>3 DEF Promise!Next, Codes
<1>16. CASE ReadData \/ ReadCbReturns \/ ReadNothing \/ WriteReturns \/ WriteFlushed
            \/ FlushedCbReturns
  BY <1>16, <1>u, <1>k DEF ReadData, ReadCbReturns, ReadNothing, WriteReturns, WriteFlushed,
                     FlushedCbReturns, Continue
<1>e. ASSUME EmitError, pc # "idle", UNCHANGED <<alive, tried, reports, errors>>
      PROVE  Promise!Next \/ Stutter
  <2>1. CASE sockfd_ = None
    BY <1>e, <1>u, <1>k, <2>1 DEF EmitError
  <2>2. CASE sockfd_ # None
    <3> DEFINE a == sockfd_
    <3>1. /\ a \in Attempts /\ a = strong_sockfd /\ a # None
          /\ a \notin QueuedIn(tasks) /\ OneTaskIn(tasks)
          /\ tasks' = Append(tasks, Task("error", a)) /\ sockfd_' = None
          /\ connect_timer_' = None
      BY <1>e, <2>2, <1>0 DEF EmitError, ClearSocket, OneAttempt, TypeOK, TaskInv
    <3>2. event_map_[a] = "attached"
      BY <3>1 DEF DescInv, KernelInv
    <3>3. connect_timer_ = None
      BY <1>0, <2>2, <3>2 DEF OneAttempt
    <3>4. alive
      BY <2>2 DEF GoneForGood
    <3>5. Current = a /\ IsConnected /\ Current' = None /\ IsConnected' = FALSE
      BY <2>2, <3>1, <3>3 DEF Current, IsConnected
    <3> HIDE DEF a
    <3>6. \A k \in Kinds : PendingIn(tasks', k)
                            = PendingIn(tasks, k) \cup (IF k = "error" THEN {a} ELSE {})
      BY <1>0, <3>1, AppendTask DEF Kinds
    <3>7. ErrorsOwed' = ErrorsOwed \cup {Current}
      BY <1>e, <1>p, <3>4, <3>5, <3>6 DEF ErrorsOwed, Kinds
    <3>8. Promise!Break
      BY <1>e, <3>5, <3>7 DEF Promise!Break, Current, IsConnected, ErrorsOwed
    <3> QED
      BY <3>8 DEF Promise!Next
  <2> QED
    BY <2>1, <2>2
<1>17. CASE ReadFails \/ WriteFails
  BY <1>17, <1>e DEF ReadFails, WriteFails, Continue
<1>18. CASE HandlerReturns
  BY <1>18, <1>e, <1>u, <1>k DEF HandlerReturns
<1>19. CASE UNCHANGED vars
  BY <1>19, <1>u, <1>k DEF vars
<1> QED
  BY <1>1, <1>2, <1>4, <1>5, <1>6, <1>7, <1>8, <1>9, <1>10, <1>11, <1>12,
     <1>13, <1>14, <1>15, <1>16, <1>17, <1>18, <1>19
     DEF Next, Tasks, WritableEvent, ReadEnds, HandlerSteps

(* The callbacks of Connect and of errors are called as Connector has it, for *)
(* any number of attempts: once each, not after Close or a new Connect, and    *)
(* errors only of connections that were reported (on_connected, emit_error).  *)
THEOREM RefinesConnector == Spec => Promise!Spec
<1>1. Init => Promise!Init
  <2>1. Init => Pending("error") = {}
    BY DEF Init, Pending
  <2> QED
    BY <2>1 DEF Init, Promise!Init
<1>2. Init => GoneForGood
  BY DEF Init, GoneForGood
<1> QED
  BY <1>1, <1>2, DescAlways, GoneNext, StepImplements, PTL DEF Spec, Promise!Spec
================================================================================
