------------------------------ MODULE Connection ------------------------------
(***************************************************************************)
(* A Socket of net/socket.cpp that is connected, closed and connected again,  *)
(* with its SocketFD objects, their entries in event_map_ of the poller, and  *)
(* the tasks of the two hops of Connect and of emit_error.                    *)
(*                                                                            *)
(* The poller is what EventPoller is shown to implement, one queue that is    *)
(* executed in order.  Everything runs on its thread: one step is what runs   *)
(* between two points at which the user has control, that is a whole task or  *)
(* event unless it calls back in the middle.  A callback that a handler makes *)
(* last is a part of the "idle" that follows.                                 *)
(***************************************************************************)
EXTENDS Sequences

CONSTANTS Attempts,  \* calls of Connect, and the descriptors they open
          None

ASSUME ConnectionAssumption == None \notin Attempts \cup {"on_connected", "attached"}

Codes == {"ERR_SUCCESS", "ERR_TIMEOUT", "ERR_REFUESD", "ERR_UNREACHABLE", "ERR_OTHER"}
Errnos == {"EAGAIN", "EINTR", "ECONNRESET"}

VARIABLES alive,             \* the user holds the Socket
          connect_timer_,    \* the attempt it belongs to, or None
          async_connect_cb_,
          sockfd_,           \* the descriptor of the SocketFD, or None
          strong_sockfd,     \* the one that the running event handler holds
          event,             \* the events it was called with
          pc,                \* where in that handler the thread is, or "idle"
          tasks,             \* the queue of the poller
          event_map_,        \* what each descriptor is registered with, or None
          kernel,            \* what became of each descriptor
          add_failed,        \* those of which epoll_ctl refused the registration
          errno,
          tried, reports, errors  \* what the user did and was told

socketVars  == <<connect_timer_, async_connect_cb_, sockfd_>>
handlerVars == <<strong_sockfd, event, pc>>
fdVars      == <<event_map_, kernel, add_failed>>
toldVars    == <<tried, reports, errors>>

vars == <<alive, socketVars, handlerVars, tasks, fdVars, errno, toldVars>>

Task(kind, a) == [kind |-> kind, attempt |-> a]
Kinds == {"hop1", "hop2", "unreachable", "error"}

Pending(kind) == {a \in Attempts : \E i \in DOMAIN tasks : tasks[i] = Task(kind, a)}

Established == "established"
Open == {a \in Attempts : kernel[a] \in {"connecting", Established, "refused"}}
--------------------------------------------------------------------------------
Init == /\ alive = TRUE
        /\ connect_timer_ = None
        /\ async_connect_cb_ = None
        /\ sockfd_ = None
        /\ strong_sockfd = None
        /\ event = {}
        /\ pc = "idle"
        /\ tasks = <<>>
        /\ event_map_ = [a \in Attempts |-> None]
        /\ kernel = [a \in Attempts |-> "none"]
        /\ add_failed = {}
        /\ errno = "EAGAIN"
        /\ tried = {}
        /\ reports = <<>>
        /\ errors = <<>>

(* ~SocketFD of every one that a step leaves without a shared_ptr.  Its        *)
(* DelEvent closes the descriptor from a callback, which is only called for a  *)
(* descriptor that is in event_map_ (here map).                                *)
ReleaseFrom(map, held) ==
    LET dropped == held \ {sockfd_', strong_sockfd', None}
    IN /\ event_map_' = [a \in Attempts |-> IF a \in dropped THEN None ELSE map[a]]
       /\ kernel' = [a \in Attempts |->
                        IF a \notin dropped THEN kernel[a]
                        ELSE IF map[a] = None THEN "leaked" ELSE "closed"]

Release == /\ ReleaseFrom(event_map_, {sockfd_, strong_sockfd})
           /\ UNCHANGED add_failed

ClearSocket == /\ connect_timer_' = None
               /\ async_connect_cb_' = None
               /\ sockfd_' = None

(* connect_cb: it clears the fields of the Socket, whatever they hold.         *)
ConnectCb(a, code) ==
    /\ connect_timer_' = None
    /\ async_connect_cb_' = None
    /\ reports' = Append(reports, [attempt |-> a, code |-> code])
    /\ UNCHANGED <<alive, tried, errors>>
--------------------------------------------------------------------------------
(* The user, in callbacks and between events.                                  *)

UserRuns == alive /\ pc \in {"idle", "read_cb", "flushed_cb"}

Connect(a) == /\ UserRuns
              /\ a \notin tried
              /\ tried' = tried \cup {a}
              /\ connect_timer_' = a
              /\ async_connect_cb_' = a
              /\ sockfd_' = None
              /\ tasks' = Append(tasks, Task("hop1", a))
              /\ UNCHANGED <<alive, handlerVars, errno, reports, errors>>
              /\ Release

(* Mutant: the timer of a pending Connect goes on. *)
CloseKeepsTimer == /\ UserRuns
                   /\ async_connect_cb_' = None
                   /\ sockfd_' = None
                   /\ UNCHANGED <<alive, connect_timer_, handlerVars, tasks, errno,
                                  toldVars>>
                   /\ Release

Close == /\ UserRuns
         /\ ClearSocket
         /\ UNCHANGED <<alive, handlerVars, tasks, errno, toldVars>>
         /\ Release

(* ~Socket.  A running handler holds the Socket: it ends after the handler.    *)
Destroy == /\ alive
           /\ pc = "idle"
           /\ alive' = FALSE
           /\ ClearSocket
           /\ UNCHANGED <<handlerVars, tasks, errno, toldVars>>
           /\ Release

(* epoll_wait that a signal interrupts, other sockets, the user's own calls.   *)
OthersSetErrno == /\ pc \in {"idle", "read_cb", "flushed_cb"}
                  /\ errno' \in Errnos
                  /\ UNCHANGED <<alive, socketVars, handlerVars, tasks, fdVars,
                                 toldVars>>

Network(a) == /\ kernel[a] = "connecting"
              /\ \E s \in {Established, "refused"} : kernel' = [kernel EXCEPT ![a] = s]
              /\ UNCHANGED <<alive, socketVars, handlerVars, tasks, event_map_,
                             add_failed, errno, toldVars>>
--------------------------------------------------------------------------------
(* Tasks and the timer.                                                        *)

RunTask(t) == /\ pc = "idle"
              /\ tasks # <<>>
              /\ t = Head(tasks)

(* SocketUtils::Connect, then the second hop. *)
Hop1(a) ==
    /\ RunTask(Task("hop1", a))
    /\ \/ /\ \E s \in {"connecting", Established} : kernel' = [kernel EXCEPT ![a] = s]
          /\ tasks' = Append(Tail(tasks), Task("hop2", a))
          /\ errno' = "EAGAIN"
       \/ /\ tasks' = Append(Tail(tasks), Task("unreachable", a))
          /\ UNCHANGED <<kernel, errno>>
    /\ UNCHANGED <<alive, socketVars, handlerVars, event_map_, add_failed, toldVars>>

(* Mutant: forgets the descriptor. *)
Hop2DropsAndLeaves(a) ==
    /\ RunTask(Task("hop2", a))
    /\ async_connect_cb_ # a
    /\ tasks' = Tail(tasks)
    /\ UNCHANGED <<alive, socketVars, handlerVars, fdVars, errno, toldVars>>

(* The second hop when async_connect_cb is gone. *)
Hop2Drops(a) ==
    /\ RunTask(Task("hop2", a))
    /\ async_connect_cb_ # a
    /\ kernel' = [kernel EXCEPT ![a] = "closed"]
    /\ tasks' = Tail(tasks)
    /\ UNCHANGED <<alive, socketVars, handlerVars, event_map_, add_failed, errno,
                   toldVars>>

Hop2Registers(a) ==
    /\ RunTask(Task("hop2", a))
    /\ async_connect_cb_ = a
    /\ sockfd_' = a
    /\ tasks' = Tail(tasks)
    /\ UNCHANGED <<alive, connect_timer_, async_connect_cb_, handlerVars, add_failed,
                   errno, toldVars>>
    /\ ReleaseFrom([event_map_ EXCEPT ![a] = "on_connected"], {sockfd_})

(* AddEvent fails. *)
Hop2Fails(a) ==
    /\ RunTask(Task("hop2", a))
    /\ async_connect_cb_ = a
    /\ ConnectCb(a, "ERR_OTHER")
    /\ sockfd_' = None
    /\ add_failed' = add_failed \cup {a}
    /\ tasks' = Tail(tasks)
    /\ UNCHANGED <<handlerVars, errno>>
    /\ ReleaseFrom(event_map_, {sockfd_, a})

(* The second hop of a connect that failed at once. *)
Unreachable(a) ==
    /\ RunTask(Task("unreachable", a))
    /\ tasks' = Tail(tasks)
    /\ UNCHANGED <<handlerVars, errno>>
    /\ IF async_connect_cb_ = a
       THEN /\ ConnectCb(a, "ERR_UNREACHABLE")
            /\ sockfd_' = None
            /\ Release
       ELSE UNCHANGED <<alive, socketVars, fdVars, toldVars>>

(* The task of emit_error. *)
ErrorCb(a) ==
    /\ RunTask(Task("error", a))
    /\ tasks' = Tail(tasks)
    /\ errors' = IF alive THEN Append(errors, a) ELSE errors
    /\ UNCHANGED <<alive, socketVars, handlerVars, fdVars, errno, tried, reports>>

(* The timer is armed in the batch of the first hop, before it.                *)
Timeout(a) == /\ pc = "idle"
              /\ connect_timer_ = a
              /\ a \notin Pending("hop1")
              /\ ConnectCb(a, "ERR_TIMEOUT")
              /\ sockfd_' = None
              /\ UNCHANGED <<handlerVars, tasks, errno>>
              /\ Release
--------------------------------------------------------------------------------
(* on_connected, when the descriptor is writable.                              *)

Writable(a) == /\ pc = "idle"
               /\ event_map_[a] = "on_connected"
               /\ kernel[a] \in {Established, "refused"}

(* get_socket_error: SO_ERROR or, when that is 0, errno. *)
SocketError(a) == IF kernel[a] = "refused" THEN "ERR_REFUESD"
                  ELSE IF errno = "EAGAIN" THEN "ERR_SUCCESS"
                  ELSE "ERR_OTHER"

ConnectedInError(a) == /\ Writable(a)
                       /\ SocketError(a) # "ERR_SUCCESS"
                       /\ ConnectCb(a, SocketError(a))
                       /\ sockfd_' = None
                       /\ UNCHANGED <<handlerVars, tasks, errno>>
                       /\ Release

(* Mutant: the timer goes on. *)
ConnectedKeepsTimer(a) ==
    /\ Writable(a)
    /\ SocketError(a) = "ERR_SUCCESS"
    /\ event_map_' = [event_map_ EXCEPT ![a] = "attached"]
    /\ async_connect_cb_' = None
    /\ reports' = Append(reports, [attempt |-> a, code |-> "ERR_SUCCESS"])
    /\ UNCHANGED <<alive, tried, errors, connect_timer_, sockfd_, handlerVars, tasks,
                   kernel, add_failed, errno>>

Connected(a) == /\ Writable(a)
                /\ SocketError(a) = "ERR_SUCCESS"
                /\ event_map_' = [event_map_ EXCEPT ![a] = "attached"]
                /\ ConnectCb(a, "ERR_SUCCESS")
                /\ UNCHANGED <<sockfd_, handlerVars, tasks, kernel, add_failed, errno>>

(* DelEvent, then attach_event fails. *)
ConnectedUnattached(a) ==
    /\ Writable(a)
    /\ SocketError(a) = "ERR_SUCCESS"
    /\ ConnectCb(a, "ERR_OTHER")
    /\ sockfd_' = None
    /\ add_failed' = add_failed \cup {a}
    /\ UNCHANGED <<handlerVars, tasks, errno>>
    /\ ReleaseFrom([event_map_ EXCEPT ![a] = None], {sockfd_})
--------------------------------------------------------------------------------
(* The event handler of attach_event.                                          *)

(* Mutant: does not look whether the socket is still there. *)
EmitErrorAlways == ClearSocket /\ tasks' = Append(tasks, Task("error", sockfd_))

EmitError == IF sockfd_ = None
             THEN UNCHANGED <<socketVars, tasks>>
             ELSE ClearSocket /\ tasks' = Append(tasks, Task("error", sockfd_))

Continue(label) == /\ pc' = label
                   /\ UNCHANGED <<alive, strong_sockfd, event, toldVars>>

HandleEvent(a) == /\ pc = "idle"
                  /\ event_map_[a] = "attached"
                  /\ strong_sockfd' = a
                  /\ event' \in SUBSET {"read", "write", "error"} \ {{}}
                  /\ pc' = IF "read" \in event' THEN "read" ELSE "write"
                  /\ UNCHANGED <<alive, socketVars, tasks, fdVars, errno, toldVars>>

ReadData == /\ pc = "read"
            /\ Continue("read_cb")
            /\ UNCHANGED <<socketVars, tasks, fdVars, errno>>

ReadCbReturns == /\ pc = "read_cb"
                 /\ Continue("read")
                 /\ UNCHANGED <<socketVars, tasks, fdVars, errno>>

ReadNothing == /\ pc = "read"
               /\ errno' = "EAGAIN"
               /\ Continue("write")
               /\ UNCHANGED <<socketVars, tasks, fdVars>>

(* The end of the stream, or an error. *)
ReadFails == /\ pc = "read"
             /\ EmitError
             /\ errno' \in {errno, "ECONNRESET"}
             /\ Continue("write")
             /\ Release

ShallWrite == sockfd_ # None /\ "write" \in event

(* Nothing to write for on_writeable, or no more after flush_data's. *)
WriteReturns == /\ pc = "write"
                /\ Continue("error")
                /\ UNCHANGED <<socketVars, tasks, fdVars>>
                /\ errno' \in IF ShallWrite THEN {errno, "EAGAIN"} ELSE {errno}

WriteFlushed == /\ pc = "write"
                /\ ShallWrite
                /\ Continue("flushed_cb")
                /\ UNCHANGED <<socketVars, tasks, fdVars, errno>>

FlushedCbReturns == /\ pc = "flushed_cb"
                    /\ Continue("error")
                    /\ UNCHANGED <<socketVars, tasks, fdVars, errno>>

WriteFails == /\ pc = "write"
              /\ ShallWrite
              /\ EmitError
              /\ errno' = "ECONNRESET"
              /\ Continue("error")
              /\ Release

HandlerReturns == /\ pc = "error"
                  /\ IF sockfd_ # None /\ "error" \in event
                     THEN EmitError
                     ELSE UNCHANGED <<socketVars, tasks>>
                  /\ strong_sockfd' = None
                  /\ event' = {}
                  /\ pc' = "idle"
                  /\ Release
                  /\ UNCHANGED <<alive, errno, toldVars>>
--------------------------------------------------------------------------------
Tasks(a) == Hop1(a) \/ Hop2Drops(a) \/ Hop2Registers(a) \/ Hop2Fails(a)
            \/ Unreachable(a) \/ ErrorCb(a)

WritableEvent(a) == ConnectedInError(a) \/ Connected(a) \/ ConnectedUnattached(a)

ReadEnds == ReadNothing \/ ReadFails

HandlerSteps == ReadCbReturns \/ WriteReturns \/ WriteFlushed \/ FlushedCbReturns
                \/ WriteFails \/ HandlerReturns

Next == \/ \E a \in Attempts : \/ Connect(a)
                               \/ Network(a)
                               \/ Tasks(a)
                               \/ Timeout(a)
                               \/ WritableEvent(a)
                               \/ HandleEvent(a)
        \/ Close
        \/ Destroy
        \/ OthersSetErrno
        \/ ReadData
        \/ ReadEnds
        \/ HandlerSteps

Spec == Init /\ [][Next]_vars

(* The poller executes tasks and delay tasks whatever else it has to do       *)
(* (EventPoller), callbacks return, and reads come to an end: on_read itself  *)
(* goes on as long as the peer sends faster.                                  *)
FairSpec == /\ Spec
            /\ SF_vars(\E a \in Attempts : Tasks(a))
            /\ \A a \in Attempts : SF_vars(Timeout(a))
            /\ SF_vars(ReadEnds)
            /\ WF_vars(HandlerSteps)
--------------------------------------------------------------------------------
TypeOK ==
    /\ alive \in BOOLEAN
    /\ connect_timer_ \in Attempts \cup {None}
    /\ async_connect_cb_ \in Attempts \cup {None}
    /\ sockfd_ \in Attempts \cup {None}
    /\ strong_sockfd \in Attempts \cup {None}
    /\ event \in SUBSET {"read", "write", "error"}
    /\ pc \in {"idle", "read", "read_cb", "write", "flushed_cb", "error"}
    /\ tasks \in Seq({Task(kind, a) : kind \in Kinds, a \in Attempts})
    /\ event_map_ \in [Attempts -> {None, "on_connected", "attached"}]
    /\ kernel \in [Attempts -> {"none", "connecting", Established, "refused", "closed",
                                "leaked"}]
    /\ add_failed \in SUBSET Attempts
    /\ errno \in Errnos
    /\ tried \in SUBSET Attempts
    /\ reports \in Seq([attempt : Attempts, code : Codes])
    /\ errors \in Seq(Attempts)

(* Every open descriptor is on its way to the second hop of Connect or has a  *)
(* SocketFD, never both, and only a SocketFD's is registered.  ~SocketFD and  *)
(* CLOSE_SOCKET leave open only those whose registration failed.              *)
DescriptorsHeld ==
    /\ \A a \in Open : a \in Pending("hop2") <=> a \notin {sockfd_, strong_sockfd}
    /\ \A a \in Attempts :
          /\ event_map_[a] # None => a \in Open \cap {sockfd_, strong_sockfd}
          /\ kernel[a] = "leaked" => a \in add_failed

(* The fields of the Socket are those of one attempt, whatever Connect, Close, *)
(* the timer and the events found: an attempt waits with timer and callback,   *)
(* and a socket without them is connected and attached.  A handler acts on its *)
(* own SocketFD or on none.                                                    *)
OneAttempt ==
    /\ async_connect_cb_ = connect_timer_
    /\ sockfd_ # None =>
          /\ connect_timer_ \in {None, sockfd_}
          /\ event_map_[sockfd_] = IF connect_timer_ = None THEN "attached"
                                   ELSE "on_connected"
    /\ pc # "idle" => sockfd_ \in {None, strong_sockfd}

(* Connect's callback and the error callback are called as net/socket.h has    *)
(* it (Connector).                                                             *)
Promise == INSTANCE Connector
           WITH current <- IF connect_timer_ # None THEN connect_timer_ ELSE sockfd_,
                connected <- connect_timer_ = None /\ sockfd_ # None,
                results <- reports,
                owed <- IF alive THEN Pending("error") ELSE {}

ImplementsConnector == Promise!FairSpec

(* src/net/socket.cpp:114: a socket that is writable has been connected.  The  *)
(* callback reports a connection that the kernel established as such, unless   *)
(* it timed out first or could not be registered.                              *)
WritableMeansConnected ==
    [][\A a \in Attempts :
          Writable(a) /\ kernel[a] = Established /\ UNCHANGED add_failed
             => reports' = reports
                  \/ reports'[Len(reports')].code \in {"ERR_SUCCESS", "ERR_TIMEOUT"}]_vars
================================================================================
