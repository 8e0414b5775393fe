------------------------------ MODULE SocketSend ------------------------------
(***************************************************************************)
(* What a Socket sends: Send and its task, send_buf_waiting_,                 *)
(* send_buf_sending_ and flush_data, the flag sending_ and the interest in    *)
(* writable events that is registered with epoll, over one connection after   *)
(* another.                                                                   *)
(*                                                                            *)
(* The user has control whenever pc is "idle".  While data is flushed only    *)
(* the kernel and the peer are active.                                        *)
(***************************************************************************)
EXTENDS BufferList

CONSTANTS MaxSends,        \* bound on the calls of Send
          MaxConnections,  \* bound on the connections of the Socket
          Room,            \* what the kernel buffers of a connection
          None

ASSUME SendAssumption == /\ MaxSends \in Nat
                         /\ Buffers = 1..MaxSends
                         /\ MaxConnections \in Nat
                         /\ Room \in Nat \ {0}
                         /\ None \notin Nat

VARIABLES is_udp,
          sockfd_,              \* the connection, None without a SocketFD
          attached,             \* its event handler is attach_event's
          connections,          \* so far
          sending_,
          send_buf_waiting_,
          send_buf_sending_,
          send_buf_sending_tmp, \* the local of flush_data
          sent,                 \* BufferList::send has sent something
          pc,                   \* "idle", "flush" or "send"
          task_list_,           \* tasks of Send
          swap_list,            \* those of them that on_pipe_event is executing
          turn,                 \* times it took the tasks
          exit_flag_,
          interest,             \* epoll knows EPOLLOUT for the descriptor
          edge,                 \* and will report it
          room,                 \* free in the kernel's buffer
          broken,               \* the connection failed
          sends,                \* calls of Send: the buffers 1..sends
          stream,               \* history: the data the Socket took over
          wire                  \* bytes handed to the kernel

connVars  == <<is_udp, sockfd_, attached, connections>>
bufVars   == <<send_buf_waiting_, send_buf_sending_, send_buf_sending_tmp>>
taskVars  == <<task_list_, swap_list, turn, exit_flag_, sends>>
epollVars == <<interest, edge>>
netVars   == <<room, broken>>

vars == <<connVars, sending_, bufVars, sent, pc, taskVars, epollVars, netVars,
          stream, wire>>

Task(buffer) == [buffer |-> buffer, sockfd |-> sockfd_, turn |-> turn]

Up == sockfd_ # None /\ attached
--------------------------------------------------------------------------------
Init == /\ is_udp \in BOOLEAN
        /\ sockfd_ = None
        /\ attached = FALSE
        /\ connections = 0
        /\ sending_ = TRUE
        /\ send_buf_waiting_ = <<>>
        /\ send_buf_sending_ = <<>>
        /\ send_buf_sending_tmp = <<>>
        /\ sent = FALSE
        /\ pc = "idle"
        /\ task_list_ = <<>>
        /\ swap_list = <<>>
        /\ turn = 0
        /\ exit_flag_ = FALSE
        /\ interest = FALSE
        /\ edge = FALSE
        /\ room = 0
        /\ broken = FALSE
        /\ sends = 0
        /\ stream = <<>>
        /\ wire = <<>>
--------------------------------------------------------------------------------
(* Connections.  They come with the second hop of Connect, with Listen on UDP  *)
(* or accept, and go with Close, from the user or from emit_error.             *)

Register(is_attached) ==
    /\ pc = "idle"
    /\ connections < MaxConnections
    /\ connections' = connections + 1
    /\ sockfd_' = connections'
    /\ attached' = is_attached
    /\ interest' = TRUE
    /\ edge' = is_attached
    /\ room' = Room
    /\ broken' = FALSE
    /\ UNCHANGED <<is_udp, sending_, bufVars, sent, pc, taskVars, stream, wire>>

StartConnect == ~is_udp /\ Register(FALSE)

ListenOrAccept == Register(TRUE)

(* on_connected: DelEvent, then attach_event. *)
Connected == /\ pc = "idle"
             /\ swap_list = <<>>
             /\ sockfd_ # None
             /\ ~attached
             /\ attached' = TRUE
             /\ interest' = TRUE
             /\ edge' = TRUE
             /\ UNCHANGED <<is_udp, sockfd_, connections, sending_, bufVars, sent, pc,
                            taskVars, netVars, stream, wire>>

DropSocketFD == /\ sockfd_' = None
                /\ attached' = FALSE
                /\ interest' = FALSE
                /\ edge' = FALSE
                /\ room' = 0
                /\ broken' = FALSE
                /\ UNCHANGED <<is_udp, connections>>

Close == /\ pc = "idle"
         /\ sockfd_ # None
         /\ DropSocketFD
         /\ UNCHANGED <<sending_, bufVars, sent, pc, taskVars, stream, wire>>
--------------------------------------------------------------------------------
(* Send and its task.                                                          *)

(* Mutant: ahead of the tasks that are being executed. *)
SendIntoBatch == /\ pc = "idle"
                 /\ sockfd_ # None
                 /\ sends + 1 \in Buffers
                 /\ sends' = sends + 1
                 /\ IF swap_list = <<>>
                    THEN /\ task_list_' = <<Task(sends')>> \o task_list_
                         /\ UNCHANGED swap_list
                    ELSE /\ swap_list' = <<Task(sends')>> \o swap_list
                         /\ UNCHANGED task_list_
                 /\ UNCHANGED <<connVars, sending_, bufVars, sent, pc, turn, exit_flag_,
                                epollVars, netVars, stream, wire>>

Send == /\ pc = "idle"
        /\ sockfd_ # None
        /\ sends + 1 \in Buffers
        /\ sends' = sends + 1
        /\ task_list_' = <<Task(sends')>> \o task_list_
        /\ UNCHANGED <<connVars, sending_, bufVars, sent, pc, swap_list, turn,
                       exit_flag_, epollVars, netVars, stream, wire>>

(* on_pipe_event. *)
SwapLists == /\ pc = "idle"
             /\ swap_list = <<>>
             /\ task_list_ # <<>>
             /\ swap_list' = task_list_
             /\ task_list_' = <<>>
             /\ turn' = turn + 1
             /\ UNCHANGED <<connVars, sending_, bufVars, sent, pc, exit_flag_, sends,
                            epollVars, netVars, stream, wire>>

(* epoll looks at the descriptor again when it is modified. *)
StartWriteableEvent == /\ interest' = TRUE
                       /\ edge' = (attached /\ (room > 0 \/ broken))
                       /\ sending_' = TRUE

RunSendTask ==
    /\ pc = "idle"
    /\ swap_list # <<>>
    /\ LET task == Head(swap_list)
       IN IF task.sockfd = sockfd_
          THEN /\ send_buf_waiting_' = Append(send_buf_waiting_, task.buffer)
               /\ stream' = Append(stream, task)
               /\ IF sending_ THEN UNCHANGED <<sending_, epollVars>>
                              ELSE StartWriteableEvent
          ELSE UNCHANGED <<send_buf_waiting_, stream, sending_, epollVars>>
    /\ swap_list' = Tail(swap_list)
    /\ UNCHANGED <<connVars, send_buf_sending_, send_buf_sending_tmp, sent, pc,
                   task_list_, turn, exit_flag_, sends, netVars, wire>>

(* The task of Shutdown. *)
Exit == /\ pc = "idle"
        /\ ~exit_flag_
        /\ exit_flag_' = TRUE
        /\ UNCHANGED <<connVars, sending_, bufVars, sent, pc, task_list_, swap_list,
                       turn, sends, epollVars, netVars, stream, wire>>
--------------------------------------------------------------------------------
(* on_writeable and flush_data.                                                *)

(* Mutant: the next Send takes the event for registered. *)
StopForgetsFlag == /\ interest' = FALSE
                   /\ UNCHANGED <<edge, sending_>>

StopWriteableEvent == /\ interest' = FALSE
                      /\ sending_' = FALSE
                      /\ UNCHANGED edge

NothingToSend == send_buf_sending_ = <<>> /\ send_buf_waiting_ = <<>>

(* The handler of attach_event is called with PE_WRITE: for the edge, or with  *)
(* another event while the descriptor is writable.                             *)
WriteEvent(reported) ==
    /\ pc = "idle"
    /\ swap_list = <<>>
    /\ Up
    /\ interest
    /\ reported
    /\ room > 0 \/ broken
    /\ edge' = FALSE
    /\ pc' = IF exit_flag_ /\ ~NothingToSend THEN "idle" ELSE "flush"
    /\ UNCHANGED <<connVars, sending_, bufVars, sent, taskVars, interest, netVars,
                   stream, wire>>

OnWriteable == WriteEvent(edge)

OnWriteableToo == WriteEvent(TRUE)

FlushNothing == /\ pc = "flush"
                /\ NothingToSend
                /\ StopWriteableEvent
                /\ pc' = "idle"
                /\ UNCHANGED <<connVars, bufVars, sent, taskVars, netVars, stream, wire>>

(* Mutant: copies the list instead of swapping it. *)
FlushSendingCopy == /\ pc = "flush"
                    /\ send_buf_sending_ # <<>>
                    /\ send_buf_sending_tmp' = send_buf_sending_
                    /\ sent' = FALSE
                    /\ pc' = "send"
                    /\ UNCHANGED <<connVars, sending_, send_buf_waiting_,
                                   send_buf_sending_, taskVars, epollVars, netVars,
                                   stream, wire>>

FlushSending == /\ pc = "flush"
                /\ send_buf_sending_ # <<>>
                /\ send_buf_sending_tmp' = send_buf_sending_
                /\ send_buf_sending_' = <<>>
                /\ sent' = FALSE
                /\ pc' = "send"
                /\ UNCHANGED <<connVars, sending_, send_buf_waiting_, taskVars,
                               epollVars, netVars, stream, wire>>

(* Mutant: new data first. *)
FlushWaitingFirst == /\ pc = "flush"
                     /\ send_buf_waiting_ # <<>>
                     /\ send_buf_sending_tmp' = <<Create(send_buf_waiting_)>>
                     /\ send_buf_waiting_' = <<>>
                     /\ sent' = FALSE
                     /\ pc' = "send"
                     /\ UNCHANGED <<connVars, sending_, send_buf_sending_, taskVars,
                                    epollVars, netVars, stream, wire>>

FlushWaiting == /\ pc = "flush"
                /\ send_buf_sending_ = <<>>
                /\ send_buf_waiting_ # <<>>
                /\ send_buf_sending_tmp' = <<Create(send_buf_waiting_)>>
                /\ send_buf_waiting_' = <<>>
                /\ sent' = FALSE
                /\ pc' = "send"
                /\ UNCHANGED <<connVars, sending_, send_buf_sending_, taskVars,
                               epollVars, netVars, stream, wire>>

pkt == Head(send_buf_sending_tmp)

(* sendmsg takes n bytes; a datagram it takes whole. *)
Accepts(n) == /\ ~broken
              /\ room > 0
              /\ IF is_udp THEN n = OfferedSize(pkt, TRUE) /\ room' = room - 1
                           ELSE n <= room /\ room' = room - n

SendSome == /\ pc = "send"
            /\ \E n \in 1..OfferedSize(pkt, is_udp) :
                  /\ Accepts(n)
                  /\ wire' = wire \o SubSeq(Bytes(pkt), 1, n)
                  /\ LET left == Sent(pkt, n)
                     IN IF IsEmpty(left)
                        THEN /\ send_buf_sending_tmp' = Tail(send_buf_sending_tmp)
                             /\ pc' = "flush"
                        ELSE /\ send_buf_sending_tmp' =
                                    [send_buf_sending_tmp EXCEPT ![1] = left]
                             /\ UNCHANGED pc
            /\ sent' = (pc' = "send")
            /\ UNCHANGED <<connVars, sending_, send_buf_waiting_, send_buf_sending_,
                           taskVars, epollVars, broken, stream>>

PutBack == /\ send_buf_sending_' = send_buf_sending_tmp \o send_buf_sending_
           /\ send_buf_sending_tmp' = <<>>
           /\ pc' = "idle"
           /\ UNCHANGED <<send_buf_waiting_, stream, wire, taskVars, sent>>

(* Mutant: has no more writable events reported. *)
SendAgainStops == /\ pc = "send"
                  /\ ~broken
                  /\ room = 0
                  /\ PutBack
                  /\ StopWriteableEvent
                  /\ UNCHANGED <<connVars, netVars>>

(* EAGAIN. *)
SendAgain == /\ pc = "send"
             /\ ~broken
             /\ room = 0
             /\ PutBack
             /\ UNCHANGED <<connVars, sending_, epollVars, netVars>>

(* Another error: unnoticed when the call before it sent something, otherwise  *)
(* the end of the connection and of what flush_data took.                      *)
SendFails == /\ pc = "send"
             /\ broken
             /\ IF sent
                THEN PutBack /\ UNCHANGED <<connVars, epollVars, netVars>>
                ELSE /\ DropSocketFD
                     /\ send_buf_sending_tmp' = <<>>
                     /\ pc' = "idle"
                     /\ UNCHANGED <<send_buf_waiting_, send_buf_sending_, stream, wire,
                                    taskVars, sent>>
             /\ UNCHANGED sending_

(* PE_ERROR. *)
ErrorEvent == /\ pc = "idle"
              /\ swap_list = <<>>
              /\ Up
              /\ broken
              /\ DropSocketFD
              /\ UNCHANGED <<sending_, bufVars, sent, pc, taskVars, stream, wire>>
--------------------------------------------------------------------------------
(* The kernel and the peer.                                                    *)

Drain == /\ Up
         /\ ~broken
         /\ room < Room
         /\ room' \in room + 1 .. Room
         /\ edge' = (edge \/ interest)
         /\ UNCHANGED <<connVars, sending_, bufVars, sent, pc, taskVars, interest,
                        broken, stream, wire>>

Break == /\ Up
         /\ ~broken
         /\ broken' = TRUE
         /\ edge' = (edge \/ interest)
         /\ UNCHANGED <<connVars, sending_, bufVars, sent, pc, taskVars, interest, room,
                        stream, wire>>
--------------------------------------------------------------------------------
Tasks == SwapLists \/ RunSendTask

FlushSteps == \/ FlushNothing
              \/ FlushSending
              \/ FlushWaiting
              \/ SendSome
              \/ SendAgain
              \/ SendFails

Next == \/ StartConnect
        \/ ListenOrAccept
        \/ Connected
        \/ Close
        \/ Send
        \/ Tasks
        \/ Exit
        \/ OnWriteable
        \/ OnWriteableToo
        \/ FlushSteps
        \/ ErrorEvent
        \/ Drain
        \/ Break

Spec == Init /\ [][Next]_vars

(* The loop executes its tasks and dispatches what epoll reports, system calls *)
(* return, and the peer reads.  The bytes of a finite number of Sends can only  *)
(* keep it from an event for so long.                                          *)
FairSpec == /\ Spec
            /\ WF_vars(Tasks)
            /\ WF_vars(OnWriteable)
            /\ WF_vars(ErrorEvent)
            /\ WF_vars(FlushSteps)
            /\ WF_vars(Drain)
--------------------------------------------------------------------------------
Lists == {send_buf_sending_, send_buf_sending_tmp}

SendTasks == [buffer : Buffers, sockfd : Nat, turn : Nat]

TypeOK ==
    /\ is_udp \in BOOLEAN
    /\ sockfd_ \in {None} \cup 1..MaxConnections
    /\ attached \in BOOLEAN
    /\ connections \in 0..MaxConnections
    /\ sending_ \in BOOLEAN
    /\ send_buf_waiting_ \in Seq(Buffers)
    /\ \A list \in Lists : list \in Seq(BufferLists) /\ Len(list) <= 1
    /\ sent \in BOOLEAN
    /\ pc \in {"idle", "flush", "send"}
    /\ pc = "send" <=> send_buf_sending_tmp # <<>>
    /\ task_list_ \in Seq(SendTasks)
    /\ swap_list \in Seq(SendTasks)
    /\ turn \in Nat
    /\ exit_flag_ \in BOOLEAN
    /\ interest \in BOOLEAN
    /\ edge \in BOOLEAN
    /\ room \in 0..Room
    /\ broken \in BOOLEAN
    /\ sends \in {0} \cup Buffers
    /\ stream \in Seq(SendTasks)
    /\ wire \in Seq(Buffers \X Nat)

(* A Socket that has something to send is going to be told that it can: a      *)
(* writable event is registered and will be reported, or the kernel's buffer   *)
(* is full and will be drained.  sending_ says so across connections, although *)
(* no Close resets it (send, stop_writeable_event, attach_event).              *)
NoLostWakeup ==
    Up /\ pc = "idle" /\ ~NothingToSend /\ ~exit_flag_
       => interest /\ (edge \/ (room = 0 /\ ~broken))

(* However sendmsg cuts the data, a BufferList knows what is left of it, and   *)
(* the memory it points into is kept (reoffset).                               *)
BuffersKept == \A list \in Lists : \A i \in DOMAIN list :
                   Consistent(list[i]) /\ ~IsEmpty(list[i])

(* The order in which data is taken over, and so that in which it goes out:    *)
(* that of the turns of the loop in which Send was called, and within one turn *)
(* the opposite of the calls, since send uses AsyncFirst.                      *)
StreamOrder ==
    \A i, j \in DOMAIN stream :
        i < j => \/ stream[i].turn < stream[j].turn
                 \/ /\ stream[i].turn = stream[j].turn
                    /\ stream[i].buffer > stream[j].buffer

(* Bytes leave in the order in which they were taken over, each once, over     *)
(* partial sends, errors and new connections; only a failed connection loses   *)
(* any (flush_data, SendStream).                                               *)
Data(list) == Bytes(Create(list))

BytesIn(list) == IF list = <<>> THEN <<>> ELSE Bytes(Head(list))

Queue == BytesIn(send_buf_sending_tmp) \o BytesIn(send_buf_sending_)
           \o Data(send_buf_waiting_)

Stream == INSTANCE SendStream
          WITH Chunks <- {Data(<<buffer>>) : buffer \in Buffers},
               queue <- Queue, out <- wire, up <- ~broken

ImplementsSendStream == Stream!Spec

(* What a connected Socket has taken over goes out, unless the connection or   *)
(* the loop ends: no backlog waits for the next Send to move it.               *)
Waits(buffer) == \E i \in DOMAIN Queue : Queue[i][1] = buffer

EverythingLeaves == \A buffer \in Buffers :
    Up /\ Waits(buffer) ~> ~Waits(buffer) \/ ~Up \/ exit_flag_
================================================================================
