----------------------------- MODULE PollerEvents -----------------------------
(***************************************************************************)
(* Events: event_map_ of EventPoller and its counterpart in the kernel, the   *)
(* batches of RunLoop, and the SocketFDs that open, register and close        *)
(* descriptors while a batch is being dispatched.  The kernel gives the       *)
(* number of a closed descriptor to the next file, so files have numbers of   *)
(* their own here, and a SocketFD that of its file.                           *)
(*                                                                            *)
(* The user has control in callbacks: those of data, those of the pipe, which *)
(* execute his tasks, that of a listener between accept and AddEvent, those   *)
(* of delay tasks before epoll_wait.                                          *)
(***************************************************************************)
EXTENDS Integers, SequencesExt

CONSTANTS Fds,       \* numbers of descriptors
          PipeFd,    \* that of the poller's own pipe
          MaxFiles,  \* bound on the files opened
          None

Files == 1..MaxFiles
Pipe == 1

Entries == [file : Files, handler : {"data", "on_accept"}]

\* A process has finitely many descriptors (RLIMIT_NOFILE).
ASSUME EventsAssumption == /\ IsFiniteSet(Fds)
                           /\ PipeFd \in Fds
                           /\ MaxFiles \in Nat \ {0}
                           /\ None \notin Files \cup Fds \cup Entries

VARIABLES file,           \* kernel: what each descriptor is open for
          epoll,          \* kernel: and registered for
          ready,          \* kernel: descriptors with an edge to report
          backlog,        \* kernel: a connection waits for accept
          opened,         \* files so far
          event_map_,     \* whose callback is registered, and which
          fd_,            \* the field of each SocketFD
          held,           \* SocketFDs in the sockfd_ of a Socket
          batch,          \* events still to be dispatched
          pc,             \* where in RunLoop or a callback the thread is
          strong_sockfd,  \* the SocketFD that the event handler holds
          peer_sockfd,    \* the one on_accept is setting up
          closed          \* history: files closed since epoll_wait returned

userVars == <<batch, pc, strong_sockfd, peer_sockfd>>

vars == <<file, epoll, ready, backlog, opened, event_map_, fd_, held, userVars, closed>>

Entry(f, handler) == [file |-> f, handler |-> handler]

Alive == (held \cup {strong_sockfd, peer_sockfd}) \ {None}

Listening(map) == {fd \in Fds : map[fd] # None /\ map[fd].handler = "on_accept"}
--------------------------------------------------------------------------------
Init == /\ file = [fd \in Fds |-> IF fd = PipeFd THEN Pipe ELSE None]
        /\ epoll = file
        /\ ready = {}
        /\ backlog = FALSE
        /\ opened = Pipe
        /\ event_map_ = [fd \in Fds |-> IF fd = PipeFd THEN Entry(Pipe, "data")
                                                       ELSE None]
        /\ fd_ = [f \in Files |-> IF f = Pipe THEN PipeFd ELSE None]
        /\ held = {Pipe}
        /\ batch = <<>>
        /\ pc = "wait"
        /\ strong_sockfd = None
        /\ peer_sockfd = None
        /\ closed = {}

(* Mutant: ~SocketFD closes first, which ends the registration: epoll_ctl      *)
(* fails and the entry stays.                                                  *)
CloseBeforeDel(fd, map, registered) ==
    IF map[fd] = None
    THEN /\ event_map_' = map
         /\ epoll' = registered
         /\ UNCHANGED <<file, closed>>
    ELSE /\ event_map_' = map
         /\ epoll' = [registered EXCEPT ![fd] = None]
         /\ file' = [file EXCEPT ![fd] = None]
         /\ closed' = closed \cup {file[fd]}

(* DelEvent as ~SocketFD calls it, on tables that a step has begun to change:  *)
(* the descriptor is closed by a callback, which a descriptor without an entry *)
(* does not get.                                                               *)
DelEvent(fd, map, registered) ==
    IF map[fd] = None
    THEN /\ event_map_' = map
         /\ epoll' = registered
         /\ UNCHANGED <<file, closed>>
    ELSE /\ event_map_' = [map EXCEPT ![fd] = IF registered[fd] # None THEN None ELSE @]
         /\ epoll' = [registered EXCEPT ![fd] = None]
         /\ file' = [file EXCEPT ![fd] = None]
         /\ closed' = closed \cup {file[fd]}

(* Mutant: Close ends the SocketFD, whoever else holds it. *)
ReleaseAtOnce(f, map, registered) ==
    /\ IF f # None /\ f \notin held'
       THEN DelEvent(fd_[f], map, registered)
       ELSE /\ event_map_' = map
            /\ epoll' = registered
            /\ UNCHANGED <<file, closed>>
    /\ ready' = {fd \in ready : epoll'[fd] # None}
    /\ backlog' = (backlog /\ Listening(event_map_') # {})

(* The step lets go of f: the last one who does so ends the SocketFD.          *)
Release(f, map, registered) ==
    /\ IF f \in Alive /\ f \notin Alive'
       THEN DelEvent(fd_[f], map, registered)
       ELSE /\ event_map_' = map
            /\ epoll' = registered
            /\ UNCHANGED <<file, closed>>
    /\ ready' = {fd \in ready : epoll'[fd] # None}
    /\ backlog' = (backlog /\ Listening(event_map_') # {})

Opens(fd) == /\ file[fd] = None
             /\ opened < MaxFiles
             /\ opened' = opened + 1
             /\ file' = [file EXCEPT ![fd] = opened']
             /\ fd_' = [fd_ EXCEPT ![opened'] = fd]

(* emplace of AddEvent overwrites nothing. *)
WithEntry(fd, f, handler) ==
    IF event_map_[fd] = None THEN [event_map_ EXCEPT ![fd] = Entry(f, handler)]
                             ELSE event_map_
--------------------------------------------------------------------------------
(* The user.                                                                   *)

UserRuns == pc \in {"wait", "callback", "accept_cb"}

(* Listen, or the second hop of Connect.  There is one TCP listener at a time. *)
AddEvent(fd, handler) == /\ UserRuns
                         /\ handler = "on_accept" => Listening(event_map_) = {}
                         /\ Opens(fd)
                         /\ held' = held \cup {opened'}
                         /\ epoll' = [epoll EXCEPT ![fd] = opened']
                         /\ event_map_' = WithEntry(fd, opened', handler)
                         /\ UNCHANGED <<ready, backlog, userVars, closed>>

(* Mutant: makes the entry whatever epoll_ctl says. *)
AddEventFailsLate(fd) ==
    /\ UserRuns
    /\ Opens(fd)
    /\ event_map_' = WithEntry(fd, opened', "data")
    /\ UNCHANGED <<epoll, ready, backlog, held, userVars, closed>>

(* epoll_ctl refuses the descriptor: the SocketFD ends, the descriptor stays.  *)
(* Listen on UDP keeps the SocketFD.                                           *)
AddEventFails(fd) == /\ UserRuns
                     /\ Opens(fd)
                     /\ held' \in {held, held \cup {opened'}}
                     /\ UNCHANGED <<epoll, ready, backlog, event_map_, userVars, closed>>

Close(f) == /\ UserRuns
            /\ f \in held \ {Pipe}
            /\ held' = held \ {f}
            /\ UNCHANGED <<opened, fd_, userVars>>
            /\ Release(f, event_map_, epoll)
--------------------------------------------------------------------------------
(* RunLoop.                                                                    *)

(* The kernel, at any time: listeners are level-triggered, the rest is not.    *)
Raise(fd) == /\ epoll[fd] # None
             /\ IF fd \in Listening(event_map_)
                THEN backlog' = TRUE /\ UNCHANGED ready
                ELSE ready' = ready \cup {fd} /\ UNCHANGED backlog
             /\ UNCHANGED <<file, epoll, opened, event_map_, fd_, held, userVars, closed>>

Reported == ready \cup IF backlog THEN Listening(event_map_) ELSE {}

EpollWait == /\ pc = "wait"
             /\ Reported # {}
             /\ \E order \in SetToSeqs(Reported) :
                   batch' = [i \in DOMAIN order |-> [fd |-> order[i],
                                                     file |-> epoll[order[i]]]]
             /\ ready' = {}
             /\ closed' = {}
             /\ pc' = "batch"
             /\ UNCHANGED <<file, epoll, backlog, opened, event_map_, fd_, held,
                            strong_sockfd, peer_sockfd>>

(* The callback locks its weak_ptr. *)
Dispatch == /\ pc = "batch"
            /\ batch # <<>>
            /\ LET entry == event_map_[Head(batch).fd]
               IN /\ entry # None
                  /\ IF entry.file \in Alive
                     THEN /\ strong_sockfd' = entry.file
                          /\ pc' = IF entry.handler = "on_accept" THEN "accept"
                                                                  ELSE "callback"
                     ELSE UNCHANGED <<strong_sockfd, pc>>
            /\ batch' = Tail(batch)
            /\ UNCHANGED <<file, epoll, ready, backlog, opened, event_map_, fd_, held,
                           peer_sockfd, closed>>

DispatchUnknown == /\ pc = "batch"
                   /\ batch # <<>>
                   /\ event_map_[Head(batch).fd] = None
                   /\ epoll' = [epoll EXCEPT ![Head(batch).fd] = None]
                   /\ batch' = Tail(batch)
                   /\ UNCHANGED <<file, ready, backlog, opened, event_map_, fd_, held,
                                  pc, strong_sockfd, peer_sockfd, closed>>

EndOfBatch == /\ pc = "batch"
              /\ batch = <<>>
              /\ pc' = "wait"
              /\ UNCHANGED <<file, epoll, ready, backlog, opened, event_map_, fd_, held,
                             batch, strong_sockfd, peer_sockfd, closed>>

HandlerReturns == /\ strong_sockfd' = None
                  /\ pc' = "batch"
                  /\ UNCHANGED <<opened, fd_, batch, peer_sockfd>>
                  /\ Release(strong_sockfd, event_map_, epoll)

CallbackReturns == /\ pc = "callback"
                   /\ UNCHANGED held
                   /\ HandlerReturns
--------------------------------------------------------------------------------
(* on_accept.                                                                  *)

Accept(fd) == /\ pc = "accept"
              /\ backlog
              /\ Opens(fd)
              /\ backlog' \in BOOLEAN
              /\ held' = held \cup {opened'}
              /\ peer_sockfd' = opened'
              /\ pc' = "accept_cb"
              /\ UNCHANGED <<epoll, ready, event_map_, batch, strong_sockfd, closed>>

(* Mutant: the peer of one connection is left for the next one. *)
AttachKeepsPeer == /\ pc = "accept_cb"
                   /\ epoll' = [epoll EXCEPT ![fd_[peer_sockfd]] = peer_sockfd]
                   /\ event_map_' = WithEntry(fd_[peer_sockfd], peer_sockfd, "data")
                   /\ pc' = "accept"
                   /\ UNCHANGED <<file, ready, backlog, opened, fd_, held, batch,
                                  strong_sockfd, peer_sockfd, closed>>

(* attach_event after accept_cb_, which has kept the Socket or not. *)
Attach == /\ pc = "accept_cb"
          /\ held' \in {held, held \ {peer_sockfd}}
          /\ peer_sockfd' = None
          /\ pc' = "accept"
          /\ UNCHANGED <<opened, fd_, batch, strong_sockfd>>
          /\ Release(peer_sockfd, WithEntry(fd_[peer_sockfd], peer_sockfd, "data"),
                     [epoll EXCEPT ![fd_[peer_sockfd]] = peer_sockfd])

(* emit_error of the peer. *)
AttachFails == /\ pc = "accept_cb"
               /\ held' = held \ {peer_sockfd}
               /\ peer_sockfd' = None
               /\ pc' = "accept"
               /\ UNCHANGED <<opened, fd_, batch, strong_sockfd>>
               /\ Release(peer_sockfd, event_map_, epoll)

AcceptNothing == /\ pc = "accept"
                 /\ ~backlog
                 /\ UNCHANGED held
                 /\ HandlerReturns

(* An error of accept, or PE_ERROR: emit_error closes the listener. *)
AcceptFails == /\ pc = "accept"
               /\ held' = held \ {strong_sockfd}
               /\ HandlerReturns
--------------------------------------------------------------------------------
Next == \/ \E fd \in Fds : \/ \E handler \in {"data", "on_accept"} : AddEvent(fd, handler)
                           \/ AddEventFails(fd)
                           \/ Raise(fd)
                           \/ Accept(fd)
        \/ \E f \in Files : Close(f)
        \/ EpollWait
        \/ Dispatch
        \/ DispatchUnknown
        \/ EndOfBatch
        \/ CallbackReturns
        \/ Attach
        \/ AttachFails
        \/ AcceptNothing
        \/ AcceptFails

Spec == Init /\ [][Next]_vars
--------------------------------------------------------------------------------
TypeOK == /\ file \in [Fds -> Files \cup {None}]
          /\ epoll \in [Fds -> Files \cup {None}]
          /\ ready \in SUBSET Fds
          /\ backlog \in BOOLEAN
          /\ opened \in Files
          /\ event_map_ \in [Fds -> Entries \cup {None}]
          /\ fd_ \in [Files -> Fds \cup {None}]
          /\ held \in SUBSET Files
          /\ batch \in Seq([fd : Fds, file : Files])
          /\ pc \in {"wait", "batch", "callback", "accept", "accept_cb"}
          /\ strong_sockfd \in Files \cup {None}
          /\ strong_sockfd # None <=> pc \in {"callback", "accept", "accept_cb"}
          /\ peer_sockfd \in Files \cup {None}
          /\ peer_sockfd # None <=> pc = "accept_cb"
          /\ closed \in SUBSET Files

(* What event_map_ has an entry for is what epoll reports, and the entry is    *)
(* that of the file the descriptor is open for: neither a callback nor a       *)
(* registration outlives its SocketFD, although the kernel forgets a           *)
(* descriptor by itself when it is closed and emplace overwrites nothing       *)
(* (~SocketFD, DelEvent, AddEvent).                                            *)
TablesAgree ==
    \A fd \in Fds :
        /\ event_map_[fd] = None => epoll[fd] = None
        /\ event_map_[fd] # None =>
              /\ epoll[fd] = event_map_[fd].file
              /\ file[fd] = event_map_[fd].file
              /\ file[fd] \in Alive

(* A SocketFD has its own file open as long as anyone holds it: the handler    *)
(* that goes on after its Socket was closed in a callback uses no descriptor   *)
(* of another connection (attach_event, on_accept).                            *)
AliveIsOpen == \A f \in Alive : fd_[f] # None /\ file[fd_[f]] = f

(* An event is dispatched to the SocketFD it was raised for, unless that was   *)
(* closed in the same batch.  Then it may reach whoever got the number: the    *)
(* code does not tell (RunLoop).                                               *)
EventsReachOwner ==
    [][pc = "batch" /\ batch' # batch /\ Head(batch).file \notin closed
          => strong_sockfd' = Head(batch).file]_vars
================================================================================
