-------------------------- MODULE PollerEventsProofs --------------------------
(***************************************************************************)
(* Theorems about PollerEvents: which SocketFD the entries of event_map_, the *)
(* registrations of epoll and the events of a batch belong to.                *)
(***************************************************************************)
EXTENDS PollerEvents, SequenceTheorems, FiniteSetTheorems, TLAPS

(* A SocketFD knows the descriptor of its file, and the kernel numbers files  *)
(* upwards: a new one has the number of no SocketFD that is still held.        *)
OwnNumbers ==
    /\ Alive \subseteq 1..opened
    /\ \A fd \in Fds : file[fd] # None => file[fd] <= opened /\ fd_[file[fd]] = fd

(* The kernel forgets the edges of a descriptor it closes. *)
ReadyRegistered == \A fd \in ready : epoll[fd] # None

(* An event still to be dispatched is for the owner of the entry it will find, *)
(* unless its file was closed since.                                           *)
BatchOwned ==
    \A i \in DOMAIN batch :
        \/ batch[i].file \in closed
        \/ /\ event_map_[batch[i].fd] # None
           /\ event_map_[batch[i].fd].file = batch[i].file

EventsInv == TypeOK /\ TablesAgree /\ AliveIsOpen /\ OwnNumbers /\ ReadyRegistered /\ BatchOwned

(* What TablesAgree says, of tables that a step has begun to change.           *)
Agree(map, registered) ==
    \A fd \in Fds :
        /\ map[fd] = None => registered[fd] = None
        /\ map[fd] # None => /\ registered[fd] = map[fd].file
                             /\ file[fd] = map[fd].file
                             /\ file[fd] \in Alive

(* Tables that have all that event_map_ and epoll have, and agree.             *)
Extended(map, registered) ==
    /\ map \in [Fds -> Entries \cup {None}]
    /\ registered \in [Fds -> Files \cup {None}]
    /\ Agree(map, registered)
    /\ \A fd \in Fds : event_map_[fd] # None => map[fd] = event_map_[fd]

LEMMA NoneIsNothing == None \notin Files /\ None \notin Fds /\ None \notin Entries /\ Pipe \in Files /\ Files \subseteq Nat
  BY EventsAssumption, SMT DEF Files, Pipe

LEMMA EntryHasFile == \A f \in Files, h \in {"data", "on_accept"} :
                         /\ Entry(f, h) \in Entries
                         /\ Entry(f, h).file = f
                         /\ Entry(f, h) # None
<1>1. \A f \in Files, h \in {"data", "on_accept"} : Entry(f, h) \in Entries /\ Entry(f, h).file = f
  BY SMT DEF Entries, Entry
<1> QED
  BY <1>1, NoneIsNothing

LEMMA AliveTyped == ASSUME TypeOK PROVE Alive \subseteq Files
  BY SMT DEF TypeOK, Alive

LEMMA BatchTyped ==
    ASSUME TypeOK
    PROVE  \A i \in DOMAIN batch : batch[i].fd \in Fds /\ batch[i].file \in Files
<1>1. batch \in Seq([fd : Fds, file : Files])
  BY DEF TypeOK
<1>2. \A i \in 1..Len(batch) : batch[i] \in [fd : Fds, file : Files]
  BY <1>1, ElementOfSeq
<1>3. DOMAIN batch = 1..Len(batch)
  BY <1>1, LenProperties
<1> QED
  BY <1>2, <1>3

LEMMA SameTables == ASSUME EventsInv PROVE Extended(event_map_, epoll)
  BY SMT DEF EventsInv, TypeOK, TablesAgree, Extended, Agree

(* The last one who lets go of a SocketFD closes its descriptor, ends its      *)
(* registration and removes its entry; nothing else changes owner.             *)
LEMMA ReleaseKeeps ==
    ASSUME EventsInv, NEW f \in Files, NEW map, NEW registered,
           Extended(map, registered),
           Alive \ {f} \subseteq Alive', Alive' \subseteq Alive,
           opened' = opened, fd_' = fd_, batch' = batch,
           Release(f, map, registered)
    PROVE  /\ file' \in [Fds -> Files \cup {None}]
           /\ epoll' \in [Fds -> Files \cup {None}]
           /\ ready' \in SUBSET Fds
           /\ backlog' \in BOOLEAN
           /\ event_map_' \in [Fds -> Entries \cup {None}]
           /\ closed' \in SUBSET Files
           /\ TablesAgree'
           /\ AliveIsOpen'
           /\ OwnNumbers'
           /\ ReadyRegistered'
           /\ BatchOwned'
<1> DEFINE fd == fd_[f]
<1>0. TypeOK /\ TablesAgree /\ AliveIsOpen /\ OwnNumbers /\ ReadyRegistered /\ BatchOwned
  BY DEF EventsInv
<1>1. /\ ready' = {d \in ready : epoll'[d] # None}
      /\ backlog' = (backlog /\ Listening(event_map_') # {})
  BY DEF Release
<1>2. ready' \in SUBSET Fds /\ backlog' \in BOOLEAN
  BY <1>0, <1>1 DEF TypeOK
<1>3. ReadyRegistered'
  BY <1>1 DEF ReadyRegistered
<1>6. /\ file \in [Fds -> Files \cup {None}] /\ fd_ \in [Files -> Fds \cup {None}]
      /\ closed \in SUBSET Files
      /\ \A i \in DOMAIN batch : batch[i].fd \in Fds
      /\ map \in [Fds -> Entries \cup {None}]
      /\ registered \in [Fds -> Files \cup {None}]
      /\ Alive \subseteq Files
  <2>1. \A i \in DOMAIN batch : batch[i].fd \in Fds
    BY <1>0, BatchTyped
  <2>2. Alive \subseteq Files
    BY <1>0, AliveTyped
  <2> QED
    BY <1>0, <2>1, <2>2 DEF TypeOK, Extended
<1>7. Agree(map, registered) /\ \A d \in Fds : event_map_[d] # None => map[d] = event_map_[d]
  BY DEF Extended
<1>4. CASE f \in Alive /\ f \notin Alive'
  <2>1. fd \in Fds /\ file[fd] = f
    BY <1>0, <1>4, <1>6, NoneIsNothing DEF AliveIsOpen
  <2>2. DelEvent(fd, map, registered)
    BY <1>4 DEF Release
  <2>3. \A d \in Fds : file[d] = f => d = fd
    BY <1>0, NoneIsNothing DEF OwnNumbers
  <2>4. Alive' = Alive \ {f}
    BY <1>4
  <2>5. \A g \in Alive' : fd_[g] # fd
    BY <1>0, <2>1, <2>4 DEF AliveIsOpen
  <2> HIDE DEF fd
  <2>6. CASE map[fd] = None
    <3>1. event_map_' = map /\ epoll' = registered /\ file' = file /\ closed' = closed
      BY <2>2, <2>6 DEF DelEvent
    <3>2. TablesAgree'
      BY <3>1, <1>7, <2>1, <2>3, <2>4, <2>6 DEF TablesAgree, Agree
    <3>3. AliveIsOpen' /\ OwnNumbers'
      BY <3>1, <2>4, <1>0 DEF AliveIsOpen, OwnNumbers
    <3>4. BatchOwned'
      BY <3>1, <1>0, <1>6, <1>7 DEF BatchOwned
    <3> QED
      BY <1>2, <1>3, <1>6, <3>1, <3>2, <3>3, <3>4
  <2>7. CASE map[fd] # None
    <3>1. registered[fd] # None /\ map[fd].file = f
      BY <1>7, <2>1, <2>7, NoneIsNothing DEF Agree
    <3>2. /\ event_map_' = [map EXCEPT ![fd] = None]
          /\ epoll' = [registered EXCEPT ![fd] = None]
          /\ file' = [file EXCEPT ![fd] = None]
          /\ closed' = closed \cup {f}
      BY <2>1, <2>2, <2>7, <3>1 DEF DelEvent
    <3>3. /\ event_map_'[fd] = None /\ epoll'[fd] = None /\ file'[fd] = None
          /\ \A d \in Fds : d # fd => /\ event_map_'[d] = map[d]
                                      /\ epoll'[d] = registered[d]
                                      /\ file'[d] = file[d]
      BY <3>2, <2>1, <1>6
    <3>4. TablesAgree'
      BY <3>3, <1>7, <2>1, <2>3, <2>4 DEF TablesAgree, Agree
    <3>5. AliveIsOpen'
      BY <3>3, <2>4, <2>5, <1>0, <1>6, NoneIsNothing DEF AliveIsOpen
    <3>6. OwnNumbers'
      BY <3>3, <2>4, <1>0 DEF OwnNumbers
    <3>7. BatchOwned'
      BY <3>1, <3>2, <3>3, <1>0, <1>6, <1>7 DEF BatchOwned
    <3>8. /\ event_map_' \in [Fds -> Entries \cup {None}]
          /\ epoll' \in [Fds -> Files \cup {None}]
          /\ file' \in [Fds -> Files \cup {None}]
          /\ closed' \in SUBSET Files
      BY <3>2, <1>6
    <3> QED
      BY <1>2, <1>3, <3>4, <3>5, <3>6, <3>7, <3>8
  <2> QED
    BY <2>6, <2>7
<1>5. CASE ~(f \in Alive /\ f \notin Alive')
  <2>1. Alive' = Alive
    BY <1>5
  <2>2. event_map_' = map /\ epoll' = registered /\ file' = file /\ closed' = closed
    BY <1>5 DEF Release
  <2>3. TablesAgree'
    BY <2>1, <2>2, <1>7 DEF TablesAgree, Agree
  <2>4. AliveIsOpen' /\ OwnNumbers'
    BY <2>1, <2>2, <1>0 DEF AliveIsOpen, OwnNumbers
  <2>5. BatchOwned'
    BY <2>2, <1>0, <1>6, <1>7 DEF BatchOwned
  <2> QED
    BY <1>2, <1>3, <1>6, <2>2, <2>3, <2>4, <2>5
<1> QED
  BY <1>4, <1>5

(* A new file gets a descriptor that nothing is open, registered or has an     *)
(* entry for, and a number that no SocketFD has.                               *)
LEMMA OpensKeeps ==
    ASSUME EventsInv, NEW fd \in Fds, Opens(fd),
           Alive \subseteq Alive', Alive' \subseteq Alive \cup {opened'}
    PROVE  /\ file' \in [Fds -> Files \cup {None}]
           /\ fd_' \in [Files -> Fds \cup {None}]
           /\ opened' \in Files
           /\ file' = [file EXCEPT ![fd] = opened']
           /\ event_map_[fd] = None /\ epoll[fd] = None
           /\ AliveIsOpen'
           /\ OwnNumbers'
<1>1. /\ TypeOK /\ TablesAgree /\ AliveIsOpen /\ OwnNumbers
  BY DEF EventsInv
<1>2. /\ file[fd] = None /\ opened < MaxFiles /\ opened' = opened + 1
      /\ file' = [file EXCEPT ![fd] = opened']
      /\ fd_' = [fd_ EXCEPT ![opened'] = fd]
  BY DEF Opens
<1>3. opened \in Files /\ opened \in Nat /\ opened' \in Files /\ opened' \in Nat
  BY <1>1, <1>2, EventsAssumption DEF TypeOK, Files
<1>4. /\ file' \in [Fds -> Files \cup {None}]
      /\ fd_' \in [Files -> Fds \cup {None}]
      /\ file \in [Fds -> Files \cup {None}]
      /\ fd_ \in [Files -> Fds \cup {None}]
      /\ Alive \subseteq Files
  BY <1>1, <1>2, <1>3, AliveTyped DEF TypeOK
<1>5. event_map_[fd] = None /\ epoll[fd] = None
  BY <1>1, <1>2, AliveTyped, NoneIsNothing DEF TablesAgree
<1>6. /\ file'[fd] = opened' /\ \A d \in Fds : d # fd => file'[d] = file[d]
      /\ fd_'[opened'] = fd /\ \A g \in Files : g # opened' => fd_'[g] = fd_[g]
  BY <1>2, <1>3, <1>4
<1>7. \A g \in Alive : g # opened' /\ g \in Files
  BY <1>1, <1>2, <1>3, <1>4 DEF OwnNumbers
<1>8. AliveIsOpen'
  BY <1>1, <1>2, <1>4, <1>6, <1>7, NoneIsNothing DEF AliveIsOpen
<1>9. \A d \in Fds : file[d] # None => file[d] # opened' /\ file[d] \in Files /\ file[d] < opened'
  <2>1. \A d \in Fds : file[d] # None => file[d] \in Files /\ file[d] <= opened
    BY <1>1, <1>4 DEF OwnNumbers
  <2>2. \A g \in Files : g <= opened => g # opened' /\ g < opened'
    BY <1>2, <1>3, NoneIsNothing
  <2> QED
    BY <2>1, <2>2
<1>10. Alive' \subseteq 1..opened'
  BY <1>1, <1>2, <1>3 DEF OwnNumbers
<1>11. ASSUME NEW d \in Fds, file'[d] # None
       PROVE  file'[d] <= opened' /\ fd_'[file'[d]] = d
  <2>1. CASE d = fd
    BY <2>1, <1>3, <1>6
  <2>2. CASE d # fd
    <3>1. file'[d] = file[d] /\ file[d] # None
      BY <2>2, <1>6, <1>11
    <3>2. /\ file[d] \in Files /\ file[d] # opened' /\ file[d] < opened'
          /\ fd_[file[d]] = d
      BY <3>1, <1>1, <1>9 DEF OwnNumbers
    <3>3. fd_'[file[d]] = d
      BY <3>2, <1>6
    <3>4. file[d] <= opened'
      <4>1. file[d] \in Nat
        BY <3>2, NoneIsNothing
      <4> QED
        BY <4>1, <3>2, <1>3
    <3> QED
      BY <3>1, <3>3, <3>4
  <2> QED
    BY <2>1, <2>2
<1>12. OwnNumbers'
  BY <1>10, <1>11 DEF OwnNumbers
<1> QED
  BY <1>2, <1>3, <1>4, <1>5, <1>8, <1>12

LEMMA EntryKept ==
    ASSUME EventsInv, NEW fd \in Fds, NEW f \in Files, NEW handler \in {"data", "on_accept"},
           event_map_[fd] = None, epoll[fd] = None
    PROVE  /\ WithEntry(fd, f, handler) \in [Fds -> Entries \cup {None}]
           /\ WithEntry(fd, f, handler)[fd] = Entry(f, handler)
           /\ Entry(f, handler) # None
           /\ \A d \in Fds : d # fd => WithEntry(fd, f, handler)[d] = event_map_[d]
<1>1. event_map_ \in [Fds -> Entries \cup {None}]
  BY DEF EventsInv, TypeOK
<1>2. WithEntry(fd, f, handler) = [event_map_ EXCEPT ![fd] = Entry(f, handler)]
  BY DEF WithEntry
<1>3. Entry(f, handler) \in Entries /\ Entry(f, handler) # None
  BY EntryHasFile
<1> QED
  BY <1>1, <1>2, <1>3

--------------------------------------------------------------------------------
LEMMA EventsInit == Init => EventsInv
<1> SUFFICES ASSUME Init PROVE EventsInv
  OBVIOUS
<1> USE NoneIsNothing
<1>1. TypeOK
  <2>1. event_map_ \in [Fds -> Entries \cup {None}]
    BY EntryHasFile DEF Init
  <2>2. batch \in Seq([fd : Fds, file : Files])
    BY EmptySeq DEF Init
  <2>3. file \in [Fds -> Files \cup {None}] /\ fd_ \in [Files -> Fds \cup {None}]
    BY EventsAssumption DEF Init
  <2> QED
    BY <2>1, <2>2, <2>3 DEF Init, TypeOK
<1>2. Alive = {Pipe}
  BY DEF Init, Alive
<1>3. TablesAgree
  BY <1>2, EntryHasFile, EventsAssumption DEF Init, TablesAgree
<1>4. AliveIsOpen
  BY <1>2, EventsAssumption DEF Init, AliveIsOpen
<1>5. OwnNumbers
  BY <1>2, EventsAssumption DEF Init, OwnNumbers, Pipe
<1>6. ReadyRegistered /\ BatchOwned
  BY EmptySeq DEF Init, ReadyRegistered, BatchOwned
<1> QED
  BY <1>1, <1>3, <1>4, <1>5, <1>6 DEF EventsInv

(* A handler lets go of its SocketFD, which its Socket may have done before.   *)
LEMMA HandlerKeeps ==
    ASSUME EventsInv, pc \in {"callback", "accept"},
           held' \in {held, held \ {strong_sockfd}}, HandlerReturns
    PROVE  EventsInv'
<1>1. TypeOK
  BY DEF EventsInv
<1>2. /\ strong_sockfd \in Files /\ peer_sockfd = None
      /\ strong_sockfd' = None /\ pc' = "batch"
      /\ opened' = opened /\ fd_' = fd_ /\ batch' = batch /\ peer_sockfd' = peer_sockfd
      /\ Release(strong_sockfd, event_map_, epoll)
  BY <1>1 DEF HandlerReturns, TypeOK
<1>3. Alive \ {strong_sockfd} \subseteq Alive' /\ Alive' \subseteq Alive
  BY <1>2, NoneIsNothing DEF Alive
<1>4. Extended(event_map_, epoll)
  BY SameTables
<1>5. /\ file' \in [Fds -> Files \cup {None}]
      /\ epoll' \in [Fds -> Files \cup {None}]
      /\ ready' \in SUBSET Fds
      /\ backlog' \in BOOLEAN
      /\ event_map_' \in [Fds -> Entries \cup {None}]
      /\ closed' \in SUBSET Files
      /\ TablesAgree' /\ AliveIsOpen' /\ OwnNumbers' /\ ReadyRegistered' /\ BatchOwned'
  BY <1>2, <1>3, <1>4, ReleaseKeeps
<1>6. TypeOK'
  BY <1>1, <1>2, <1>5 DEF TypeOK
<1> QED
  BY <1>5, <1>6 DEF EventsInv

(* The tables that attach_event has extended. *)
LEMMA AttachExtends ==
    ASSUME EventsInv, pc = "accept_cb"
    PROVE  Extended(WithEntry(fd_[peer_sockfd], peer_sockfd, "data"),
                    [epoll EXCEPT ![fd_[peer_sockfd]] = peer_sockfd])
<1> DEFINE fd == fd_[peer_sockfd]
           map == WithEntry(fd, peer_sockfd, "data")
           registered == [epoll EXCEPT ![fd] = peer_sockfd]
<1>1. TypeOK /\ TablesAgree /\ AliveIsOpen
  BY DEF EventsInv
<1>2. peer_sockfd \in Files /\ peer_sockfd \in Alive
  BY <1>1 DEF TypeOK, Alive
<1>3. fd \in Fds /\ file[fd] = peer_sockfd
  BY <1>1, <1>2 DEF TypeOK, AliveIsOpen
<1>4. /\ event_map_ \in [Fds -> Entries \cup {None}] /\ epoll \in [Fds -> Files \cup {None}]
  BY <1>1 DEF TypeOK
<1> HIDE DEF fd
<1>5. /\ registered \in [Fds -> Files \cup {None}]
      /\ registered[fd] = peer_sockfd
      /\ \A d \in Fds : d # fd => registered[d] = epoll[d]
  BY <1>2, <1>3, <1>4
<1>6. CASE event_map_[fd] = None
  <2>1. epoll[fd] = None
    BY <1>1, <1>3, <1>6 DEF TablesAgree
  <2>2. /\ map \in [Fds -> Entries \cup {None}]
        /\ map[fd] = Entry(peer_sockfd, "data") /\ map[fd] # None
        /\ \A d \in Fds : d # fd => map[d] = event_map_[d]
    BY <2>1, <1>2, <1>3, <1>6, EntryKept
  <2>3. map[fd].file = peer_sockfd
    BY <2>2, <1>2, EntryHasFile
  <2> HIDE DEF map, registered
  <2>4. Agree(map, registered)
    BY <2>2, <2>3, <1>1, <1>2, <1>3, <1>5 DEF Agree, TablesAgree
  <2>5. \A d \in Fds : event_map_[d] # None => map[d] = event_map_[d]
    BY <2>2, <1>6
  <2>6. Extended(map, registered)
    BY <2>2, <2>4, <2>5, <1>5 DEF Extended
  <2> QED
    BY <2>6 DEF map, registered, fd
<1>7. CASE event_map_[fd] # None
  <2>1. map = event_map_
    BY <1>7 DEF WithEntry
  <2> HIDE DEF map, registered
  <2>2. Agree(map, registered)
    BY <2>1, <1>1, <1>3, <1>5, <1>7 DEF Agree, TablesAgree
  <2>3. Extended(map, registered)
    BY <2>1, <2>2, <1>4, <1>5 DEF Extended
  <2> QED
    BY <2>3 DEF map, registered, fd
<1> QED
  BY <1>6, <1>7

(* A step after which everybody owns what he did, and nothing is forgotten.    *)
LEMMA SameOwners ==
    ASSUME EventsInv, TypeOK', Alive' = Alive,
           UNCHANGED <<file, opened, event_map_, fd_>>,
           \A fd \in Fds : epoll'[fd] = epoll[fd],
           ReadyRegistered', BatchOwned'
    PROVE  EventsInv'
<1>1. TablesAgree /\ AliveIsOpen /\ OwnNumbers
  BY DEF EventsInv
<1>2. TablesAgree'
  BY <1>1 DEF TablesAgree
<1>3. AliveIsOpen' /\ OwnNumbers'
  BY <1>1 DEF AliveIsOpen, OwnNumbers
<1> QED
  BY <1>2, <1>3 DEF EventsInv

LEMMA EventsNext == EventsInv /\ [Next]_vars => EventsInv'
<1> SUFFICES ASSUME EventsInv, [Next]_vars PROVE EventsInv'
  OBVIOUS
<1> USE NoneIsNothing
<1>0. TypeOK /\ TablesAgree /\ AliveIsOpen /\ OwnNumbers /\ ReadyRegistered /\ BatchOwned
  BY DEF EventsInv
<1>1. Alive \subseteq Files /\ \A i \in DOMAIN batch : batch[i].fd \in Fds /\ batch[i].file \in Files
  BY <1>0, AliveTyped, BatchTyped
<1>2. ASSUME NEW fd \in Fds, NEW handler \in {"data", "on_accept"}, AddEvent(fd, handler)
      PROVE  EventsInv'
  <2>1. /\ Opens(fd) /\ held' = held \cup {opened'}
        /\ epoll' = [epoll EXCEPT ![fd] = opened']
        /\ event_map_' = WithEntry(fd, opened', handler)
        /\ UNCHANGED <<ready, backlog, batch, pc, strong_sockfd, peer_sockfd, closed>>
    BY <1>2 DEF AddEvent, userVars
  <2>2. opened' \in Files
    BY <1>0, <2>1, EventsAssumption DEF Opens, Files, TypeOK
  <2>3. Alive' = Alive \cup {opened'}
    BY <2>1, <2>2 DEF Alive
  <2>4. /\ file' \in [Fds -> Files \cup {None}]
        /\ fd_' \in [Files -> Fds \cup {None}]
        /\ file' = [file EXCEPT ![fd] = opened']
        /\ event_map_[fd] = None /\ epoll[fd] = None
        /\ AliveIsOpen' /\ OwnNumbers'
    BY <2>1, <2>3, OpensKeeps
  <2>5. /\ event_map_' \in [Fds -> Entries \cup {None}]
        /\ event_map_'[fd] = Entry(opened', handler) /\ event_map_'[fd] # None
        /\ \A d \in Fds : d # fd => event_map_'[d] = event_map_[d]
    BY <2>1, <2>2, <2>4, EntryKept
  <2>6. event_map_'[fd].file = opened'
    BY <2>2, <2>5, EntryHasFile
  <2>7. /\ epoll' \in [Fds -> Files \cup {None}]
        /\ epoll'[fd] = opened' /\ \A d \in Fds : d # fd => epoll'[d] = epoll[d]
        /\ file'[fd] = opened' /\ \A d \in Fds : d # fd => file'[d] = file[d]
    BY <1>0, <2>1, <2>2, <2>4 DEF TypeOK
  <2>8. TypeOK'
    BY <1>0, <2>1, <2>2, <2>4, <2>5, <2>7 DEF TypeOK
  <2>9. TablesAgree'
    BY <1>0, <2>3, <2>5, <2>6, <2>7 DEF TablesAgree
  <2>10. ReadyRegistered'
    BY <1>0, <2>1, <2>4, <2>7 DEF ReadyRegistered, TypeOK
  <2>11. BatchOwned'
    BY <1>0, <1>1, <2>1, <2>4, <2>5 DEF BatchOwned
  <2> QED
    BY <2>4, <2>8, <2>9, <2>10, <2>11 DEF EventsInv
<1>3. ASSUME NEW fd \in Fds, AddEventFails(fd) PROVE EventsInv'
  <2>1. /\ Opens(fd) /\ held' \in {held, held \cup {opened'}}
        /\ UNCHANGED <<epoll, ready, backlog, event_map_, batch, pc, strong_sockfd,
                       peer_sockfd, closed>>
    BY <1>3 DEF AddEventFails, userVars
  <2>2. opened' \in Files
    BY <1>0, <2>1, EventsAssumption DEF Opens, Files, TypeOK
  <2>3. Alive \subseteq Alive' /\ Alive' \subseteq Alive \cup {opened'}
    BY <2>1, <2>2 DEF Alive
  <2>4. /\ file' \in [Fds -> Files \cup {None}]
        /\ fd_' \in [Files -> Fds \cup {None}]
        /\ file' = [file EXCEPT ![fd] = opened']
        /\ event_map_[fd] = None
        /\ AliveIsOpen' /\ OwnNumbers'
    BY <2>1, <2>3, OpensKeeps
  <2>5. \A d \in Fds : d # fd => file'[d] = file[d]
    BY <1>0, <2>4 DEF TypeOK
  <2>6. TypeOK'
    BY <1>0, <2>1, <2>2, <2>4 DEF TypeOK
  <2>7. TablesAgree'
    BY <1>0, <2>1, <2>3, <2>4, <2>5 DEF TablesAgree
  <2>8. ReadyRegistered' /\ BatchOwned'
    BY <1>0, <2>1 DEF ReadyRegistered, BatchOwned
  <2> QED
    BY <2>4, <2>6, <2>7, <2>8 DEF EventsInv
<1>4. ASSUME NEW fd \in Fds, Raise(fd) PROVE EventsInv'
  <2>1. /\ epoll[fd] # None /\ ready' \in {ready, ready \cup {fd}} /\ backlog' \in {backlog, TRUE}
        /\ UNCHANGED <<file, epoll, opened, event_map_, fd_, held, batch, pc,
                       strong_sockfd, peer_sockfd, closed>>
    BY <1>4 DEF Raise, userVars
  <2>2. TypeOK'
    BY <1>0, <2>1 DEF TypeOK
  <2>3. ReadyRegistered' /\ BatchOwned' /\ Alive' = Alive
    BY <1>0, <2>1 DEF ReadyRegistered, BatchOwned, Alive
  <2> QED
    BY <2>1, <2>2, <2>3, SameOwners
<1>5. ASSUME NEW fd \in Fds, Accept(fd) PROVE EventsInv'
  <2>1. /\ Opens(fd) /\ held' = held \cup {opened'} /\ backlog' \in BOOLEAN
        /\ peer_sockfd' = opened' /\ pc = "accept" /\ pc' = "accept_cb"
        /\ UNCHANGED <<epoll, ready, event_map_, batch, strong_sockfd, closed>>
    BY <1>5 DEF Accept
  <2>2. opened' \in Files
    BY <1>0, <2>1, EventsAssumption DEF Opens, Files, TypeOK
  <2>3. Alive' = Alive \cup {opened'}
    BY <1>0, <2>1, <2>2 DEF Alive, TypeOK
  <2>4. /\ file' \in [Fds -> Files \cup {None}]
        /\ fd_' \in [Files -> Fds \cup {None}]
        /\ file' = [file EXCEPT ![fd] = opened']
        /\ event_map_[fd] = None
        /\ AliveIsOpen' /\ OwnNumbers'
    BY <2>1, <2>3, OpensKeeps
  <2>5. \A d \in Fds : d # fd => file'[d] = file[d]
    BY <1>0, <2>4 DEF TypeOK
  <2>6. TypeOK'
    BY <1>0, <2>1, <2>2, <2>4 DEF TypeOK
  <2>7. TablesAgree'
    BY <1>0, <2>1, <2>3, <2>4, <2>5 DEF TablesAgree
  <2>8. ReadyRegistered' /\ BatchOwned'
    BY <1>0, <2>1 DEF ReadyRegistered, BatchOwned
  <2> QED
    BY <2>4, <2>6, <2>7, <2>8 DEF EventsInv
<1>6. ASSUME NEW f \in Files, Close(f) PROVE EventsInv'
  <2>1. /\ f \in held /\ held' = held \ {f}
        /\ UNCHANGED <<opened, fd_, batch, pc, strong_sockfd, peer_sockfd>>
        /\ Release(f, event_map_, epoll)
    BY <1>6 DEF Close, userVars
  <2>2. Alive \ {f} \subseteq Alive' /\ Alive' \subseteq Alive
    BY <2>1 DEF Alive
  <2>3. /\ file' \in [Fds -> Files \cup {None}]
        /\ epoll' \in [Fds -> Files \cup {None}]
        /\ ready' \in SUBSET Fds
        /\ backlog' \in BOOLEAN
        /\ event_map_' \in [Fds -> Entries \cup {None}]
        /\ closed' \in SUBSET Files
        /\ TablesAgree' /\ AliveIsOpen' /\ OwnNumbers' /\ ReadyRegistered' /\ BatchOwned'
    BY <2>1, <2>2, SameTables, ReleaseKeeps
  <2>4. TypeOK'
    BY <1>0, <2>1, <2>3 DEF TypeOK
  <2> QED
    BY <2>3, <2>4 DEF EventsInv
<1>7. CASE EpollWait
  <2>1. PICK order \in SetToSeqs(Reported) :
           batch' = [i \in DOMAIN order |-> [fd |-> order[i], file |-> epoll[order[i]]]]
    BY <1>7 DEF EpollWait
  <2>2. /\ pc = "wait" /\ pc' = "batch" /\ ready' = {} /\ closed' = {}
        /\ UNCHANGED <<file, epoll, backlog, opened, event_map_, fd_, held,
                       strong_sockfd, peer_sockfd>>
    BY <1>7 DEF EpollWait
  <2>3. \A fd \in Reported : /\ fd \in Fds /\ epoll[fd] \in Files
                             /\ event_map_[fd] # None /\ event_map_[fd].file = epoll[fd]
    <3>1. \A fd \in ready : fd \in Fds /\ epoll[fd] # None
      BY <1>0 DEF TypeOK, ReadyRegistered
    <3>2. \A fd \in Listening(event_map_) : fd \in Fds /\ event_map_[fd] # None
      BY DEF Listening
    <3>3. \A fd \in Fds : event_map_[fd] # None => epoll[fd] # None
      BY <1>0, AliveTyped DEF TablesAgree
    <3>4. \A fd \in Fds : epoll[fd] # None => /\ epoll[fd] \in Files /\ event_map_[fd] # None
                                              /\ event_map_[fd].file = epoll[fd]
      BY <1>0 DEF TablesAgree, TypeOK
    <3> QED
      BY <3>1, <3>2, <3>3, <3>4 DEF Reported
  <2>4. IsFiniteSet(Reported)
    BY <2>3, EventsAssumption, FS_Subset
  <2> DEFINE n == Cardinality(Reported)
  <2>5. n \in Nat
    BY <2>4, FS_CardinalityType
  <2>6. order \in [1..n -> Reported]
    BY <2>1 DEF SetToSeqs
  <2> HIDE DEF n
  <2>7. /\ DOMAIN batch' = 1..n
        /\ \A i \in 1..n : batch'[i] = [fd |-> order[i], file |-> epoll[order[i]]]
    BY <2>1, <2>6
  <2>8. \A i \in 1..n : batch'[i] \in [fd : Fds, file : Files]
    BY <2>3, <2>6, <2>7
  <2>9. batch' \in [1..n -> [fd : Fds, file : Files]]
    <3>1. batch' = [i \in 1..n |-> batch'[i]]
      BY <2>1, <2>6
    <3> QED
      BY <3>1, <2>8
  <2>10. batch' \in Seq([fd : Fds, file : Files])
    <3> DEFINE S == [fd : Fds, file : Files]
    <3>1. batch' \in [1..n -> S]
      BY <2>9
    <3> HIDE DEF S
    <3>2. batch' \in Seq(S)
      BY <3>1, <2>5, SeqDef
    <3> QED
      BY <3>2 DEF S
  <2>11. TypeOK'
    BY <1>0, <2>2, <2>10 DEF TypeOK
  <2>12. BatchOwned'
    BY <2>2, <2>3, <2>6, <2>7 DEF BatchOwned
  <2>13. ReadyRegistered' /\ Alive' = Alive
    BY <2>2 DEF ReadyRegistered, Alive
  <2> QED
    BY <2>2, <2>11, <2>12, <2>13, SameOwners
<1>8. ASSUME pc = "batch", batch # <<>>, batch' = Tail(batch), closed' = closed,
             event_map_' = event_map_
      PROVE  BatchOwned' /\ batch' \in Seq([fd : Fds, file : Files])
  <2>1. batch \in Seq([fd : Fds, file : Files])
    BY <1>0 DEF TypeOK
  <2>2. /\ batch' \in Seq([fd : Fds, file : Files])
        /\ \A i \in DOMAIN batch' : i + 1 \in DOMAIN batch /\ batch'[i] = batch[i + 1]
    BY <1>8, <2>1
  <2> QED
    BY <1>0, <1>8, <2>2 DEF BatchOwned
<1>9. CASE Dispatch
  <2>1. /\ pc = "batch" /\ batch # <<>> /\ batch' = Tail(batch)
        /\ UNCHANGED <<file, epoll, ready, backlog, opened, event_map_, fd_, held,
                       peer_sockfd, closed>>
        /\ \/ /\ strong_sockfd' \in Alive
              /\ pc' \in {"accept", "callback"}
           \/ strong_sockfd' = strong_sockfd /\ pc' = pc
    BY <1>9 DEF Dispatch
  <2>2. strong_sockfd = None /\ peer_sockfd = None
    BY <1>0, <2>1 DEF TypeOK
  <2>3. Alive' = Alive
    BY <2>1, <2>2 DEF Alive
  <2>4. BatchOwned' /\ batch' \in Seq([fd : Fds, file : Files])
    BY <1>8, <2>1
  <2>5. TypeOK'
    BY <1>0, <1>1, <2>1, <2>2, <2>4 DEF TypeOK
  <2>6. ReadyRegistered'
    BY <1>0, <2>1 DEF ReadyRegistered
  <2> QED
    BY <2>1, <2>3, <2>4, <2>5, <2>6, SameOwners
<1>10. CASE DispatchUnknown
  <2> DEFINE fd == Head(batch).fd
  <2>1. /\ pc = "batch" /\ batch # <<>> /\ batch' = Tail(batch)
        /\ event_map_[fd] = None /\ epoll' = [epoll EXCEPT ![fd] = None]
        /\ UNCHANGED <<file, ready, backlog, opened, event_map_, fd_, held,
                       pc, strong_sockfd, peer_sockfd, closed>>
    BY <1>10 DEF DispatchUnknown
  <2>2. BatchOwned' /\ batch' \in Seq([fd : Fds, file : Files])
    BY <1>8, <2>1
  <2>3. epoll \in [Fds -> Files \cup {None}]
    BY <1>0 DEF TypeOK
  <2> HIDE DEF fd
  <2>4. /\ epoll' \in [Fds -> Files \cup {None}]
        /\ \A d \in Fds : epoll'[d] = epoll[d]
    BY <1>0, <2>1, <2>3 DEF TablesAgree
  <2>5. TypeOK'
    BY <1>0, <2>1, <2>2, <2>4 DEF TypeOK
  <2>6. ReadyRegistered' /\ Alive' = Alive
    BY <1>0, <2>1, <2>4 DEF ReadyRegistered, Alive, TypeOK
  <2> QED
    BY <2>1, <2>2, <2>4, <2>5, <2>6, SameOwners
<1>11. CASE EndOfBatch
  <2>1. /\ pc = "batch" /\ pc' = "wait"
        /\ UNCHANGED <<file, epoll, ready, backlog, opened, event_map_, fd_, held,
                       batch, strong_sockfd, peer_sockfd, closed>>
    BY <1>11 DEF EndOfBatch
  <2>2. TypeOK'
    BY <1>0, <2>1 DEF TypeOK
  <2>3. ReadyRegistered' /\ BatchOwned' /\ Alive' = Alive
    BY <1>0, <2>1 DEF ReadyRegistered, BatchOwned, Alive
  <2> QED
    BY <2>1, <2>2, <2>3, SameOwners
<1>12. CASE CallbackReturns \/ AcceptNothing \/ AcceptFails
  BY <1>12, HandlerKeeps DEF CallbackReturns, AcceptNothing, AcceptFails
<1>13. CASE Attach \/ AttachFails
  <2>1. /\ pc = "accept_cb" /\ pc' = "accept" /\ peer_sockfd' = None
        /\ held' \in {held, held \ {peer_sockfd}}
        /\ UNCHANGED <<opened, fd_, batch, strong_sockfd>>
    BY <1>13 DEF Attach, AttachFails
  <2>2. peer_sockfd \in Files /\ strong_sockfd \in Files
    BY <1>0, <2>1 DEF TypeOK
  <2>3. Alive \ {peer_sockfd} \subseteq Alive' /\ Alive' \subseteq Alive
    BY <2>1, <2>2 DEF Alive
  <2>4. PICK map, registered : Extended(map, registered) /\ Release(peer_sockfd, map, registered)
    <3>1. CASE Attach
      BY <3>1, <2>1, AttachExtends DEF Attach
    <3>2. CASE AttachFails
      BY <3>2, SameTables DEF AttachFails
    <3> QED
      BY <1>13, <3>1, <3>2
  <2>5. /\ file' \in [Fds -> Files \cup {None}]
        /\ epoll' \in [Fds -> Files \cup {None}]
        /\ ready' \in SUBSET Fds
        /\ backlog' \in BOOLEAN
        /\ event_map_' \in [Fds -> Entries \cup {None}]
        /\ closed' \in SUBSET Files
        /\ TablesAgree' /\ AliveIsOpen' /\ OwnNumbers' /\ ReadyRegistered' /\ BatchOwned'
    BY <2>1, <2>2, <2>3, <2>4, ReleaseKeeps
  <2>6. TypeOK'
    BY <1>0, <2>1, <2>2, <2>5 DEF TypeOK
  <2> QED
    BY <2>5, <2>6 DEF EventsInv
<1>14. CASE UNCHANGED vars
  <2>1. UNCHANGED <<file, epoll, ready, backlog, opened, event_map_, fd_, held, batch, pc,
                    strong_sockfd, peer_sockfd, closed>>
    BY <1>14 DEF vars, userVars
  <2>2. TypeOK'
    BY <1>0, <2>1 DEF TypeOK
  <2>3. ReadyRegistered' /\ BatchOwned' /\ Alive' = Alive
    BY <1>0, <2>1 DEF ReadyRegistered, BatchOwned, Alive
  <2> QED
    BY <2>1, <2>2, <2>3, SameOwners
<1> QED
  BY <1>2, <1>3, <1>4, <1>5, <1>6, <1>7, <1>9, <1>10, <1>11, <1>12, <1>13, <1>14 DEF Next

LEMMA EventsAlways == Spec => []EventsInv
  BY EventsInit, EventsNext, PTL DEF Spec
--------------------------------------------------------------------------------
(* TypeOK: every variable has its type, and the handler holds a SocketFD       *)
(* exactly while it runs (RunLoop, on_accept).                                 *)
THEOREM EventsTyped == Spec => []TypeOK
<1>1. EventsInv => TypeOK
  BY DEF EventsInv
<1> QED
  BY <1>1, EventsAlways, PTL

(* TablesAgree: event_map_ and epoll have the same descriptors, each for the   *)
(* file it is open for, which a SocketFD that is still held owns, whatever     *)
(* callbacks close and whatever number the kernel hands out again (~SocketFD,   *)
(* DelEvent, AddEvent, attach_event).                                          *)
THEOREM TablesOfPoller == Spec => []TablesAgree
<1>1. EventsInv => TablesAgree
  BY DEF EventsInv
<1> QED
  BY <1>1, EventsAlways, PTL

(* AliveIsOpen: who holds a SocketFD has its own file open (SocketFD,          *)
(* on_accept).                                                                 *)
THEOREM HolderHasFile == Spec => []AliveIsOpen
<1>1. EventsInv => AliveIsOpen
  BY DEF EventsInv
<1> QED
  BY <1>1, EventsAlways, PTL

(* EventsReachOwner: an event whose file is still open goes to the SocketFD of *)
(* that file, however the batch is ordered and whatever the callbacks before   *)
(* it in the batch closed and opened (RunLoop).                                *)
THEOREM EventsGoToOwner == Spec => EventsReachOwner
<1>1. ASSUME EventsInv, Next, pc = "batch", batch' # batch, Head(batch).file \notin closed
      PROVE  strong_sockfd' = Head(batch).file
  <2> DEFINE first == Head(batch)
  <2>1. Dispatch \/ DispatchUnknown
    BY <1>1 DEF Next, AddEvent, AddEventFails, Raise, Accept, Close, UserRuns, EpollWait,
                EndOfBatch, CallbackReturns, AcceptNothing, AcceptFails, Attach, AttachFails,
                userVars
  <2>2. TypeOK /\ TablesAgree /\ BatchOwned
    BY <1>1 DEF EventsInv
  <2>3. batch \in Seq([fd : Fds, file : Files]) /\ batch # <<>>
    BY <2>1, <2>2 DEF TypeOK, Dispatch, DispatchUnknown
  <2>4. 1 \in DOMAIN batch /\ first = batch[1]
    BY <2>3
  <2>5. event_map_[first.fd] # None /\ event_map_[first.fd].file = first.file /\ first.fd \in Fds
    BY <1>1, <2>2, <2>4, BatchTyped DEF BatchOwned
  <2>6. event_map_[first.fd].file \in Alive
    BY <2>2, <2>5 DEF TablesAgree
  <2> QED
    BY <2>1, <2>5, <2>6 DEF Dispatch, DispatchUnknown
<1>2. EventsInv /\ [Next]_vars
         => [pc = "batch" /\ batch' # batch /\ Head(batch).file \notin closed
                => strong_sockfd' = Head(batch).file]_vars
  BY <1>1
<1> QED
  BY <1>2, EventsAlways, PTL DEF Spec, EventsReachOwner
================================================================================
