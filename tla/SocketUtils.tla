------------------------------ MODULE SocketUtils ------------------------------
(***************************************************************************)
(* SocketUtils of net/socket_utils.cpp: Connect, Listen and Bind, system call *)
(* by system call, each of which may fail, on a host whose interfaces change  *)
(* and with the addresses that DNSCache hands out.                            *)
(***************************************************************************)
EXTENDS DNSCache, Sequences, FiniteSetsExt

CONSTANTS Fds,
          DefaultExpiry,
          Names,       \* of interfaces
          Any4, Any6,  \* the wildcards 0.0.0.0 and ::
          Hardware,    \* an address that is of neither family
          IfLists,     \* what getifaddrs may return
          Texts        \* values of local_ip_or_intf: names or addresses

ASSUME UtilsAssumption ==
    /\ Fds \subseteq Nat
    /\ DefaultExpiry \in Expiries
    /\ Any4 \in V4 /\ Any6 \in V6 /\ Hardware \notin Addrs
    /\ IfLists \subseteq Seq([name : Names, addr : (Addrs \cup {Hardware}) \ {Any4, Any6}])

VARIABLES fds,     \* the open descriptors
          handed,  \* those a call returned and the caller has not closed
          pc, call,  \* the call in progress, and its socket
          list,    \* what getifaddrs returned, and
          memory,  \* what is allocated: "addr" of Bind, "list"
          ifaces,  \* the interfaces of the host now
          faults   \* history: the system calls of this call that failed

utilVars == <<fds, handed, list, memory, ifaces>>

vars == <<dnsVars, utilVars, pc, call, faults>>
--------------------------------------------------------------------------------
Families == {"v4", "v6"}
OfFamily(family) == IF family = "v4" THEN V4 ELSE V6
FamilyOf(a) == IF a \in V4 THEN "v4" ELSE "v6"
Wildcard(family) == IF family = "v4" THEN Any4 ELSE Any6

NoCall == [op |-> "none", text |-> Any4, async |-> FALSE, family |-> "v4",
           fd |-> -1, blocking |-> TRUE, addr |-> NoAddr, state |-> "new"]

Init == /\ DNSInit
        /\ fds = {}
        /\ handed = {}
        /\ pc = "idle"
        /\ call = NoCall
        /\ list = <<>>
        /\ memory = {}
        /\ ifaces \in IfLists
        /\ faults = {}

(* The call returns fd, or -1; fd is the caller's from then on.               *)
Return(fd, state) == /\ pc' = "returned"
                     /\ call' = [call EXCEPT !.fd = fd, !.state = state]
                     /\ handed' = handed \cup ({fd} \ {-1})

(* Parse called on its own, and Connect. *)
StartParse(h, expire_sec) ==
    /\ pc = "idle"
    /\ Parse(h, expire_sec)
    /\ pc' = "parse"
    /\ call' = [NoCall EXCEPT !.op = "parse"]
    /\ faults' = {}
    /\ UNCHANGED utilVars

Connect(h, text, async) ==
    /\ pc = "idle"
    /\ Parse(h, DefaultExpiry)
    /\ pc' = "parse"
    /\ call' = [NoCall EXCEPT !.op = "connect", !.text = text, !.async = async]
    /\ faults' = {}
    /\ UNCHANGED utilVars

(* Only the loop around getaddrinfo reads errno: it is forgotten here.         *)
ParseReturns ==
    /\ pc = "parse"
    /\ parse.pc = "done"
    /\ parse' = NoParse
    /\ faults' = IF parse.addr = NoAddr THEN {"getaddrinfo"} ELSE {}
    /\ IF call.op = "parse" \/ parse.addr = NoAddr
       THEN Return(-1, "new")
       ELSE /\ pc' = "socket"
            /\ call' = [call EXCEPT !.family = FamilyOf(parse.addr)]
            /\ UNCHANGED handed
    /\ errno' = "none"
    /\ UNCHANGED <<dns_map_, now, setBack, fds, list, memory, ifaces>>

(* Listen, of either type of socket. *)
Listen(type, family, text) ==
    /\ pc = "idle"
    /\ pc' = "socket"
    /\ call' = [NoCall EXCEPT !.op = type, !.text = text, !.family = family, !.async = TRUE]
    /\ faults' = {}
    /\ UNCHANGED <<dnsVars, utilVars>>
--------------------------------------------------------------------------------
(* Whether a new descriptor blocks after it: ioctl may fail. *)
SetNoBlocked(enable) == {~enable, TRUE}

(* CreateSocket, and the options, which are set or not: nobody looks at what  *)
(* their setters return.                                                      *)
CreateSocket ==
    /\ pc = "socket"
    /\ \E fd \in Fds \ fds, blocking \in SetNoBlocked(call.async) :
           /\ fds' = fds \cup {fd}
           /\ call' = [call EXCEPT !.fd = fd, !.blocking = blocking]
    /\ pc' = "bind"
    /\ UNCHANGED <<dnsVars, handed, list, memory, ifaces, faults>>

(* Mutant: Listen and Connect go on without a descriptor. *)
CreateSocketUnchecked ==
    /\ pc = "socket"
    /\ pc' = "bind"
    /\ faults' = faults \cup {"socket"}
    /\ UNCHANGED <<dnsVars, fds, handed, list, memory, ifaces, call>>

CreateSocketFails ==
    /\ pc = "socket"
    /\ faults' = faults \cup {"socket"}
    /\ Return(-1, "new")
    /\ UNCHANGED <<dnsVars, fds, list, memory, ifaces>>

(* Mutant: takes the first address of the interface. *)
GetAddrByIfFirst(family, text) ==
    LET found == {i \in DOMAIN list : text \in {list[i].name, list[i].addr}}
    IN IF found # {} THEN list[Min(found)].addr
       ELSE IF text = Any4 THEN Wildcard(family) ELSE NoAddr

(* get_addr_by_if: by the name of the interface, then by its address, and the *)
(* wildcard (get_default_addr) for "0.0.0.0" only.                            *)
GetAddrByIf(family, text) ==
    LET usable == {i \in DOMAIN list : list[i].addr \in OfFamily(family)}
        named  == {i \in usable : list[i].name = text}
        equal  == {i \in usable : list[i].addr = text}
    IN IF named # {} THEN list[Min(named)].addr
       ELSE IF equal # {} THEN list[Min(equal)].addr
       ELSE IF text = Any4 THEN Wildcard(family) ELSE NoAddr

GetIfAddrs == /\ pc = "bind"
              /\ list' = ifaces
              /\ memory' = {"addr", "list"}
              /\ pc' = "choose"
              /\ UNCHANGED <<dnsVars, fds, handed, ifaces, call, faults>>

GetIfAddrsFails == /\ pc = "bind"
                   /\ memory' = {}
                   /\ pc' = "close"
                   /\ faults' = faults \cup {"getifaddrs"}
                   /\ UNCHANGED <<dnsVars, fds, handed, list, ifaces, call>>

Choose == LET a == GetAddrByIf(call.family, call.text)
          IN /\ pc = "choose"
             /\ memory' = IF a = NoAddr THEN {} ELSE {"addr"}
             /\ call' = [call EXCEPT !.addr = a]
             /\ pc' = IF a = NoAddr THEN "close" ELSE "bind_to"
             /\ UNCHANGED <<dnsVars, fds, handed, list, ifaces, faults>>

OnHost(a) == a \in {Any4, Any6} \/ \E i \in DOMAIN ifaces : ifaces[i].addr = a

BindTo == /\ pc = "bind_to"
          /\ call.addr \in OfFamily(call.family)
          /\ OnHost(call.addr)
          /\ memory' = {}
          /\ pc' = IF call.op = "connect" THEN "connect" ELSE "listen"
          /\ UNCHANGED <<dnsVars, fds, handed, list, ifaces, call, faults>>

(* The address is in use or gone since getifaddrs; one of another family      *)
(* would be the fault of Bind.                                                *)
BindFails == /\ pc = "bind_to"
             /\ memory' = {}
             /\ pc' = "close"
             /\ faults' = faults \cup (IF call.addr \in OfFamily(call.family)
                                       THEN {"bind"} ELSE {})
             /\ UNCHANGED <<dnsVars, fds, handed, list, ifaces, call>>

(* Mutant: the error of Bind is returned as it is. *)
CloseAndFailLeaks == /\ pc = "close"
                     /\ Return(-1, "new")
                     /\ UNCHANGED <<dnsVars, fds, list, memory, ifaces, faults>>

CloseAndFail == /\ pc = "close"
                /\ fds' = fds \ {call.fd}
                /\ Return(-1, "new")
                /\ UNCHANGED <<dnsVars, list, memory, ifaces, faults>>
--------------------------------------------------------------------------------
(* The end of Connect: ::connect, and get_uv_error where it fails.  ENOBUFS   *)
(* stands for EAGAIN, too.                                                    *)

Translate(err) == IF err \in {"ENOBUFS", "EINPROGRESS"} THEN "EAGAIN" ELSE err

Connected == /\ pc = "connect"
             /\ Return(call.fd, "connected")
             /\ UNCHANGED <<dnsVars, fds, list, memory, ifaces, faults>>

ConnectReturns(err) ==
    /\ pc = "connect"
    /\ err = "EINPROGRESS" => ~call.blocking
    /\ faults' = faults \cup ({err} \ {"EINPROGRESS"})
    /\ IF call.async /\ Translate(err) = "EAGAIN"
       THEN Return(call.fd, IF err = "EINPROGRESS" THEN "connecting" ELSE "new")
       ELSE pc' = "close" /\ UNCHANGED <<call, handed>>
    /\ UNCHANGED <<dnsVars, fds, list, memory, ifaces>>

(* The end of Listen. *)
Listening == /\ pc = "listen"
             /\ Return(call.fd, IF call.op = "tcp" THEN "listening" ELSE "new")
             /\ UNCHANGED <<dnsVars, fds, list, memory, ifaces, faults>>

ListenFails == /\ pc = "listen"
               /\ call.op = "tcp"
               /\ pc' = "close"
               /\ faults' = faults \cup {"listen"}
               /\ UNCHANGED <<dnsVars, utilVars, call>>

(* The callers, and the host. *)
Taken == /\ pc = "returned"
         /\ pc' = "idle"
         /\ call' = NoCall
         /\ list' = <<>>
         /\ faults' = {}
         /\ UNCHANGED <<dnsVars, fds, handed, memory, ifaces>>

UserCloses(fd) == /\ pc = "idle"
                  /\ fd \in handed
                  /\ fds' = fds \ {fd}
                  /\ handed' = handed \ {fd}
                  /\ UNCHANGED <<dnsVars, list, memory, ifaces, pc, call, faults>>

Reconfigure == /\ ifaces' \in IfLists \ {ifaces}
               /\ UNCHANGED <<dnsVars, fds, handed, list, memory, pc, call, faults>>
--------------------------------------------------------------------------------
DNSSteps == /\ Answered \/ AskAgain \/ NotAnswered \/ Store
            /\ UNCHANGED <<utilVars, pc, call, faults>>

Clock == (Tick \/ SetBack) /\ UNCHANGED <<utilVars, pc, call, faults>>

Steps == \/ DNSSteps
         \/ ParseReturns
         \/ CreateSocket \/ CreateSocketFails
         \/ GetIfAddrs \/ GetIfAddrsFails \/ Choose
         \/ BindTo \/ BindFails \/ CloseAndFail
         \/ Connected \/ \E err \in {"EINPROGRESS", "ENOBUFS", "EINTR", "other"} :
                             ConnectReturns(err)
         \/ Listening \/ ListenFails
         \/ Taken

Next == \/ \E h \in Hosts : \/ \E e \in Expiries : StartParse(h, e)
                            \/ \E text \in Texts, async \in BOOLEAN :
                                   Connect(h, text, async)
        \/ \E type \in {"tcp", "udp"}, family \in Families, text \in Texts :
               Listen(type, family, text)
        \/ Steps
        \/ Clock
        \/ Reconfigure
        \/ \E fd \in Fds : UserCloses(fd)

Spec == Init /\ [][Next]_vars

(* A call goes on once it has begun, and so does getaddrinfo. *)
FairSpec == Spec /\ WF_vars(Steps)
--------------------------------------------------------------------------------
TypeOK ==
    /\ DNSTypeOK
    /\ handed \subseteq fds /\ fds \subseteq Fds
    /\ pc \in {"idle", "parse", "socket", "bind", "choose", "bind_to", "connect",
               "listen", "close", "returned"}
    /\ call \in [op : {"none", "parse", "connect", "tcp", "udp"}, text : Texts \cup {Any4},
                 async : BOOLEAN, family : Families, fd : Fds \cup {-1},
                 blocking : BOOLEAN, addr : Addrs \cup {Hardware, NoAddr},
                 state : {"new", "connecting", "connected", "listening"}]
    /\ pc \in {"bind", "choose", "bind_to", "connect", "listen", "close"} =>
           call.fd \in fds
    /\ list \in IfLists \cup {<<>>} /\ ifaces \in IfLists
    /\ memory \subseteq {"addr", "list"}

(* Whatever fails on the way: a descriptor is open only while a call works on *)
(* it or after it was returned, nothing that is closed is returned, and Bind  *)
(* leaves neither its address nor the list of interfaces allocated.           *)
NothingLeaks ==
    /\ fds \subseteq handed \cup (IF pc = "returned" THEN {} ELSE {call.fd})
    /\ pc \in {"returned", "idle"} => memory = {}
    /\ call.fd \in handed => pc = "returned"

(* What a value of local_ip_or_intf stands for, for sockets of a family.      *)
Meaning(family, text) ==
    {a \in OfFamily(family) :
        \/ \E i \in DOMAIN list : list[i].addr = a /\ text \in {list[i].name, a}
        \/ text = Any4 /\ a = Wildcard(family)}

(* A call fails only for a system call that failed or a local_ip_or_intf that *)
(* stands for nothing here.  A descriptor it returns is bound to an address   *)
(* that local_ip_or_intf stood for, and listens, is connected or, if async,   *)
(* about to be: but for ENOBUFS, which Connect takes for EINPROGRESS.         *)
OutcomeJustified ==
    (pc = "returned" /\ call.op # "parse") =>
        IF call.fd = -1
        THEN faults # {} \/ Meaning(call.family, call.text) = {}
        ELSE /\ call.addr \in Meaning(call.family, call.text)
             /\ faults \subseteq IF call.async THEN {"ENOBUFS"} ELSE {}
             /\ call.state \in IF call.op = "tcp" THEN {"listening"}
                               ELSE IF call.op = "udp" THEN {"new"}
                               ELSE IF ~call.async THEN {"connected"}
                               ELSE IF faults = {} THEN {"connecting", "connected"}
                               ELSE {"new"}

(* Parse answers from the cache only with an address that no caller has found *)
(* too old before, and that was stored at most expire_sec seconds ago, unless *)
(* the clock was set back since.                                              *)
FreshUnlessSetBack ==
    [][(parse.pc = "idle" /\ parse'.pc = "done") =>
           LET item == dns_map_[parse'.host]
               age  == now + setBack - item.create_time - item.setBack
           IN ~item.expired /\ (age <= parse'.expire \/ item.setBack < setBack)]_vars

(* A call returns, whatever fails, unless getaddrinfo goes on failing with    *)
(* EINTR in errno, which nobody need have put there for it.                   *)
CallReturns == []<>(pc = "idle") \/ <>[](parse.pc = "ask" /\ errno = "EINTR")
================================================================================
