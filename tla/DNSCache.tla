-------------------------------- MODULE DNSCache --------------------------------
(***************************************************************************)
(* DNSCache of net/dns_cache.cpp: addresses kept for some seconds of a clock  *)
(* that may be set back.  One thread calls Parse, and blocks in getaddrinfo.  *)
(* A module that uses the cache EXTENDS this one.                             *)
(***************************************************************************)
EXTENDS Integers, Functions

CONSTANTS Hosts, V4, V6,     \* names, and the addresses of either family
          Expiries,          \* values of expire_sec
          NoAddr,
          MaxNow, MaxSetBack \* bounds: the clock, and by how much it is set back

Addrs == V4 \cup V6

ASSUME DNSAssumption == /\ V4 \cap V6 = {} /\ NoAddr \notin Addrs
                        /\ Expiries \subseteq Nat
                        /\ MaxNow \in Nat /\ MaxSetBack \in 0..MaxNow

VARIABLES dns_map_,
          now,      \* get_current_seconds
          setBack,  \* history: the seconds the clock was set back, in all
          errno,    \* of the thread
          parse     \* the call of Parse, and its result once pc is "done"

dnsVars == <<dns_map_, now, setBack, errno, parse>>

Errnos == {"none", "EINTR", "EINPROGRESS", "ENOBUFS", "other"}

(* The last two fields are history: setBack when it was stored, and whether a *)
(* caller found it too old.                                                   *)
Item == [addr : Addrs, create_time : 0..MaxNow, setBack : 0..MaxSetBack,
         expired : BOOLEAN]

NoParse == [pc |-> "idle", host |-> NoAddr, expire |-> 0, addr |-> NoAddr]

DNSInit == /\ dns_map_ = <<>>
           /\ now = MaxSetBack
           /\ setBack = 0
           /\ errno = "none"
           /\ parse = NoParse

Expired(h, expire_sec) == dns_map_[h].create_time + expire_sec < now

(* Mutant: an entry that is too old is left for the next answer to replace.   *)
ForgetLazily(h) == dns_map_' = [dns_map_ EXCEPT ![h].expired = TRUE]

Forget(h) == dns_map_' = Restrict(dns_map_, DOMAIN dns_map_ \ {h})

(* Parse, as far as get_cache_domain_ip: found, found too old, or not found. *)
Parse(h, expire_sec) ==
    LET hit == h \in DOMAIN dns_map_ /\ ~Expired(h, expire_sec)
    IN /\ parse' = [pc |-> IF hit THEN "done" ELSE "ask", host |-> h,
                    expire |-> expire_sec,
                    addr |-> IF hit THEN dns_map_[h].addr ELSE NoAddr]
       /\ IF h \in DOMAIN dns_map_ /\ ~hit THEN Forget(h) ELSE UNCHANGED dns_map_
       /\ UNCHANGED <<now, setBack, errno>>
--------------------------------------------------------------------------------
(* get_system_domain_ip.  getaddrinfo reports a failure by what it returns,   *)
(* and sets errno or leaves it.                                               *)

Answered == /\ parse.pc = "ask"
            /\ \E a \in Addrs : parse' = [parse EXCEPT !.pc = "store", !.addr = a]
            /\ UNCHANGED <<dns_map_, now, setBack, errno>>

(* Mutant: asks again whatever the failure. *)
AskAgainAlways == /\ parse.pc = "ask"
                  /\ errno' \in Errnos
                  /\ UNCHANGED <<dns_map_, now, setBack, parse>>

AskAgain == /\ parse.pc = "ask"
            /\ errno' = "EINTR"
            /\ UNCHANGED <<dns_map_, now, setBack, parse>>

NotAnswered == /\ parse.pc = "ask"
               /\ errno' \in {errno, "other"} \ {"EINTR"}
               /\ parse' = [parse EXCEPT !.pc = "done"]
               /\ UNCHANGED <<dns_map_, now, setBack>>

Store ==
    LET item == [addr |-> parse.addr, create_time |-> now, setBack |-> setBack,
                 expired |-> FALSE]
    IN /\ parse.pc = "store"
       /\ dns_map_' = [h \in DOMAIN dns_map_ \cup {parse.host} |->
                           IF h = parse.host THEN item ELSE dns_map_[h]]
       /\ parse' = [parse EXCEPT !.pc = "done"]
       /\ UNCHANGED <<now, setBack, errno>>

(* The thread that keeps the time of day, and who sets it back.               *)
Tick == now < MaxNow /\ now' = now + 1 /\ UNCHANGED <<dns_map_, setBack, errno, parse>>

SetBack == /\ now > 0
           /\ setBack < MaxSetBack
           /\ now' = now - 1
           /\ setBack' = setBack + 1
           /\ UNCHANGED <<dns_map_, errno, parse>>
--------------------------------------------------------------------------------
DNSTypeOK == /\ DOMAIN dns_map_ \subseteq Hosts
             /\ \A h \in DOMAIN dns_map_ : dns_map_[h] \in Item
             /\ now \in 0..MaxNow
             /\ setBack \in 0..MaxSetBack
             /\ errno \in Errnos
             /\ parse \in [pc : {"idle", "ask", "store", "done"},
                           host : Hosts \cup {NoAddr}, expire : Expiries \cup {0},
                           addr : Addrs \cup {NoAddr}]
================================================================================
