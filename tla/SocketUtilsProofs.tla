--------------------------- MODULE SocketUtilsProofs ---------------------------
(***************************************************************************)
(* Theorems about SocketUtils and its DNSCache: what a call leaves behind and *)
(* what it returns, whichever of its system calls fails, for any hosts,       *)
(* addresses, interfaces and values of local_ip_or_intf; and how old an       *)
(* address of the cache may be.                                               *)
(***************************************************************************)
EXTENDS SocketUtils, SequenceTheorems, WellFoundedInduction, TLAPS

LEMMA MinInside ==
    ASSUME NEW T \in SUBSET Nat, T # {}
    PROVE  Min(T) \in T
<1> DEFINE R == OpToRel(<, Nat)
<1>1. IsWellFoundedOn(R, Nat)
  BY NatLessThanWellFounded
<1> HIDE DEF R
<1>2. PICK x \in T : \A y \in T : ~(<<y, x>> \in R)
  BY <1>1, WFMin
<1>3. \A y \in T : x <= y
  <2>1. \A y \in T : ~(y < x)
    BY <1>2 DEF R, OpToRel
  <2> QED
    BY <2>1
<1> QED
  BY <1>3 DEF Min
--------------------------------------------------------------------------------
(* The cache, and the call of Parse.                                           *)

(* No entry is from the future, but for the clock that is set back, and none   *)
(* was left that a caller found too old.                                       *)
CacheInv ==
    /\ DNSTypeOK
    /\ \A h \in DOMAIN dns_map_ : /\ ~dns_map_[h].expired
                                  /\ dns_map_[h].setBack <= setBack
    /\ parse.pc # "idle" => parse.host \in Hosts
    /\ parse.pc = "store" => parse.addr \in Addrs

LEMMA CacheInit == DNSInit => CacheInv
<1> SUFFICES ASSUME DNSInit PROVE CacheInv
  OBVIOUS
<1>1. DOMAIN dns_map_ = {}
  BY DEF DNSInit
<1>2. now \in 0..MaxNow /\ setBack \in 0..MaxSetBack
  BY DNSAssumption DEF DNSInit
<1>3. errno \in Errnos
  BY DEF DNSInit, Errnos
<1> QED
  BY <1>1, <1>2, <1>3 DEF DNSInit, CacheInv, DNSTypeOK, NoParse

LEMMA ParseKeeps ==
    ASSUME CacheInv, NEW h \in Hosts, NEW e \in Expiries, Parse(h, e)
    PROVE  CacheInv'
<1>1. UNCHANGED <<now, setBack, errno>>
  BY DEF Parse
<1>2. \/ dns_map_' = dns_map_
      \/ /\ DOMAIN dns_map_' = DOMAIN dns_map_ \ {h}
         /\ \A n \in DOMAIN dns_map_' : dns_map_'[n] = dns_map_[n]
  BY DEF Parse, Forget, Restrict
<1>3. /\ parse'.pc \in {"done", "ask"} /\ parse'.host = h
      /\ parse' \in [pc : {"idle", "ask", "store", "done"}, host : Hosts \cup {NoAddr},
                     expire : Expiries \cup {0}, addr : Addrs \cup {NoAddr}]
  <2>1. h \in DOMAIN dns_map_ => dns_map_[h].addr \in Addrs
    BY DEF CacheInv, DNSTypeOK, Item
  <2> QED
    BY <2>1 DEF Parse
<1> QED
  BY <1>1, <1>2, <1>3 DEF CacheInv, DNSTypeOK

LEMMA DNSStepKeeps ==
    ASSUME CacheInv, Answered \/ AskAgain \/ NotAnswered \/ Store \/ Tick \/ SetBack
    PROVE  CacheInv'
<1>0. DNSTypeOK
  BY DEF CacheInv
<1>1. CASE Answered
  BY <1>1 DEF Answered, CacheInv, DNSTypeOK
<1>2. CASE AskAgain
  BY <1>2 DEF AskAgain, CacheInv, DNSTypeOK, Errnos
<1>3. CASE NotAnswered
  BY <1>3 DEF NotAnswered, CacheInv, DNSTypeOK, Errnos
<1>4. CASE Store
  <2> DEFINE item == [addr |-> parse.addr, create_time |-> now, setBack |-> setBack,
                      expired |-> FALSE]
  <2>1. /\ parse.host \in Hosts /\ item \in Item
        /\ item.expired = FALSE /\ item.setBack = setBack
    BY <1>4 DEF Store, CacheInv, DNSTypeOK, Item
  <2>2. /\ DOMAIN dns_map_' = DOMAIN dns_map_ \cup {parse.host}
        /\ \A h \in DOMAIN dns_map_' :
              dns_map_'[h] = IF h = parse.host THEN item ELSE dns_map_[h]
        /\ parse' = [parse EXCEPT !.pc = "done"]
        /\ UNCHANGED <<now, setBack, errno>>
    BY <1>4 DEF Store
  <2>3. setBack \in Nat
    BY <1>0, DNSAssumption DEF DNSTypeOK
  <2> HIDE DEF item
  <2>4. \A h \in DOMAIN dns_map_' : /\ dns_map_'[h] \in Item
                                    /\ ~dns_map_'[h].expired
                                    /\ dns_map_'[h].setBack <= setBack'
    BY <2>1, <2>2, <2>3 DEF CacheInv, DNSTypeOK
  <2>5. /\ parse'.pc = "done" /\ parse'.host \in Hosts
        /\ parse' \in [pc : {"idle", "ask", "store", "done"}, host : Hosts \cup {NoAddr},
                       expire : Expiries \cup {0}, addr : Addrs \cup {NoAddr}]
    BY <1>0, <2>1, <2>2 DEF DNSTypeOK
  <2> QED
    BY <1>0, <2>1, <2>2, <2>4, <2>5 DEF CacheInv, DNSTypeOK
<1>5. CASE Tick
  <2>1. now' \in 0..MaxNow
    BY <1>5, <1>0, DNSAssumption DEF Tick, DNSTypeOK
  <2> QED
    BY <1>5, <2>1 DEF Tick, CacheInv, DNSTypeOK
<1>6. CASE SetBack
  <2>1. now' \in 0..MaxNow /\ setBack' \in 0..MaxSetBack /\ setBack' = setBack + 1
    BY <1>6, <1>0, DNSAssumption DEF SetBack, DNSTypeOK
  <2>2. \A h \in DOMAIN dns_map_ : dns_map_[h].setBack \in Nat
    BY <1>0, DNSAssumption DEF DNSTypeOK, Item
  <2>3. setBack \in Nat
    BY <1>0, DNSAssumption DEF DNSTypeOK
  <2>4. \A h \in DOMAIN dns_map_ : dns_map_[h].setBack <= setBack'
    BY <2>1, <2>2, <2>3 DEF CacheInv
  <2> QED
    BY <1>6, <2>1, <2>4 DEF SetBack, CacheInv, DNSTypeOK
<1> QED
  BY <1>1, <1>2, <1>3, <1>4, <1>5, <1>6
--------------------------------------------------------------------------------
(* get_addr_by_if finds an address exactly if local_ip_or_intf stands for one, *)
(* and then one that it stands for.                                            *)
LEMMA GetAddrMeans ==
    ASSUME TypeOK, NEW family \in Families, NEW text
    PROVE  LET a == GetAddrByIf(family, text)
           IN \/ a \in Meaning(family, text)
              \/ a = NoAddr /\ Meaning(family, text) = {}
<1> DEFINE usable == {i \in DOMAIN list : list[i].addr \in OfFamily(family)}
           named == {i \in usable : list[i].name = text}
           equal == {i \in usable : list[i].addr = text}
           a == GetAddrByIf(family, text)
<1>1. a = IF named # {} THEN list[Min(named)].addr
          ELSE IF equal # {} THEN list[Min(equal)].addr
          ELSE IF text = Any4 THEN Wildcard(family) ELSE NoAddr
  BY DEF GetAddrByIf
<1>2. DOMAIN list \subseteq Nat
  <2> DEFINE S == [name : Names, addr : (Addrs \cup {Hardware}) \ {Any4, Any6}]
  <2>1. IfLists \subseteq Seq(S) /\ list \in IfLists \cup {<<>>}
    BY UtilsAssumption DEF TypeOK
  <2> HIDE DEF S
  <2>2. list \in Seq(S)
    BY <2>1, EmptySeq
  <2> QED
    BY <2>2
<1>3. named \in SUBSET Nat /\ equal \in SUBSET Nat
  BY <1>2
<1>4. \A i \in usable : list[i].addr \in OfFamily(family) /\ i \in DOMAIN list
  OBVIOUS
<1>5. \A i \in named : i \in usable /\ list[i].name = text
  OBVIOUS
<1>6. \A i \in equal : i \in usable /\ list[i].addr = text
  OBVIOUS
<1>7. \A i \in usable : list[i].name = text => i \in named
  OBVIOUS
<1>8. \A i \in usable : list[i].addr = text => i \in equal
  OBVIOUS
<1>9. \A i \in DOMAIN list : list[i].addr \in OfFamily(family) => i \in usable
  OBVIOUS
<1> HIDE DEF usable, named, equal, a
<1>10. CASE named # {}
  <2>1. Min(named) \in named
    BY <1>3, <1>10, MinInside
  <2>2. a = list[Min(named)].addr
    BY <1>1, <1>10
  <2>3. a \in Meaning(family, text)
    BY <1>4, <1>5, <2>1, <2>2 DEF Meaning
  <2> QED
    BY <2>3 DEF a
<1>11. CASE named = {} /\ equal # {}
  <2>1. Min(equal) \in equal
    BY <1>3, <1>11, MinInside
  <2>2. a = list[Min(equal)].addr
    BY <1>1, <1>11
  <2>3. a \in Meaning(family, text)
    BY <1>4, <1>6, <2>1, <2>2 DEF Meaning
  <2> QED
    BY <2>3 DEF a
<1>12. CASE named = {} /\ equal = {}
  <2>1. ~\E x \in OfFamily(family) :
            \E i \in DOMAIN list : list[i].addr = x /\ text \in {list[i].name, x}
    BY <1>7, <1>8, <1>9, <1>12
  <2>2. Wildcard(family) \in OfFamily(family)
    BY UtilsAssumption DEF Wildcard, OfFamily, Families
  <2>3. IF text = Any4 THEN a = Wildcard(family) ELSE a = NoAddr
    BY <1>1, <1>12
  <2>4. a \in Meaning(family, text) \/ (a = NoAddr /\ Meaning(family, text) = {})
    BY <2>1, <2>2, <2>3 DEF Meaning
  <2> QED
    BY <2>4 DEF a
<1> QED
  BY <1>10, <1>11, <1>12

InBind == {"choose", "bind_to"}
Works == {"socket", "bind", "choose", "bind_to", "connect", "listen"}

(* What the call in progress has done so far. *)
CallInv ==
    /\ pc \in {"idle", "parse", "socket"} => call.fd = -1
    /\ pc \notin InBind => memory = {}
    /\ pc # "returned" => call.state = "new"
    /\ pc = "parse" => call.op \in {"parse", "connect"}
    /\ pc \in Works => faults = {} /\ call.op \in {"connect", "tcp", "udp"}
    /\ pc = "connect" => call.op = "connect"
    /\ pc = "listen" => call.op # "connect"
    /\ pc \in {"bind_to", "connect", "listen"} => call.addr \in Meaning(call.family, call.text)
    /\ pc = "close" => faults # {} \/ Meaning(call.family, call.text) = {}
    /\ pc \in Works \ {"socket"} => call.async \/ call.blocking

UtilsInv == CacheInv /\ TypeOK /\ NothingLeaks /\ CallInv /\ OutcomeJustified

LEMMA UtilsInit == Init => UtilsInv
<1> SUFFICES ASSUME Init PROVE UtilsInv
  OBVIOUS
<1>1. CacheInv /\ DNSTypeOK
  BY CacheInit DEF Init, CacheInv
<1>2. TypeOK
  BY <1>1 DEF Init, TypeOK, NoCall, Families
<1>3. NothingLeaks
  BY DEF Init, NothingLeaks
<1>4. CallInv
  BY DEF Init, CallInv, NoCall, Works
<1>5. OutcomeJustified
  BY DEF Init, OutcomeJustified
<1> QED
  BY <1>1, <1>2, <1>3, <1>4, <1>5 DEF UtilsInv

LEMMA SameMeaning ==
    ASSUME list' = list, call'.family = call.family, call'.text = call.text
    PROVE  Meaning(call.family, call.text)' = Meaning(call.family, call.text)
  BY DEF Meaning, OfFamily, Wildcard

(* A step of the cache, the clock or the host during the call.                 *)
LEMMA CallRests ==
    ASSUME UtilsInv, CacheInv', ifaces' \in IfLists,
           UNCHANGED <<fds, handed, list, memory, pc, call, faults>>
    PROVE  UtilsInv'
<1>1. TypeOK'
  BY DEF UtilsInv, TypeOK, CacheInv
<1>2. NothingLeaks'
  BY DEF UtilsInv, NothingLeaks
<1>3. Meaning(call.family, call.text)' = Meaning(call.family, call.text)
  BY SameMeaning
<1>4. CallInv' /\ OutcomeJustified'
  BY <1>3 DEF UtilsInv, CallInv, OutcomeJustified
<1> QED
  BY <1>1, <1>2, <1>4 DEF UtilsInv

Calls == [op : {"none", "parse", "connect", "tcp", "udp"}, text : Texts \cup {Any4},
          async : BOOLEAN, family : Families, fd : Fds \cup {-1},
          blocking : BOOLEAN, addr : Addrs \cup {Hardware, NoAddr},
          state : {"new", "connecting", "connected", "listening"}]

(* A call returns: what it hands over is open, and the caller's from now on.   *)
LEMMA ReturnKeeps ==
    ASSUME UtilsInv, NEW fd, NEW state,
           pc \in {"parse", "socket", "connect", "listen", "close"},
           Return(fd, state),
           state \in {"new", "connecting", "connected", "listening"},
           fd = -1 \/ (fd = call.fd /\ pc \in {"connect", "listen"}),
           fd = -1 => fds' \subseteq handed /\ handed \subseteq fds',
           fd # -1 => fds' = fds,
           CacheInv',
           UNCHANGED <<list, memory, ifaces>>
    PROVE  /\ TypeOK' /\ NothingLeaks' /\ CallInv'
           /\ call' \in Calls /\ pc' = "returned"
           /\ call'.fd = fd /\ call'.state = state
           /\ call'.op = call.op /\ call'.family = call.family /\ call'.text = call.text
           /\ call'.addr = call.addr /\ call'.async = call.async
<1>1. /\ pc' = "returned" /\ call' = [call EXCEPT !.fd = fd, !.state = state]
      /\ handed' = handed \cup ({fd} \ {-1})
  BY DEF Return
<1>2. TypeOK /\ NothingLeaks /\ CallInv /\ call \in Calls /\ DNSTypeOK'
  BY DEF UtilsInv, TypeOK, Calls, CacheInv
<1>3. pc \in {"connect", "listen"} => call.fd \in fds
  BY <1>2 DEF TypeOK
<1>4. fd \in Fds \cup {-1}
  BY <1>2, <1>3 DEF TypeOK
<1>5. /\ call' \in Calls
      /\ call'.fd = fd /\ call'.state = state
      /\ call'.op = call.op /\ call'.family = call.family /\ call'.text = call.text
      /\ call'.addr = call.addr /\ call'.async = call.async
  BY <1>1, <1>2, <1>4 DEF Calls
<1>6. handed' \subseteq fds' /\ fds' \subseteq Fds /\ fds' \subseteq handed'
  <2>1. CASE fd = -1
    BY <1>1, <1>2, <2>1 DEF TypeOK
  <2>2. CASE fd # -1
    BY <1>1, <1>2, <1>3, <2>2 DEF TypeOK, NothingLeaks
  <2> QED
    BY <2>1, <2>2
<1>7. memory' = {}
  BY <1>2 DEF CallInv, InBind
<1>8. TypeOK'
  BY <1>1, <1>2, <1>5, <1>6, <1>7 DEF TypeOK, Calls
<1>9. NothingLeaks'
  BY <1>1, <1>6, <1>7 DEF NothingLeaks
<1>10. CallInv'
  BY <1>1, <1>7 DEF CallInv, InBind, Works
<1> QED
  BY <1>1, <1>5, <1>8, <1>9, <1>10

LEMMA NegativeFd == -1 \notin Fds /\ -1 \notin {} /\ NoAddr \notin Addrs
  BY UtilsAssumption, DNSAssumption

LEMMA MeaningTyped ==
    ASSUME NEW family \in Families, NEW text
    PROVE  Meaning(family, text) \subseteq OfFamily(family) /\ OfFamily(family) \subseteq Addrs
  BY DEF Meaning, OfFamily, Addrs, Families

(* A call begins, with no descriptor of its own. *)
LEMMA StartKeeps ==
    ASSUME UtilsInv, pc = "idle", CacheInv', call' \in Calls, pc' \in {"parse", "socket"},
           call'.fd = -1, call'.state = "new",
           pc' = "parse" => call'.op \in {"parse", "connect"},
           pc' = "socket" => call'.op \in {"tcp", "udp"},
           faults' = {}, UNCHANGED utilVars
    PROVE  UtilsInv'
<1>1. TypeOK /\ NothingLeaks /\ CallInv /\ DNSTypeOK'
  BY DEF UtilsInv, CacheInv
<1>2. fds' = fds /\ handed' = handed /\ list' = list /\ memory' = memory /\ ifaces' = ifaces
  BY DEF utilVars
<1>3. TypeOK'
  BY <1>1, <1>2 DEF TypeOK, Calls
<1>4. fds \subseteq handed /\ -1 \notin handed /\ memory = {}
  BY <1>1, NegativeFd DEF NothingLeaks, CallInv, TypeOK, InBind
<1>5. NothingLeaks'
  BY <1>2, <1>4 DEF NothingLeaks
<1>6. CallInv'
  BY <1>2, <1>4 DEF CallInv, InBind, Works
<1>7. OutcomeJustified'
  BY DEF OutcomeJustified
<1> QED
  BY <1>3, <1>5, <1>6, <1>7 DEF UtilsInv

LEMMA UtilsNext == UtilsInv /\ [Next]_vars => UtilsInv'
<1> SUFFICES ASSUME UtilsInv, [Next]_vars PROVE UtilsInv'
  OBVIOUS
<1>0. /\ CacheInv /\ TypeOK /\ NothingLeaks /\ CallInv /\ OutcomeJustified
      /\ call \in Calls /\ ifaces \in IfLists
  BY DEF UtilsInv, TypeOK, Calls
<1>1. UNCHANGED dnsVars => CacheInv'
  BY <1>0 DEF dnsVars, CacheInv, DNSTypeOK
<1>2. ASSUME NEW h \in Hosts, NEW e \in Expiries, StartParse(h, e)
      PROVE  UtilsInv'
  <2>1. CacheInv'
    BY <1>0, <1>2, ParseKeeps DEF StartParse
  <2>2. call' \in Calls /\ call'.fd = -1 /\ call'.state = "new" /\ call'.op = "parse"
    BY <1>2 DEF StartParse, NoCall, Calls, Families
  <2> QED
    BY <1>2, <2>1, <2>2, StartKeeps DEF StartParse
<1>3. ASSUME NEW h \in Hosts, NEW text \in Texts, NEW async \in BOOLEAN, Connect(h, text, async)
      PROVE  UtilsInv'
  <2>1. CacheInv'
    BY <1>0, <1>3, ParseKeeps, UtilsAssumption DEF Connect
  <2>2. call' \in Calls /\ call'.fd = -1 /\ call'.state = "new" /\ call'.op = "connect"
    BY <1>3 DEF Connect, NoCall, Calls, Families
  <2> QED
    BY <1>3, <2>1, <2>2, StartKeeps DEF Connect
<1>4. ASSUME NEW type \in {"tcp", "udp"}, NEW family \in Families, NEW text \in Texts,
             Listen(type, family, text)
      PROVE  UtilsInv'
  <2>1. CacheInv'
    BY <1>1, <1>4 DEF Listen
  <2>2. call' \in Calls /\ call'.fd = -1 /\ call'.state = "new" /\ call'.op \in {"tcp", "udp"}
    BY <1>4 DEF Listen, NoCall, Calls, Families
  <2> QED
    BY <1>4, <2>1, <2>2, StartKeeps DEF Listen
<1>5. CASE DNSSteps \/ Clock
  <2>1. CacheInv'
    BY <1>0, <1>5, DNSStepKeeps DEF DNSSteps, Clock
  <2> QED
    BY <1>0, <1>5, <2>1, CallRests DEF DNSSteps, Clock, utilVars
<1>6. CASE Reconfigure
  BY <1>1, <1>6, CallRests DEF Reconfigure
<1>7. CASE UNCHANGED vars
  BY <1>0, <1>1, <1>7, CallRests DEF vars, utilVars
<1>8. CASE ParseReturns
  <2>1. /\ pc = "parse" /\ parse.pc = "done" /\ parse' = NoParse /\ errno' = "none"
        /\ faults' = IF parse.addr = NoAddr THEN {"getaddrinfo"} ELSE {}
        /\ UNCHANGED <<dns_map_, now, setBack, fds, list, memory, ifaces>>
    BY <1>8 DEF ParseReturns
  <2>2. CacheInv'
    BY <1>0, <2>1 DEF CacheInv, DNSTypeOK, NoParse, Errnos
  <2>3. fds \subseteq handed /\ handed \subseteq fds /\ memory = {} /\ call.fd = -1
    BY <1>0, <2>1, NegativeFd DEF NothingLeaks, CallInv, TypeOK, InBind
  <2>4. CASE call.op = "parse" \/ parse.addr = NoAddr
    <3>1. Return(-1, "new")
      BY <1>8, <2>4 DEF ParseReturns
    <3>2. /\ TypeOK' /\ NothingLeaks' /\ CallInv'
          /\ call'.fd = -1 /\ call'.op = call.op
      BY <2>1, <2>2, <2>3, <3>1, ReturnKeeps
    <3>3. OutcomeJustified'
      BY <2>1, <2>4, <3>2 DEF OutcomeJustified
    <3> QED
      BY <2>2, <3>2, <3>3 DEF UtilsInv
  <2>5. CASE call.op # "parse" /\ parse.addr # NoAddr
    <3>1. /\ pc' = "socket" /\ call' = [call EXCEPT !.family = FamilyOf(parse.addr)]
          /\ handed' = handed /\ faults' = {}
      BY <1>8, <2>1, <2>5 DEF ParseReturns
    <3>2. /\ call' \in Calls /\ call'.fd = -1 /\ call'.state = "new" /\ call'.op = "connect"
      BY <1>0, <2>1, <2>3, <2>5, <3>1 DEF Calls, FamilyOf, Families, CallInv
    <3>3. TypeOK'
      BY <1>0, <2>1, <2>2, <3>1, <3>2 DEF TypeOK, Calls, CacheInv
    <3>4. NothingLeaks'
      BY <2>1, <2>3, <3>1, <3>2, <1>0, NegativeFd DEF NothingLeaks, TypeOK
    <3>5. CallInv' /\ OutcomeJustified'
      BY <2>1, <2>3, <3>1, <3>2 DEF CallInv, OutcomeJustified, InBind, Works
    <3> QED
      BY <2>2, <3>3, <3>4, <3>5 DEF UtilsInv
  <2> QED
    BY <2>4, <2>5
<1>9. CASE CreateSocket
  <2>1. PICK fd \in Fds \ fds, blocking \in SetNoBlocked(call.async) :
           /\ fds' = fds \cup {fd}
           /\ call' = [call EXCEPT !.fd = fd, !.blocking = blocking]
    BY <1>9 DEF CreateSocket
  <2>2. /\ pc = "socket" /\ pc' = "bind"
        /\ UNCHANGED <<dnsVars, handed, list, memory, ifaces, faults>>
    BY <1>9 DEF CreateSocket
  <2>3. fds \subseteq handed /\ handed \subseteq fds /\ memory = {} /\ faults = {}
        /\ call.op \in {"connect", "tcp", "udp"} /\ call.state = "new"
    BY <1>0, <2>2, NegativeFd DEF NothingLeaks, CallInv, TypeOK, InBind, Works
  <2>4. /\ call' \in Calls /\ call'.fd = fd /\ call'.state = "new" /\ call'.op = call.op
        /\ call'.async \/ call'.blocking
    BY <1>0, <2>1, <2>3 DEF Calls, SetNoBlocked
  <2>5. CacheInv' /\ DNSTypeOK'
    BY <1>1, <2>2 DEF CacheInv
  <2>6. TypeOK'
    BY <1>0, <2>1, <2>2, <2>4, <2>5 DEF TypeOK, Calls
  <2>7. NothingLeaks'
    BY <2>1, <2>2, <2>3, <2>4 DEF NothingLeaks
  <2>8. CallInv' /\ OutcomeJustified'
    BY <2>2, <2>3, <2>4 DEF CallInv, OutcomeJustified, InBind, Works
  <2> QED
    BY <2>5, <2>6, <2>7, <2>8 DEF UtilsInv
<1>10. CASE CreateSocketFails
  <2>1. /\ pc = "socket" /\ faults' = faults \cup {"socket"} /\ Return(-1, "new")
        /\ UNCHANGED <<dnsVars, fds, list, memory, ifaces>>
    BY <1>10 DEF CreateSocketFails
  <2>2. fds \subseteq handed /\ handed \subseteq fds
    BY <1>0, <2>1, NegativeFd DEF NothingLeaks, CallInv, TypeOK
  <2>3. /\ TypeOK' /\ NothingLeaks' /\ CallInv' /\ call'.fd = -1
    BY <1>1, <2>1, <2>2, ReturnKeeps
  <2>4. OutcomeJustified'
    BY <2>1, <2>3 DEF OutcomeJustified
  <2> QED
    BY <1>1, <2>1, <2>3, <2>4 DEF UtilsInv
(* Bind, and the other steps with a descriptor that belongs to nobody yet.     *)
<1>11. ASSUME UNCHANGED <<dnsVars, fds, handed, ifaces>>,
              pc \in Works \ {"socket"},
              pc' \in (Works \ {"socket"}) \cup {"close"},
              call' \in Calls, call'.fd = call.fd,
              list' \in IfLists \cup {<<>>},
              memory' \subseteq {"addr", "list"}, CallInv'
       PROVE  UtilsInv'
  <2>1. CacheInv' /\ DNSTypeOK'
    BY <1>1, <1>11 DEF CacheInv
  <2>2. TypeOK'
    BY <1>0, <1>11, <2>1 DEF TypeOK, Calls, Works
  <2>3. NothingLeaks'
    BY <1>0, <1>11 DEF NothingLeaks, Works
  <2>4. OutcomeJustified'
    BY <1>11 DEF OutcomeJustified, Works
  <2> QED
    BY <1>11, <2>1, <2>2, <2>3, <2>4 DEF UtilsInv
<1>12. CASE GetIfAddrs
  <2>1. /\ pc = "bind" /\ pc' = "choose" /\ list' = ifaces /\ memory' = {"addr", "list"}
        /\ UNCHANGED <<dnsVars, fds, handed, ifaces, call, faults>>
    BY <1>12 DEF GetIfAddrs
  <2>2. CallInv'
    BY <1>0, <2>1 DEF CallInv, InBind, Works
  <2> QED
    BY <1>0, <1>11, <2>1, <2>2 DEF Works
<1>13. CASE GetIfAddrsFails
  <2>1. /\ pc = "bind" /\ pc' = "close" /\ memory' = {} /\ faults' = faults \cup {"getifaddrs"}
        /\ UNCHANGED <<dnsVars, fds, handed, ifaces, call, list>>
    BY <1>13 DEF GetIfAddrsFails
  <2>2. CallInv'
    BY <1>0, <2>1 DEF CallInv, InBind, Works
  <2> QED
    BY <1>0, <1>11, <2>1, <2>2 DEF Works, TypeOK
<1>14. CASE Choose
  <2> DEFINE a == GetAddrByIf(call.family, call.text)
  <2>1. /\ pc = "choose" /\ memory' = IF a = NoAddr THEN {} ELSE {"addr"}
        /\ call' = [call EXCEPT !.addr = a]
        /\ pc' = IF a = NoAddr THEN "close" ELSE "bind_to"
        /\ UNCHANGED <<dnsVars, fds, handed, list, ifaces, faults>>
    BY <1>14 DEF Choose
  <2>2. call.family \in Families
    BY <1>0 DEF Calls
  <2>3. \/ a \in Meaning(call.family, call.text)
        \/ a = NoAddr /\ Meaning(call.family, call.text) = {}
    BY <1>0, <2>2, GetAddrMeans
  <2>4. a \in Addrs \cup {NoAddr} /\ (a # NoAddr <=> a \in Meaning(call.family, call.text))
    BY <2>2, <2>3, MeaningTyped, NegativeFd
  <2> HIDE DEF a
  <2>5. /\ call' \in Calls /\ call'.fd = call.fd /\ call'.addr = a /\ call'.state = call.state
        /\ call'.family = call.family /\ call'.text = call.text /\ call'.op = call.op
        /\ call'.async = call.async /\ call'.blocking = call.blocking
    BY <1>0, <2>1, <2>4 DEF Calls
  <2>6. Meaning(call.family, call.text)' = Meaning(call.family, call.text)
    BY <2>1, <2>5, SameMeaning
  <2>7. CallInv'
    BY <1>0, <2>1, <2>3, <2>4, <2>5, <2>6 DEF CallInv, InBind, Works
  <2> QED
    BY <1>0, <1>11, <2>1, <2>5, <2>7 DEF Works, TypeOK
<1>15. CASE BindTo \/ BindFails
  <2>1. /\ pc = "bind_to" /\ memory' = {}
        /\ UNCHANGED <<dnsVars, fds, handed, list, ifaces, call>>
        /\ \/ /\ pc' = IF call.op = "connect" THEN "connect" ELSE "listen"
              /\ faults' = faults
           \/ /\ pc' = "close"
              /\ call.addr \in OfFamily(call.family) => faults' # {}
    BY <1>15 DEF BindTo, BindFails
  <2>2. Meaning(call.family, call.text)' = Meaning(call.family, call.text)
    BY <2>1, SameMeaning
  <2>3. call.addr \in OfFamily(call.family)
    BY <1>0, <2>1, MeaningTyped DEF CallInv, Calls
  <2>4. CallInv'
    BY <1>0, <2>1, <2>2, <2>3 DEF CallInv, InBind, Works
  <2> QED
    BY <1>0, <1>11, <2>1, <2>4 DEF Works, TypeOK
<1>16. CASE CloseAndFail
  <2>1. /\ pc = "close" /\ fds' = fds \ {call.fd} /\ Return(-1, "new")
        /\ UNCHANGED <<dnsVars, list, memory, ifaces, faults>>
    BY <1>16 DEF CloseAndFail
  <2>2. fds' \subseteq handed /\ handed \subseteq fds'
    BY <1>0, <2>1 DEF NothingLeaks, TypeOK
  <2>3. /\ TypeOK' /\ NothingLeaks' /\ CallInv' /\ call'.fd = -1
        /\ call'.family = call.family /\ call'.text = call.text
    BY <1>1, <2>1, <2>2, ReturnKeeps
  <2>4. Meaning(call.family, call.text)' = Meaning(call.family, call.text)
    BY <2>1, <2>3, SameMeaning
  <2>5. OutcomeJustified'
    BY <1>0, <2>1, <2>3, <2>4 DEF OutcomeJustified, CallInv
  <2> QED
    BY <1>1, <2>1, <2>3, <2>5 DEF UtilsInv
<1>17. CASE ListenFails
  <2>1. /\ pc = "listen" /\ pc' = "close" /\ faults' = faults \cup {"listen"}
        /\ UNCHANGED <<dnsVars, fds, handed, list, memory, ifaces, call>>
    BY <1>17 DEF ListenFails, utilVars
  <2>2. CallInv'
    BY <1>0, <2>1 DEF CallInv, InBind, Works
  <2> QED
    BY <1>0, <1>11, <2>1, <2>2 DEF Works, TypeOK
(* The call returns its descriptor. *)
<1>18. ASSUME NEW state, pc \in {"connect", "listen"}, Return(call.fd, state),
              state \in {"new", "connecting", "connected", "listening"},
              UNCHANGED <<dnsVars, fds, list, memory, ifaces>>,
              faults' \subseteq IF call.async THEN {"ENOBUFS"} ELSE {},
              state \in IF call.op = "tcp" THEN {"listening"}
                        ELSE IF call.op = "udp" THEN {"new"}
                        ELSE IF ~call.async THEN {"connected"}
                        ELSE IF faults' = {} THEN {"connecting", "connected"}
                        ELSE {"new"}
       PROVE  UtilsInv'
  <2>1. call.fd \in fds /\ call.fd # -1
    BY <1>0, <1>18, NegativeFd DEF TypeOK
  <2>2. /\ TypeOK' /\ NothingLeaks' /\ CallInv'
        /\ call'.fd = call.fd /\ call'.state = state
        /\ call'.op = call.op /\ call'.family = call.family /\ call'.text = call.text
        /\ call'.addr = call.addr /\ call'.async = call.async
    BY <1>1, <1>18, <2>1, ReturnKeeps
  <2>3. Meaning(call.family, call.text)' = Meaning(call.family, call.text)
    BY <1>18, <2>2, SameMeaning
  <2>4. call.addr \in Meaning(call.family, call.text)
    BY <1>0, <1>18 DEF CallInv
  <2>5. OutcomeJustified'
    BY <1>18, <2>1, <2>2, <2>3, <2>4 DEF OutcomeJustified
  <2> QED
    BY <1>1, <1>18, <2>2, <2>5 DEF UtilsInv
<1>19. CASE Connected
  <2>1. /\ pc = "connect" /\ Return(call.fd, "connected")
        /\ UNCHANGED <<dnsVars, fds, list, memory, ifaces, faults>>
    BY <1>19 DEF Connected
  <2>2. call.op = "connect" /\ faults = {}
    BY <1>0, <2>1 DEF CallInv, Works
  <2> QED
    BY <1>18, <2>1, <2>2
<1>20. CASE Listening
  <2>1. /\ pc = "listen" /\ Return(call.fd, IF call.op = "tcp" THEN "listening" ELSE "new")
        /\ UNCHANGED <<dnsVars, fds, list, memory, ifaces, faults>>
    BY <1>20 DEF Listening
  <2>2. call.op \in {"tcp", "udp"} /\ faults = {}
    BY <1>0, <2>1 DEF CallInv, Works
  <2>3. CASE call.op = "tcp"
    BY <1>18, <2>1, <2>2, <2>3
  <2>4. CASE call.op = "udp"
    BY <1>18, <2>1, <2>2, <2>4
  <2> QED
    BY <2>2, <2>3, <2>4
<1>21. ASSUME NEW err \in {"EINPROGRESS", "ENOBUFS", "EINTR", "other"}, ConnectReturns(err)
       PROVE  UtilsInv'
  <2>1. /\ pc = "connect"
        /\ err = "EINPROGRESS" => ~call.blocking
        /\ faults' = faults \cup ({err} \ {"EINPROGRESS"})
        /\ UNCHANGED <<dnsVars, fds, list, memory, ifaces>>
    BY <1>21 DEF ConnectReturns
  <2>2. call.op = "connect" /\ faults = {} /\ (call.async \/ call.blocking)
    BY <1>0, <2>1 DEF CallInv, Works
  <2>3. CASE call.async /\ err = "EINPROGRESS"
    <3>1. Return(call.fd, "connecting")
      BY <1>21, <2>3 DEF ConnectReturns, Translate
    <3> QED
      BY <1>18, <2>1, <2>2, <2>3, <3>1
  <2>4. CASE call.async /\ err = "ENOBUFS"
    <3>1. Return(call.fd, "new")
      BY <1>21, <2>4 DEF ConnectReturns, Translate
    <3>2. faults' = {"ENOBUFS"}
      BY <2>1, <2>2, <2>4
    <3> QED
      BY <1>18, <2>1, <2>2, <2>4, <3>1, <3>2
  <2>5. CASE ~(call.async /\ err \in {"EINPROGRESS", "ENOBUFS"})
    <3>1. pc' = "close" /\ UNCHANGED <<call, handed>>
      BY <1>21, <2>5 DEF ConnectReturns, Translate
    <3>2. faults' # {}
      BY <2>1, <2>2, <2>5
    <3>3. CallInv'
      BY <1>0, <2>1, <3>1, <3>2 DEF CallInv, InBind, Works
    <3> QED
      BY <1>0, <1>11, <2>1, <3>1, <3>3 DEF Works, TypeOK
  <2> QED
    BY <2>3, <2>4, <2>5
<1>22. CASE Taken
  <2>1. /\ pc = "returned" /\ pc' = "idle" /\ call' = NoCall /\ list' = <<>> /\ faults' = {}
        /\ UNCHANGED <<dnsVars, fds, handed, memory, ifaces>>
    BY <1>22 DEF Taken
  <2>2. CacheInv' /\ DNSTypeOK'
    BY <1>1, <2>1 DEF CacheInv
  <2>3. call' \in Calls /\ call'.fd = -1 /\ call'.state = "new"
    BY <2>1 DEF NoCall, Calls, Families
  <2>4. TypeOK'
    BY <1>0, <2>1, <2>2, <2>3 DEF TypeOK, Calls
  <2>5. NothingLeaks'
    BY <1>0, <2>1, <2>3, NegativeFd DEF NothingLeaks, TypeOK
  <2>6. CallInv' /\ OutcomeJustified'
    BY <1>0, <2>1, <2>3 DEF CallInv, OutcomeJustified, InBind, Works
  <2> QED
    BY <2>2, <2>4, <2>5, <2>6 DEF UtilsInv
<1>23. ASSUME NEW fd \in Fds, UserCloses(fd) PROVE UtilsInv'
  <2>1. /\ pc = "idle" /\ fds' = fds \ {fd} /\ handed' = handed \ {fd}
        /\ UNCHANGED <<dnsVars, list, memory, ifaces, pc, call, faults>>
    BY <1>23 DEF UserCloses
  <2>2. CacheInv' /\ DNSTypeOK'
    BY <1>1, <2>1 DEF CacheInv
  <2>3. TypeOK'
    BY <1>0, <2>1, <2>2 DEF TypeOK
  <2>4. NothingLeaks'
    BY <1>0, <2>1 DEF NothingLeaks
  <2>5. CallInv' /\ OutcomeJustified'
    BY <1>0, <2>1 DEF CallInv, OutcomeJustified, InBind, Works
  <2> QED
    BY <2>2, <2>3, <2>4, <2>5 DEF UtilsInv
<1> QED
  BY <1>2, <1>3, <1>4, <1>5, <1>6, <1>7, <1>8, <1>9, <1>10, <1>12, <1>13, <1>14, <1>15, <1>16,
     <1>17, <1>19, <1>20, <1>21, <1>22, <1>23 DEF Next, Steps

LEMMA UtilsAlways == Spec => []UtilsInv
  BY UtilsInit, UtilsNext, PTL DEF Spec
--------------------------------------------------------------------------------
(* TypeOK: every variable keeps its type, and a call works on a descriptor     *)
(* that is open (Connect, Listen, Bind).                                       *)
THEOREM UtilsTyped == Spec => []TypeOK
<1>1. UtilsInv => TypeOK
  BY DEF UtilsInv
<1> QED
  BY <1>1, UtilsAlways, PTL

(* NothingLeaks: no way out of Connect, Listen or Bind leaves a descriptor or  *)
(* memory behind, or returns a descriptor that is closed.                      *)
THEOREM CallsLeakNothing == Spec => []NothingLeaks
<1>1. UtilsInv => NothingLeaks
  BY DEF UtilsInv
<1> QED
  BY <1>1, UtilsAlways, PTL

(* OutcomeJustified: what Connect and Listen return is bound and as far as it   *)
(* says, and they fail for a reason (Connect, Listen, Bind, get_addr_by_if).   *)
THEOREM OutcomesJustified == Spec => []OutcomeJustified
<1>1. UtilsInv => OutcomeJustified
  BY DEF UtilsInv
<1> QED
  BY <1>1, UtilsAlways, PTL

(* FreshUnlessSetBack: however late an answer is stored and however often it   *)
(* is asked for, Parse answers from the cache with nothing older than its      *)
(* caller allows, unless the clock was set back (get_cache_domain_ip).          *)
THEOREM AnswersFresh == Spec => FreshUnlessSetBack
<1> DEFINE item == dns_map_[parse'.host]
           age == now + setBack - item.create_time - item.setBack
<1>1. ASSUME UtilsInv, Next, parse.pc = "idle", parse'.pc = "done"
      PROVE  ~item.expired /\ (age <= parse'.expire \/ item.setBack < setBack)
  <2>1. PICK h \in Hosts, e \in Expiries : Parse(h, e)
    <3>1. \A h \in Hosts, e \in Expiries : StartParse(h, e) => Parse(h, e)
      BY DEF StartParse
    <3>2. \A h \in Hosts, text \in Texts, async \in BOOLEAN :
              Connect(h, text, async) => Parse(h, DefaultExpiry)
      BY DEF Connect
    <3>3. ~DNSSteps /\ ~ParseReturns /\ ~Clock
      BY <1>1 DEF DNSSteps, Answered, AskAgain, NotAnswered, Store, ParseReturns, Clock, Tick,
                  SetBack
    <3>4. UNCHANGED parse => FALSE
      BY <1>1
    <3>5. ~CreateSocket /\ ~CreateSocketFails /\ ~GetIfAddrs /\ ~GetIfAddrsFails /\ ~Choose
          /\ ~BindTo /\ ~BindFails /\ ~CloseAndFail /\ ~Connected /\ ~Listening
          /\ ~ListenFails /\ ~Taken /\ ~Reconfigure
      BY <3>4 DEF CreateSocket, CreateSocketFails, GetIfAddrs, GetIfAddrsFails, Choose, BindTo,
                  BindFails, CloseAndFail, Connected, Listening, ListenFails, Taken,
                  Reconfigure, dnsVars
    <3>6. /\ \A err : ~ConnectReturns(err)
          /\ \A fd : ~UserCloses(fd)
          /\ \A type, family, text : ~Listen(type, family, text)
      BY <3>4 DEF ConnectReturns, UserCloses, Listen, dnsVars
    <3> QED
      BY <1>1, <3>1, <3>2, <3>3, <3>5, <3>6, UtilsAssumption DEF Next, Steps
  <2>2. /\ h \in DOMAIN dns_map_ /\ ~Expired(h, e)
        /\ parse'.host = h /\ parse'.expire = e
    BY <1>1, <2>1 DEF Parse
  <2>3. /\ item = dns_map_[h] /\ item \in Item
        /\ ~item.expired /\ item.setBack <= setBack
    BY <1>1, <2>2 DEF UtilsInv, CacheInv, DNSTypeOK
  <2>4. /\ now \in Nat /\ setBack \in Nat /\ e \in Nat
        /\ item.create_time \in Nat /\ item.setBack \in Nat
    <3>1. now \in Nat /\ setBack \in Nat /\ e \in Nat
      BY <1>1, DNSAssumption DEF UtilsInv, CacheInv, DNSTypeOK
    <3>2. item.create_time \in 0..MaxNow /\ item.setBack \in 0..MaxSetBack
      BY <2>3 DEF Item
    <3> QED
      BY <3>1, <3>2, DNSAssumption
  <2>5. item.create_time + e >= now
    BY <2>2, <2>3, <2>4 DEF Expired
  <2> HIDE DEF item
  <2> QED
    BY <2>2, <2>3, <2>4, <2>5
<1>2. UtilsInv /\ [Next]_vars
         => [(parse.pc = "idle" /\ parse'.pc = "done") =>
                LET i == dns_map_[parse'.host]
                    a == now + setBack - i.create_time - i.setBack
                IN ~i.expired /\ (a <= parse'.expire \/ i.setBack < setBack)]_vars
  BY <1>1
<1> QED
  BY <1>2, UtilsAlways, PTL DEF Spec, FreshUnlessSetBack
================================================================================
