----------------------------- MODULE MCSocketUtils -----------------------------
(* An instance of SocketUtils for TLC. *)
EXTENDS SocketUtils

CONSTANTS h1, eth, lo, a4, a6, hw

Host == {h1}
Addrs4 == {a4, Any4}
Addrs6 == {a6, Any6}
Seconds == {0, 1}
Interfaces == {eth, lo}
LocalTexts == {eth, lo, a4, a6, Any4}
Descriptors == {3, 4}

(* An interface with addresses of every kind, and the same host without them. *)
Lists == {<<[name |-> eth, addr |-> hw], [name |-> eth, addr |-> a4],
            [name |-> eth, addr |-> a6]>>,
          <<[name |-> lo, addr |-> hw], [name |-> lo, addr |-> a4]>>}
================================================================================
