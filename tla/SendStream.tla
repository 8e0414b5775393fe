------------------------------ MODULE SendStream ------------------------------
(***************************************************************************)
(* What a Socket does with the data it has taken over: the bytes go out in    *)
(* one order, each at most once, and none is lost while its connection is up. *)
(***************************************************************************)
EXTENDS Integers, Sequences

CONSTANT Chunks  \* the data of a Send, as a sequence of bytes

VARIABLES queue,  \* taken over and not sent
          out,    \* handed to the kernel
          up      \* the connection has not failed

vars == <<queue, out, up>>

Init == queue = <<>> /\ out = <<>> /\ up = TRUE

Enqueue == /\ \E c \in Chunks : queue' = queue \o c
           /\ UNCHANGED <<out, up>>

Remove(n) == queue' = SubSeq(queue, n + 1, Len(queue))

Transmit == /\ \E n \in 1..Len(queue) : /\ Remove(n)
                                        /\ out' = out \o SubSeq(queue, 1, n)
            /\ UNCHANGED up

(* A connection fails or is replaced. *)
Turn == /\ up' = ~up
        /\ UNCHANGED <<queue, out>>

Lose == /\ ~up
        /\ \E n \in 1..Len(queue) : Remove(n)
        /\ up' \in BOOLEAN
        /\ UNCHANGED out

Next == Enqueue \/ Transmit \/ Turn \/ Lose

Spec == Init /\ [][Next]_vars
================================================================================
