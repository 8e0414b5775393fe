------------------------------ MODULE BufferList ------------------------------
(***************************************************************************)
(* BufferList of net/buffer.cpp: buffers that one socket sends with as few    *)
(* calls of sendmsg as possible, and what is left of them after each call.    *)
(*                                                                            *)
(* A BufferList is a record of its fields.  An iovec is a part of a buffer,   *)
(* iovec_off_ counts the iovecs that are done with.                           *)
(***************************************************************************)
EXTENDS Integers, Sequences

CONSTANTS Buffers,  \* Buffer::Ptr
          Size,     \* of each, in bytes
          IovMax    \* IOV_MAX

ASSUME BufferAssumption == /\ Size \in [Buffers -> Nat \ {0}]
                           /\ IovMax \in Nat \ {0}

Iovecs == Seq([buffer : Buffers, base : Nat, len : Nat])

BufferLists == [iovec_ : Iovecs,
                iovec_off_ : Nat,
                remain_size_ : Nat,
                pkt_list_ : Seq(Buffers)]

Whole(buffer) == [buffer |-> buffer, base |-> 0, len |-> Size[buffer]]

(* The bytes of the first iovecs, and of those from i to j. *)
Sums(iovec) == LET sum[i \in 0..Len(iovec)] ==
                       IF i = 0 THEN 0 ELSE sum[i - 1] + iovec[i].len
               IN sum

Total(iovec, i, j) == Sums(iovec)[j] - Sums(iovec)[i - 1]

Create(list) == LET iovec == [i \in DOMAIN list |-> Whole(list[i])]
                IN [iovec_ |-> iovec,
                    iovec_off_ |-> 0,
                    remain_size_ |-> Total(iovec, 1, Len(list)),
                    pkt_list_ |-> list]

IsEmpty(b) == b.iovec_off_ = Len(b.iovec_)

(* The last one that a sendmsg may take bytes of, and how many those are. *)
LastOffered(b, is_udp) ==
    LET max == IF is_udp THEN 1 ELSE IovMax
        end == b.iovec_off_ + max
    IN IF end < Len(b.iovec_) THEN end ELSE Len(b.iovec_)

OfferedSize(b, is_udp) == Total(b.iovec_, b.iovec_off_ + 1, LastOffered(b, is_udp))

(* The iovec in which the first n bytes end. *)
LastOf(b, n) == CHOOSE i \in b.iovec_off_ + 1 .. Len(b.iovec_) :
                    /\ Total(b.iovec_, b.iovec_off_ + 1, i) >= n
                    /\ Total(b.iovec_, b.iovec_off_ + 1, i - 1) < n

(* How much of it is left. *)
Rest(b, n) == Total(b.iovec_, b.iovec_off_ + 1, LastOf(b, n)) - n

(* Mutant: takes an iovec that was sent in part for sent. *)
OffAfterPart(b, n) == LastOf(b, n)

OffAfter(b, n) == IF Rest(b, n) = 0 THEN LastOf(b, n) ELSE LastOf(b, n) - 1

(* reoffset: n bytes were sent, but not all. *)
Reoffset(b, n) ==
    LET i == LastOf(b, n)
        popped == OffAfter(b, n) - b.iovec_off_
    IN [iovec_ |-> [b.iovec_ EXCEPT ![i].base = @ + b.iovec_[i].len - Rest(b, n),
                                    ![i].len = Rest(b, n)],
        iovec_off_ |-> OffAfter(b, n),
        remain_size_ |-> b.remain_size_ - n,
        pkt_list_ |-> SubSeq(b.pkt_list_, popped + 1, Len(b.pkt_list_))]

(* send_l after sendmsg returned n. *)
Sent(b, n) == IF n >= b.remain_size_
              THEN [b EXCEPT !.iovec_off_ = Len(b.iovec_), !.remain_size_ = 0]
              ELSE Reoffset(b, n)
--------------------------------------------------------------------------------
(* What a list stands for: bytes, one after the other.  Byte p of the iovecs    *)
(* is in the one that p falls into.                                            *)

Position(iovec, p) == CHOOSE i \in 1..Len(iovec) : /\ Sums(iovec)[i - 1] < p
                                                   /\ p <= Sums(iovec)[i]

Byte(iovec, p) == LET i == Position(iovec, p)
                  IN <<iovec[i].buffer, iovec[i].base + (p - Sums(iovec)[i - 1])>>

Bytes(b) == LET done == Sums(b.iovec_)[b.iovec_off_]
                all == Sums(b.iovec_)[Len(b.iovec_)]
            IN [p \in 1..all - done |-> Byte(b.iovec_, done + p)]

(* The fields agree: remain_size_ is what is left, and every iovec that is    *)
(* left points into a buffer that pkt_list_ keeps, the next one into the      *)
(* first, whose address a datagram is sent to.                                *)
Consistent(b) ==
    /\ b.remain_size_ = Len(Bytes(b))
    /\ ~IsEmpty(b) => b.pkt_list_ = [i \in 1..Len(b.iovec_) - b.iovec_off_ |->
                                        b.iovec_[b.iovec_off_ + i].buffer]
================================================================================
