--------------------------- MODULE SocketSendProofs ---------------------------
(***************************************************************************)
(* Theorems about what a Socket sends, for any number and size of buffers,    *)
(* any IOV_MAX, any number of connections and any room in the kernel.         *)
(*                                                                            *)
(* First, what the operators of BufferList do: a sendmsg that took n bytes    *)
(* leaves a list of the rest, in order, whose fields agree.  The sums of the  *)
(* lengths are a recursive function; what it returns is proved by induction   *)
(* over the iovecs, with the least counterexample.  Then, what the Socket     *)
(* keeps while it sends such lists.                                           *)
(***************************************************************************)
EXTENDS SocketSend, SequenceTheorems, WellFoundedInduction, NaturalsInduction, TLAPS

(* Induction, for a set of numbers. *)
LEMMA NatInduct ==
    ASSUME NEW T, 0 \in T, \A n \in Nat : n \in T => n + 1 \in T
    PROVE  \A n \in Nat : n \in T
<1> DEFINE Out == Nat \ T
<1> SUFFICES ASSUME Out # {} PROVE FALSE
    OBVIOUS
<1> DEFINE R == OpToRel(<, Nat)
<1>1. IsWellFoundedOn(R, Nat)
  BY NatLessThanWellFounded
<1> HIDE DEF R
<1>2. PICK x \in Out : \A y \in Out : ~(<<y, x>> \in R)
  BY <1>1, WFMin
<1>3. x \in Nat /\ x # 0 /\ ~(x \in T)
  BY <1>2
<1>4. x - 1 \in Nat /\ (x - 1) + 1 = x /\ x - 1 < x
  BY <1>3
<1>5. x - 1 \in Out
  BY <1>3, <1>4
<1> QED
  BY <1>2, <1>3, <1>4, <1>5 DEF R, OpToRel

(* An interval from 1 has one end. *)
LEMMA SameInterval ==
    ASSUME NEW l \in Nat, NEW n \in Nat, 1..l = 1..n
    PROVE  l = n
<1>1. l \in 1..l <=> l \in 1..n
    OBVIOUS
<1>2. n \in 1..l <=> n \in 1..n
    OBVIOUS
<1> QED
    BY <1>1, <1>2

(* A function on an interval from 1 is a sequence of that length. *)
LEMMA FunctionIsSeq ==
    ASSUME NEW S, NEW n \in Nat, NEW f \in [1..n -> S]
    PROVE  f \in Seq(S) /\ Len(f) = n
<1>1. f \in Seq(S)
    BY SeqDef
<1>2. Len(f) \in Nat /\ DOMAIN f = 1..Len(f) /\ DOMAIN f = 1..n
    BY <1>1, LenProperties
<1> QED
    BY <1>1, <1>2, SameInterval

(* g counts the bytes of the first iovecs. *)
IsSum(iovec, g) == /\ g \in [0..Len(iovec) -> Nat]
                   /\ g[0] = 0
                   /\ \A i \in 1..Len(iovec) : g[i] = g[i - 1] + iovec[i].len

(* The fields of an iovec. *)
LEMMA IovecFacts ==
    ASSUME NEW iovec \in Iovecs
    PROVE  /\ Len(iovec) \in Nat
           /\ DOMAIN iovec = 1..Len(iovec)
           /\ \A i \in 1..Len(iovec) : /\ iovec[i] \in [buffer : Buffers, base : Nat, len : Nat]
                                       /\ iovec[i].buffer \in Buffers
                                       /\ iovec[i].base \in Nat
                                       /\ iovec[i].len \in Nat
<1> DEFINE I == [buffer : Buffers, base : Nat, len : Nat]
<1>1. iovec \in Seq(I)
    BY DEF Iovecs
<1>2. Len(iovec) \in Nat /\ DOMAIN iovec = 1..Len(iovec) /\ \A i \in 1..Len(iovec) : iovec[i] \in I
    <2> HIDE DEF I
    <2> QED BY <1>1, LenProperties, ElementOfSeq
<1> QED BY <1>2

(* The recursion of Sums is well founded: there is such a function. *)
LEMMA SumsAre ==
    ASSUME NEW iovec \in Iovecs
    PROVE  IsSum(iovec, Sums(iovec))
<1> DEFINE L == Len(iovec)
           Upto(n, g) == /\ g \in [0..n -> Nat]
                         /\ g[0] = 0
                         /\ \A i \in 1..n : g[i] = g[i - 1] + iovec[i].len
           T == {n \in Nat : n <= L => \E g : Upto(n, g)}
<1>0. L \in Nat /\ \A i \in 1..L : iovec[i].len \in Nat
    BY IovecFacts
<1> HIDE DEF L
<1>1. 0 \in T
  <2>1. Upto(0, [i \in 0..0 |-> 0])
    OBVIOUS
  <2> HIDE DEF Upto
  <2> QED BY <2>1
<1>2. ASSUME NEW n \in Nat, n \in T PROVE n + 1 \in T
  <2> SUFFICES ASSUME n + 1 <= L PROVE \E g : Upto(n + 1, g)
    <3> HIDE DEF Upto
    <3> QED OBVIOUS
  <2>1. PICK g : Upto(n, g)
    <3> HIDE DEF Upto
    <3> QED BY <1>2, <1>0
  <2> DEFINE h == [i \in 0..n + 1 |-> IF i = n + 1 THEN g[n] + iovec[n + 1].len ELSE g[i]]
  <2>2. iovec[n + 1].len \in Nat /\ g[n] \in Nat
    BY <2>1, <1>0
  <2>3. h \in [0..n + 1 -> Nat] /\ h[0] = 0 /\ h[n + 1] = h[n] + iovec[n + 1].len
    BY <2>1, <2>2
  <2>4. \A i \in 1..n : h[i] = g[i] /\ h[i - 1] = g[i - 1]
    BY <2>1
  <2>5. \A i \in 1..n + 1 : h[i] = h[i - 1] + iovec[i].len
    BY <2>1, <2>3, <2>4
  <2> QED BY <2>3, <2>5
<1>3. PICK g : Upto(L, g)
  <2>1. \A n \in Nat : n \in T
    <3> HIDE DEF T
    <3> QED BY <1>1, <1>2, NatInduct
  <2> HIDE DEF Upto
  <2> QED BY <2>1, <1>0
<1> DEFINE E(f) == [i \in 0..L |-> IF i = 0 THEN 0 ELSE f[i - 1] + iovec[i].len]
<1>4. g = E(g)
  <2>1. g \in [0..L -> Nat] /\ g[0] = 0 /\ \A i \in 1..L : g[i] = g[i - 1] + iovec[i].len
    BY <1>3
  <2>2. \A i \in 0..L : g[i] = IF i = 0 THEN 0 ELSE g[i - 1] + iovec[i].len
    BY <2>1, <1>0
  <2> QED BY <2>1, <2>2
<1>5. Sums(iovec) = CHOOSE f : f = E(f)
    BY DEF Sums, L
<1>6. Sums(iovec) = E(Sums(iovec))
  <2> HIDE DEF E
  <2> QED BY <1>4, <1>5
<1> DEFINE s == Sums(iovec)
<1>7. s = [i \in 0..L |-> IF i = 0 THEN 0 ELSE s[i - 1] + iovec[i].len]
    BY <1>6
<1> HIDE DEF s
<1>8. DOMAIN s = 0..L /\ s[0] = 0 /\ \A i \in 1..L : s[i] = s[i - 1] + iovec[i].len
    BY <1>7, <1>0
<1> DEFINE U == {n \in Nat : n <= L => s[n] \in Nat}
<1>9. \A n \in Nat : n \in U
  <2>1. 0 \in U BY <1>8
  <2>2. ASSUME NEW n \in Nat, n \in U PROVE n + 1 \in U
    <3>1. CASE n + 1 <= L
      <4>1. s[n] \in Nat /\ n + 1 \in 1..L /\ (n + 1) - 1 = n
        BY <2>2, <3>1, <1>0
      <4>2. s[n + 1] = s[n] + iovec[n + 1].len
        BY <4>1, <1>8
      <4> QED BY <4>1, <4>2, <1>0
    <3>2. CASE ~(n + 1 <= L)
      BY <3>2
    <3> QED BY <3>1, <3>2
  <2> HIDE DEF U
  <2> QED BY <2>1, <2>2, NatInduct
<1>10. \A n \in 0..L : s[n] \in Nat
    BY <1>9, <1>0
<1>11. s \in [0..L -> Nat]
    BY <1>7, <1>8, <1>10
<1> QED BY <1>8, <1>11 DEF IsSum, s, L

(* No other function has these sums. *)
LEMMA SumsUnique ==
    ASSUME NEW iovec \in Iovecs, NEW g, IsSum(iovec, g)
    PROVE  Sums(iovec) = g
<1> DEFINE s == Sums(iovec)
           L == Len(iovec)
           T == {n \in Nat : n <= L => s[n] = g[n]}
<1>1. IsSum(iovec, s)
    BY SumsAre
<1>2. L \in Nat
    BY IovecFacts
<1> HIDE DEF s, L
<1>3. /\ s \in [0..L -> Nat] /\ g \in [0..L -> Nat]
      /\ s[0] = 0 /\ g[0] = 0
      /\ \A i \in 1..L : s[i] = s[i - 1] + iovec[i].len
      /\ \A i \in 1..L : g[i] = g[i - 1] + iovec[i].len
    BY <1>1 DEF IsSum, L
<1>4. 0 \in T
    BY <1>3
<1>5. ASSUME NEW n \in Nat, n \in T PROVE n + 1 \in T
  <2>1. n + 1 <= L => s[n] = g[n] /\ n + 1 \in 1..L /\ (n + 1) - 1 = n
    BY <1>5, <1>2
  <2> QED
    BY <2>1, <1>3
<1>6. \A n \in Nat : n \in T
  <2> HIDE DEF T
  <2> QED
    BY <1>4, <1>5, NatInduct
<1>7. \A n \in 0..L : s[n] = g[n]
    BY <1>6, <1>2
<1>8. s = g
  <2>1. s = [n \in 0..L |-> s[n]] /\ g = [n \in 0..L |-> g[n]]
    BY <1>3
  <2>2. [n \in 0..L |-> s[n]] = [n \in 0..L |-> g[n]]
    BY <1>7
  <2> QED
    BY <2>1, <2>2
<1> QED
    BY <1>8 DEF s

(* Further iovecs do not make fewer bytes. *)
LEMMA SumsGrow ==
    ASSUME NEW iovec \in Iovecs, NEW i \in 0..Len(iovec), NEW j \in i..Len(iovec)
    PROVE  Sums(iovec)[i] <= Sums(iovec)[j]
<1> DEFINE s == Sums(iovec)
           L == Len(iovec)
           T == {n \in Nat : i + n <= L => s[i] <= s[i + n]}
<1>1. /\ L \in Nat
      /\ \A k \in 1..L : iovec[k].len \in Nat
    BY IovecFacts
<1>2. IsSum(iovec, s)
    BY SumsAre
<1>3. i \in 0..L /\ j \in i..L
    OBVIOUS
<1> HIDE DEF s, L
<1>4. /\ s \in [0..L -> Nat]
      /\ \A k \in 1..L : s[k] = s[k - 1] + iovec[k].len
    BY <1>2 DEF IsSum, L
<1>5. 0 \in T
    BY <1>1, <1>3, <1>4
<1>6. ASSUME NEW n \in Nat, n \in T PROVE n + 1 \in T
  <2>1. CASE i + n + 1 <= L
    <3>1. i + (n + 1) \in 1..L /\ (i + (n + 1)) - 1 = i + n /\ i + n \in 0..L
        BY <1>1, <1>3, <2>1
    <3>2. s[i + (n + 1)] = s[i + n] + iovec[i + (n + 1)].len
        BY <1>4, <3>1
    <3>3. s[i] <= s[i + n]
        BY <1>6, <3>1
    <3>4. s[i] \in Nat /\ s[i + n] \in Nat /\ iovec[i + (n + 1)].len \in Nat
        BY <1>1, <1>3, <1>4, <3>1
    <3> QED
        BY <3>2, <3>3, <3>4
  <2>2. CASE ~(i + n + 1 <= L)
    BY <2>2, <1>1, <1>3
  <2> QED
    BY <2>1, <2>2
<1>7. \A n \in Nat : n \in T
  <2> HIDE DEF T
  <2> QED
    BY <1>5, <1>6, NatInduct
<1>8. j - i \in Nat /\ i + (j - i) = j /\ j <= L
    BY <1>1, <1>3
<1>9. j - i \in T
    BY <1>7, <1>8
<1> QED
    BY <1>8, <1>9 DEF s

(* Every byte lies in an iovec, and in one only. *)
LEMMA PositionExists ==
    ASSUME NEW iovec \in Iovecs, NEW p \in 1..Sums(iovec)[Len(iovec)]
    PROVE  \E i \in 1..Len(iovec) : Sums(iovec)[i - 1] < p /\ p <= Sums(iovec)[i]
<1> DEFINE s == Sums(iovec)
           L == Len(iovec)
           T == {n \in Nat : n <= L => s[n] < p}
<1>1. L \in Nat
    BY IovecFacts
<1>2. IsSum(iovec, s)
    BY SumsAre
<1> SUFFICES ASSUME ~\E i \in 1..L : s[i - 1] < p /\ p <= s[i]
             PROVE  FALSE
    OBVIOUS
<1>3. p \in 1..s[L]
    OBVIOUS
<1> HIDE DEF s, L
<1>4. s \in [0..L -> Nat] /\ s[0] = 0
    BY <1>2 DEF IsSum, L
<1>5. s[L] \in Nat /\ p \in Nat /\ p > 0 /\ p <= s[L]
    BY <1>1, <1>3, <1>4
<1>6. 0 \in T
    BY <1>4, <1>5
<1>7. ASSUME NEW n \in Nat, n \in T PROVE n + 1 \in T
  <2>1. CASE n + 1 <= L
    <3>1. n + 1 \in 1..L /\ (n + 1) - 1 = n /\ s[n] < p
        BY <1>1, <1>7, <2>1
    <3>2. ~(p <= s[n + 1])
        BY <3>1
    <3>3. s[n + 1] \in Nat
        BY <3>1, <1>4, <1>1
    <3> QED
        BY <3>2, <3>3, <1>5
  <2>2. CASE ~(n + 1 <= L)
    BY <2>2
  <2> QED
    BY <2>1, <2>2
<1>8. \A n \in Nat : n \in T
  <2> HIDE DEF T
  <2> QED
    BY <1>6, <1>7, NatInduct
<1>9. s[L] < p
    BY <1>1, <1>8
<1> QED
    BY <1>5, <1>9

(* Position finds the iovec that a byte lies in. *)
LEMMA PositionIs ==
    ASSUME NEW iovec \in Iovecs, NEW p \in Nat, NEW i \in 1..Len(iovec),
           Sums(iovec)[i - 1] < p, p <= Sums(iovec)[i]
    PROVE  Position(iovec, p) = i
<1> DEFINE s == Sums(iovec)
           L == Len(iovec)
<1>1. L \in Nat
    BY IovecFacts
<1>2. s \in [0..L -> Nat]
    BY SumsAre DEF IsSum
<1>3. \A k \in 0..L : \A m \in k..L : s[k] <= s[m]
    BY SumsGrow
<1>4. s[i - 1] < p /\ p <= s[i] /\ i \in 1..L
    OBVIOUS
<1>5. Position(iovec, p) = CHOOSE k \in 1..L : s[k - 1] < p /\ p <= s[k]
    BY DEF Position
<1> HIDE DEF s, L
<1>6. ASSUME NEW k \in 1..L, s[k - 1] < p, p <= s[k]
      PROVE  k = i
  <2>1. CASE k < i
    <3>1. k \in 0..L /\ i - 1 \in k..L
        BY <1>1, <1>4, <2>1
    <3>2. s[k] <= s[i - 1] /\ s[k] \in Nat /\ s[i - 1] \in Nat
        BY <1>1, <1>2, <1>3, <3>1
    <3> QED
        BY <1>4, <1>6, <3>2
  <2>2. CASE i < k
    <3>1. i \in 0..L /\ k - 1 \in i..L
        BY <1>1, <1>4, <2>2
    <3>2. s[i] <= s[k - 1] /\ s[i] \in Nat /\ s[k - 1] \in Nat
        BY <1>1, <1>2, <1>3, <3>1
    <3> QED
        BY <1>4, <1>6, <3>2
  <2> QED
    BY <2>1, <2>2, <1>1, <1>4
<1> QED
    BY <1>4, <1>5, <1>6

(* The byte of a buffer that a byte of the list is. *)
LEMMA ByteIs ==
    ASSUME NEW iovec \in Iovecs, NEW p \in Nat, NEW i \in 1..Len(iovec),
           Sums(iovec)[i - 1] < p, p <= Sums(iovec)[i]
    PROVE  Byte(iovec, p) =
             <<iovec[i].buffer, iovec[i].base + (p - Sums(iovec)[i - 1])>>
    BY PositionIs DEF Byte
--------------------------------------------------------------------------------
(* A list whose offset is one of its own. *)
Inside(b) == b \in BufferLists /\ b.iovec_off_ \in 0..Len(b.iovec_)

(* How many bytes a list stands for, and which. *)
LEMMA BytesAre ==
    ASSUME NEW b, Inside(b)
    PROVE  /\ b.iovec_ \in Iovecs
           /\ Len(b.iovec_) \in Nat
           /\ b.iovec_off_ \in 0..Len(b.iovec_)
           /\ Sums(b.iovec_) \in [0..Len(b.iovec_) -> Nat]
           /\ Sums(b.iovec_)[b.iovec_off_] <= Sums(b.iovec_)[Len(b.iovec_)]
           /\ Bytes(b) \in Seq(Buffers \X Nat)
           /\ Len(Bytes(b)) = Sums(b.iovec_)[Len(b.iovec_)] - Sums(b.iovec_)[b.iovec_off_]
           /\ \A p \in 1..Len(Bytes(b)) :
                 Bytes(b)[p] = Byte(b.iovec_, Sums(b.iovec_)[b.iovec_off_] + p)
<1> DEFINE v == b.iovec_
           L == Len(v)
           off == b.iovec_off_
           s == Sums(v)
           n == s[L] - s[off]
<1>1. v \in Iovecs /\ off \in 0..L
    BY DEF Inside, BufferLists, Iovecs
<1>2. /\ L \in Nat
      /\ \A i \in 1..L : v[i].buffer \in Buffers /\ v[i].base \in Nat
    BY <1>1, IovecFacts
<1>3. s \in [0..L -> Nat]
    BY <1>1, SumsAre DEF IsSum
<1>4. s[off] <= s[L]
    BY <1>1, <1>2, SumsGrow
<1>5. Bytes(b) = [p \in 1..n |-> Byte(v, s[off] + p)]
    BY DEF Bytes
<1>6. ASSUME NEW p \in 1..n PROVE Byte(v, s[off] + p) \in Buffers \X Nat
  <2> DEFINE q == s[off] + p
  <2>1. s[off] \in Nat /\ s[L] \in Nat /\ p \in Nat
    BY <1>1, <1>2, <1>3
  <2>2. q \in 1..s[L]
    <3> DEFINE x == s[off]
               z == s[L]
    <3>1. x \in Nat /\ z \in Nat /\ p \in 1..z - x
        BY <2>1
    <3> HIDE DEF x, z
    <3>2. x + p \in 1..z
        BY <3>1
    <3> QED
        BY <3>2 DEF x, z
  <2> HIDE DEF q
  <2>3. PICK i \in 1..L : s[i - 1] < q /\ q <= s[i]
    BY <1>1, <2>2, PositionExists
  <2>4. q \in Nat
    BY <2>1, <2>2
  <2>5. Byte(v, q) = <<v[i].buffer, v[i].base + (q - s[i - 1])>>
    BY <1>1, <2>3, <2>4, ByteIs
  <2>6. s[i - 1] \in Nat
    BY <1>2, <1>3, <2>3
  <2>7. v[i].base + (q - s[i - 1]) \in Nat
    BY <1>2, <2>3, <2>4, <2>6
  <2>8. v[i].buffer \in Buffers
    BY <1>2, <2>3
  <2> QED
    BY <2>5, <2>7, <2>8 DEF q
<1>7. n \in Nat
    BY <1>1, <1>2, <1>3, <1>4
<1> HIDE DEF n, s, L, off, v
<1>8. Bytes(b) \in [1..n -> Buffers \X Nat]
    BY <1>5, <1>6
<1>9. Bytes(b) \in Seq(Buffers \X Nat) /\ Len(Bytes(b)) = n
    BY <1>7, <1>8, FunctionIsSeq
<1> QED
    BY <1>1, <1>2, <1>3, <1>4, <1>5, <1>9 DEF n, s, L, off, v

(* reoffset finds the iovec in which what was sent ends. *)
LEMMA LastOfIs ==
    ASSUME NEW b, Inside(b), NEW n \in 1..Len(Bytes(b))
    PROVE  /\ LastOf(b, n) \in b.iovec_off_ + 1 .. Len(b.iovec_)
           /\ Sums(b.iovec_)[LastOf(b, n) - 1] < Sums(b.iovec_)[b.iovec_off_] + n
           /\ Sums(b.iovec_)[b.iovec_off_] + n <= Sums(b.iovec_)[LastOf(b, n)]
<1> DEFINE v == b.iovec_
           L == Len(v)
           off == b.iovec_off_
           s == Sums(v)
           q == s[off] + n
<1>1. /\ v \in Iovecs
      /\ L \in Nat
      /\ off \in 0..L
      /\ s \in [0..L -> Nat]
      /\ n \in 1..s[L] - s[off]
    BY BytesAre
<1>2. \A k \in 0..L : \A m \in k..L : s[k] <= s[m]
    BY <1>1, SumsGrow
<1>3. \A p \in 1..s[L] : \E i \in 1..L : s[i - 1] < p /\ p <= s[i]
    BY <1>1, PositionExists
<1>4. \A k \in off + 1 .. L : /\ Total(v, off + 1, k) = s[k] - s[(off + 1) - 1]
                              /\ Total(v, off + 1, k - 1) = s[k - 1] - s[(off + 1) - 1]
    BY DEF Total
<1>a. (\E k \in off + 1 .. L : Total(v, off + 1, k) >= n /\ Total(v, off + 1, k - 1) < n)
        => /\ LastOf(b, n) \in off + 1 .. L
           /\ Total(v, off + 1, LastOf(b, n)) >= n
           /\ Total(v, off + 1, LastOf(b, n) - 1) < n
    BY DEF LastOf
<1> HIDE DEF s, L, off, v
<1>5. s[off] \in Nat /\ s[L] \in Nat /\ (off + 1) - 1 = off
    BY <1>1
<1>6. q \in 1..s[L] /\ q > s[off] /\ q \in Nat
    BY <1>1, <1>5
<1> HIDE DEF q
<1>7. PICK i \in 1..L : s[i - 1] < q /\ q <= s[i]
    BY <1>3, <1>6
<1>8. i \in off + 1 .. L
  <2> SUFFICES ASSUME i <= off PROVE FALSE
    BY <1>1
  <2>1. i \in 0..L /\ off \in i..L
    BY <1>1
  <2>2. s[i] <= s[off] /\ s[i] \in Nat
    BY <1>1, <1>2, <2>1
  <2> QED
    BY <1>5, <1>6, <1>7, <2>2
<1>9. \A k \in off + 1 .. L : s[k] \in Nat /\ s[k - 1] \in Nat /\ k \in 1..L
    BY <1>1
<1>10. ASSUME NEW k \in off + 1 .. L
       PROVE  /\ Total(v, off + 1, k) >= n <=> q <= s[k]
              /\ Total(v, off + 1, k - 1) < n <=> s[k - 1] < q
  <2>1. /\ Total(v, off + 1, k) = s[k] - s[off]
        /\ Total(v, off + 1, k - 1) = s[k - 1] - s[off]
    BY <1>4, <1>5
  <2>2. s[k] \in Nat /\ s[k - 1] \in Nat /\ s[off] \in Nat /\ n \in Nat /\ q = s[off] + n
    BY <1>1, <1>5, <1>9 DEF q
  <2>3. /\ s[k] - s[off] >= n <=> q <= s[k]
        /\ s[k - 1] - s[off] < n <=> s[k - 1] < q
    <3> DEFINE x == s[k]
               y == s[k - 1]
               z == s[off]
    <3>1. x \in Nat /\ y \in Nat /\ z \in Nat /\ n \in Nat /\ q = z + n
        BY <2>2
    <3> HIDE DEF x, y, z
    <3>2. (x - z >= n <=> q <= x) /\ (y - z < n <=> y < q)
        BY <3>1
    <3> QED
        BY <3>2 DEF x, y, z
  <2> QED
    BY <2>1, <2>3
<1>11. \E k \in off + 1 .. L : Total(v, off + 1, k) >= n /\ Total(v, off + 1, k - 1) < n
    BY <1>7, <1>8, <1>10
<1>12. /\ LastOf(b, n) \in off + 1 .. L
       /\ Total(v, off + 1, LastOf(b, n)) >= n
       /\ Total(v, off + 1, LastOf(b, n) - 1) < n
    BY <1>a, <1>11
<1>13. /\ LastOf(b, n) \in off + 1 .. L
       /\ q <= s[LastOf(b, n)]
       /\ s[LastOf(b, n) - 1] < q
    BY <1>10, <1>12
<1> QED
    BY <1>13 DEF s, L, off, v, q

(* What is left of iovec i of v when its first c bytes were sent. *)
IsCut(v, w, i, c) ==
    /\ w \in Iovecs
    /\ Len(w) = Len(v)
    /\ \A k \in 1..Len(v) : k # i => w[k] = v[k]
    /\ w[i] = [buffer |-> v[i].buffer, base |-> v[i].base + c, len |-> v[i].len - c]

(* The sums of what is left. *)
LEMMA CutSums ==
    ASSUME NEW v \in Iovecs, NEW i \in 1..Len(v), NEW c \in 0..v[i].len, NEW w,
           IsCut(v, w, i, c)
    PROVE  \A k \in 0..Len(v) :
               Sums(w)[k] = IF k < i THEN Sums(v)[k] ELSE Sums(v)[k] - c
<1> DEFINE L == Len(v)
           s == Sums(v)
           g == [k \in 0..L |-> IF k < i THEN s[k] ELSE s[k] - c]
<1>1. /\ L \in Nat
      /\ \A k \in 1..L : v[k].len \in Nat
      /\ i \in 1..L
      /\ c \in 0..v[i].len
    BY IovecFacts
<1>2. s \in [0..L -> Nat] /\ s[0] = 0 /\ \A k \in 1..L : s[k] = s[k - 1] + v[k].len
    BY SumsAre DEF IsSum
<1>3. \A k \in i..L : s[i] <= s[k]
    BY SumsGrow, <1>1
<1>4. /\ w \in Iovecs
      /\ Len(w) = L
      /\ \A k \in 1..L : k # i => w[k] = v[k]
      /\ w[i].len = v[i].len - c
    BY DEF IsCut
<1> HIDE DEF s, L
<1>5. g \in [0..L -> Nat]
  <2>1. s[i] = s[i - 1] + v[i].len /\ s[i] \in Nat /\ s[i - 1] \in Nat
    <3>1. i \in 0..L /\ i - 1 \in 0..L
        BY <1>1
    <3> QED
        BY <1>1, <1>2, <3>1
  <2>2. c \in Nat /\ v[i].len \in Nat /\ c <= v[i].len
    BY <1>1
  <2>3. \A k \in 0..L : ~(k < i) => c <= s[k]
    <3>1. c <= s[i]
        BY <2>1, <2>2
    <3>2. \A k \in 0..L : ~(k < i) => k \in i..L
        BY <1>1
    <3>3. \A k \in i..L : s[i] <= s[k] /\ s[k] \in Nat
        BY <1>1, <1>2, <1>3
    <3> QED
        BY <2>1, <2>2, <3>1, <3>2, <3>3
  <2>4. \A k \in 0..L : s[k] \in Nat
    BY <1>2
  <2>5. \A k \in 0..L : (IF k < i THEN s[k] ELSE s[k] - c) \in Nat
    BY <2>2, <2>3, <2>4
  <2> QED
    BY <2>5
<1>6. g[0] = 0
    BY <1>1, <1>2
<1>7. ASSUME NEW k \in 1..L PROVE g[k] = g[k - 1] + w[k].len
  <2>1. /\ s[k] = s[k - 1] + v[k].len
        /\ s[k] \in Nat
        /\ s[k - 1] \in Nat
        /\ v[k].len \in Nat
    <3>1. k \in 0..L /\ k - 1 \in 0..L
        BY <1>1
    <3> QED
        BY <1>1, <1>2, <3>1
  <2>2. /\ g[k] = IF k < i THEN s[k] ELSE s[k] - c
        /\ g[k - 1] = IF k - 1 < i THEN s[k - 1] ELSE s[k - 1] - c
    BY <1>1
  <2> HIDE DEF g
  <2>3. CASE k < i
    <3>1. w[k] = v[k]
        BY <1>1, <1>4, <2>3
    <3> QED
        BY <1>1, <2>1, <2>2, <2>3, <3>1
  <2>4. CASE k = i
    BY <1>1, <1>4, <2>1, <2>2, <2>4
  <2>5. CASE k > i
    <3>1. w[k] = v[k]
        BY <1>1, <1>4, <2>5
    <3>2. ~(k < i) /\ ~(k - 1 < i)
        BY <1>1, <2>5
    <3>3. g[k] = s[k] - c /\ g[k - 1] = s[k - 1] - c
        BY <2>2, <3>2
    <3>4. (s[k - 1] + v[k].len) - c = (s[k - 1] - c) + v[k].len
        BY <1>1, <2>1
    <3> QED
        BY <2>1, <3>1, <3>3, <3>4
  <2> QED
    BY <2>3, <2>4, <2>5, <1>1
<1> HIDE DEF g
<1>8. IsSum(w, g)
    BY <1>4, <1>5, <1>6, <1>7 DEF IsSum
<1>9. Sums(w) = g
    BY <1>4, <1>8, SumsUnique
<1> QED
    BY <1>9 DEF g, s, L

(* A byte keeps its place when a cut of c moves the base or the offset.        *)
LEMMA SamePlace ==
    ASSUME NEW x \in Nat, NEW y \in Nat, NEW c \in Nat, NEW p \in Nat
    PROVE  /\ (x + c) + (p - y) = x + ((p + c) - y)
           /\ x + (p - (y - c)) = x + ((p + c) - y)
  OBVIOUS

(* Its bytes are those that follow the first c of iovec i. *)
LEMMA CutBytes ==
    ASSUME NEW v \in Iovecs, NEW i \in 1..Len(v), NEW c \in 0..v[i].len, NEW w,
           IsCut(v, w, i, c),
           NEW p \in Nat, Sums(v)[i - 1] < p, p <= Sums(v)[Len(v)] - c
    PROVE  Byte(w, p) = Byte(v, p + c)
<1> DEFINE L == Len(v)
           s == Sums(v)
           t == Sums(w)
           q == p + c
<1>1. /\ L \in Nat
      /\ \A k \in 1..L : v[k].len \in Nat /\ v[k].base \in Nat
      /\ i \in 1..L
      /\ c \in 0..v[i].len
    BY IovecFacts
<1>2. s \in [0..L -> Nat] /\ \A k \in 1..L : s[k] = s[k - 1] + v[k].len
    BY SumsAre DEF IsSum
<1>3. \A k \in 0..L : \A m \in k..L : s[k] <= s[m]
    BY SumsGrow
<1>4. \A k \in 0..L : t[k] = IF k < i THEN s[k] ELSE s[k] - c
    BY CutSums
<1>5. /\ w \in Iovecs
      /\ Len(w) = L
      /\ \A k \in 1..L : k # i => w[k] = v[k]
      /\ w[i].base = v[i].base + c
      /\ w[i].buffer = v[i].buffer
    BY DEF IsCut
<1>6. s[i - 1] < p /\ p <= s[L] - c
    OBVIOUS
<1>7. /\ \A r \in 1..s[L] : \E k \in 1..L : s[k - 1] < r /\ r <= s[k]
      /\ \A r \in Nat : \A k \in 1..L : s[k - 1] < r /\ r <= s[k]
             => Byte(v, r) = <<v[k].buffer, v[k].base + (r - s[k - 1])>>
      /\ \A r \in Nat : \A k \in 1..L : t[k - 1] < r /\ r <= t[k]
             => Byte(w, r) = <<w[k].buffer, w[k].base + (r - t[k - 1])>>
    BY <1>5, PositionExists, ByteIs
<1> HIDE DEF s, t, L
<1>8. c \in Nat /\ p \in Nat /\ s[L] \in Nat /\ s[i - 1] \in Nat
  <2>1. v[i].len \in Nat /\ L \in 0..L /\ i - 1 \in 0..L
    BY <1>1
  <2>2. c \in Nat
    BY <1>1, <2>1
  <2> QED
    BY <1>2, <2>1, <2>2
<1>9. q \in 1..s[L] /\ q \in Nat
    BY <1>6, <1>8
<1>10. PICK k \in 1..L : s[k - 1] < q /\ q <= s[k]
    BY <1>7, <1>9
<1>11. s[k] \in Nat /\ s[k - 1] \in Nat /\ k \in Nat /\ i \in Nat
    BY <1>1, <1>2, <1>10
<1>12. k >= i
  <2> SUFFICES ASSUME k < i PROVE FALSE
    BY <1>11
  <2>1. s[k] <= s[i - 1]
    BY <1>1, <1>3, <1>10
  <2> QED
    BY <1>6, <1>8, <1>10, <1>11, <2>1
<1>13. t[k] = s[k] - c
    BY <1>1, <1>4, <1>12
<1>14. Byte(v, q) = <<v[k].buffer, v[k].base + (q - s[k - 1])>>
    BY <1>7, <1>9, <1>10
<1>15. CASE k = i
  <2>1. t[k - 1] = s[k - 1]
    <3>1. k - 1 \in 0..L /\ k - 1 < i
        BY <1>1, <1>15
    <3> QED
        BY <1>4, <3>1
  <2>2. t[k - 1] < p /\ p <= t[k]
    <3>1. t[k - 1] = s[i - 1] /\ t[k] = s[k] - c
        BY <1>13, <1>15, <2>1
    <3> HIDE DEF s, t
    <3> QED
        BY <1>6, <1>8, <1>10, <1>11, <3>1
  <2>3. Byte(w, p) = <<w[k].buffer, w[k].base + (p - t[k - 1])>>
    BY <1>7, <2>2
  <2>4. w[k].base + (p - t[k - 1]) = v[k].base + (q - s[k - 1])
    <3>1. w[k].base = v[k].base + c
        BY <1>5, <1>15
    <3>2. v[k].base \in Nat
        BY <1>1
    <3>3. (v[k].base + c) + (p - s[k - 1]) = v[k].base + (q - s[k - 1])
      <4> DEFINE x == v[k].base
                 y == s[k - 1]
      <4>1. x \in Nat /\ y \in Nat
        BY <1>11, <3>2
      <4> HIDE DEF x, y
      <4>2. (x + c) + (p - y) = x + (q - y)
        BY <1>8, <4>1, SamePlace
      <4> QED
        BY <4>2 DEF x, y
    <3> QED
        BY <2>1, <3>1, <3>3
  <2> QED
    BY <1>5, <1>14, <1>15, <2>3, <2>4
<1>16. CASE k > i
  <2>1. t[k - 1] = s[k - 1] - c
    <3>1. k - 1 \in 0..L /\ ~(k - 1 < i)
        BY <1>1, <1>11, <1>12, <1>16
    <3> QED
        BY <1>4, <3>1
  <2>2. t[k - 1] < p /\ p <= t[k]
    <3> DEFINE x == s[k - 1]
               z == s[k]
    <3>1. x \in Nat /\ z \in Nat /\ x < p + c /\ p + c <= z
        BY <1>10, <1>11
    <3> HIDE DEF x, z
    <3>2. x - c < p /\ p <= z - c
        BY <1>8, <3>1
    <3> QED
        BY <1>13, <2>1, <3>2 DEF x, z
  <2>3. Byte(w, p) = <<w[k].buffer, w[k].base + (p - t[k - 1])>>
    BY <1>7, <2>2
  <2>4. w[k] = v[k]
    BY <1>5, <1>16
  <2>5. w[k].base + (p - t[k - 1]) = v[k].base + (q - s[k - 1])
    <3>1. v[k].base \in Nat
        BY <1>1
    <3>2. v[k].base + (p - (s[k - 1] - c)) = v[k].base + (q - s[k - 1])
      <4> DEFINE x == v[k].base
                 y == s[k - 1]
      <4>1. x \in Nat /\ y \in Nat
        BY <1>11, <3>1
      <4> HIDE DEF x, y
      <4>2. x + (p - (y - c)) = x + (q - y)
        BY <1>8, <4>1, SamePlace
      <4> QED
        BY <4>2 DEF x, y
    <3> QED
        BY <2>1, <2>4, <3>2
  <2> QED
    BY <1>14, <2>3, <2>4, <2>5
<1> QED
    BY <1>11, <1>12, <1>15, <1>16

(* A list that waits to be sent: its fields agree, and it is not empty.        *)
Held(b) == /\ Inside(b)
           /\ Consistent(b)
           /\ ~IsEmpty(b)
           /\ b.remain_size_ > 0

(* A sequence with one element replaced. *)
LEMMA Replaced ==
    ASSUME NEW S, NEW s \in Seq(S), NEW i \in 1..Len(s), NEW e \in S
    PROVE  /\ [s EXCEPT ![i] = e] \in Seq(S)
           /\ Len([s EXCEPT ![i] = e]) = Len(s)
<1> DEFINE t == [s EXCEPT ![i] = e]
           n == Len(s)
<1>1. n \in Nat /\ s \in [1..n -> S]
    BY LenProperties
<1>2. t \in [1..n -> S]
    BY <1>1
<1> HIDE DEF t, n
<1> QED
    BY <1>1, <1>2, FunctionIsSeq DEF t, n

(* The EXCEPT of Reoffset makes that cut. *)
LEMMA CutIovecs ==
    ASSUME NEW v \in Iovecs, NEW i \in 1..Len(v), NEW rest \in 0..v[i].len, NEW w,
           w = [v EXCEPT ![i].base = @ + v[i].len - rest, ![i].len = rest]
    PROVE  IsCut(v, w, i, v[i].len - rest)
<1> DEFINE I == [buffer : Buffers, base : Nat, len : Nat]
           l == v[i].len
           a == v[i].base
           e == [buffer |-> v[i].buffer, base |-> a + (l - rest), len |-> rest]
<1>1. /\ Len(v) \in Nat
      /\ DOMAIN v = 1..Len(v)
      /\ v[i] \in I
      /\ v[i].buffer \in Buffers
    BY IovecFacts
<1>2. l \in Nat /\ a \in Nat
    BY IovecFacts
<1>3. rest \in 0..l
    OBVIOUS
<1>4. w = [v EXCEPT ![i] = [[v[i] EXCEPT !.base = a + (l - rest)] EXCEPT !.len = rest]]
    OBVIOUS
<1>5. [[v[i] EXCEPT !.base = a + (l - rest)] EXCEPT !.len = rest] = e
  <2> DEFINE f == v[i].buffer
             x == a + (l - rest)
  <2>1. v[i] = [buffer |-> f, base |-> a, len |-> l]
    BY <1>1
  <2>2. e = [buffer |-> f, base |-> x, len |-> rest]
    OBVIOUS
  <2> HIDE DEF e, f, x, a, l
  <2>3. [v[i] EXCEPT !.base = x] = [buffer |-> f, base |-> x, len |-> l]
    BY <2>1
  <2> DEFINE g == [v[i] EXCEPT !.base = x]
  <2>4. g = [buffer |-> f, base |-> x, len |-> l]
    BY <2>3
  <2> HIDE DEF g
  <2>5. [g EXCEPT !.len = rest] = [buffer |-> f, base |-> x, len |-> rest]
    BY <2>4
  <2> QED
    BY <2>2, <2>5 DEF g, x
<1> HIDE DEF l, a
<1>6. rest \in Nat /\ a + (l - rest) \in Nat /\ rest = l - (l - rest)
    BY <1>2, <1>3
<1>7. e \in I
    BY <1>1, <1>6
<1>8. w = [v EXCEPT ![i] = e]
    BY <1>4, <1>5
<1> HIDE DEF I, e
<1>9. v \in Seq(I)
    BY DEF Iovecs, I
<1>10. w \in Seq(I) /\ Len(w) = Len(v)
  <2> DEFINE u == [v EXCEPT ![i] = e]
  <2>1. u \in Seq(I) /\ Len(u) = Len(v)
    BY <1>7, <1>9, Replaced
  <2> HIDE DEF u
  <2>2. w = u
    BY <1>8 DEF u
  <2> QED
    BY <2>1, <2>2
<1>11. w[i] = e /\ \A k \in 1..Len(v) : k # i => w[k] = v[k]
    BY <1>1, <1>8
<1>12. e = [buffer |-> v[i].buffer, base |-> a + (l - rest), len |-> l - (l - rest)]
    BY <1>6 DEF e
<1> QED
    BY <1>10, <1>11, <1>12 DEF IsCut, Iovecs, I, l, a

(* reoffset leaves the bytes after the first n, of which the fields tell. *)
LEMMA ReoffsetKeeps ==
    ASSUME NEW b, Held(b), NEW n \in 1..Len(Bytes(b)), n < Len(Bytes(b))
    PROVE  /\ Held(Reoffset(b, n))
           /\ Bytes(Reoffset(b, n)) = SubSeq(Bytes(b), n + 1, Len(Bytes(b)))
<1> DEFINE v == b.iovec_
           L == Len(v)
           off == b.iovec_off_
           s == Sums(v)
           B == Bytes(b)
           i == LastOf(b, n)
           rest == Rest(b, n)
           c == v[i].len - rest
           w == [v EXCEPT ![i].base = @ + v[i].len - rest, ![i].len = rest]
           t == Sums(w)
           o == OffAfter(b, n)
           r == Reoffset(b, n)
           pkts == b.pkt_list_
           kept == SubSeq(pkts, o - off + 1, Len(pkts))
<1>1. Inside(b)
    BY DEF Held
<1>2. /\ v \in Iovecs
      /\ L \in Nat
      /\ off \in 0..L
      /\ s \in [0..L -> Nat]
      /\ B \in Seq(Buffers \X Nat)
      /\ Len(B) = s[L] - s[off]
      /\ \A p \in 1..Len(B) : B[p] = Byte(v, s[off] + p)
    BY <1>1, BytesAre
<1>3. i \in off + 1 .. L /\ s[i - 1] < s[off] + n /\ s[off] + n <= s[i]
    BY <1>1, LastOfIs
<1>4. v[i].len \in Nat /\ s[i] = s[i - 1] + v[i].len /\ i \in 1..L
  <2>1. i \in 1..L
    BY <1>2, <1>3
  <2>2. v[i].len \in Nat
    BY <1>2, <2>1, IovecFacts
  <2>3. s[i] = s[i - 1] + v[i].len
    BY <1>2, <2>1, SumsAre DEF IsSum
  <2> QED
    BY <2>1, <2>2, <2>3
<1>5. rest = (s[i] - s[off]) - n
  <2>1. Total(v, off + 1, i) = s[i] - s[(off + 1) - 1] /\ (off + 1) - 1 = off
    BY <1>2 DEF Total
  <2>2. rest = Total(v, off + 1, i) - n
    BY DEF Rest
  <2> QED
    BY <2>1, <2>2
<1>6. r = [iovec_ |-> w, iovec_off_ |-> o, remain_size_ |-> b.remain_size_ - n,
           pkt_list_ |-> kept]
    BY DEF Reoffset
<1>7. o = IF rest = 0 THEN i ELSE i - 1
    BY DEF OffAfter
<1>8. b.remain_size_ = Len(B) /\ ~IsEmpty(b)
    BY DEF Held, Consistent
<1>9. pkts \in Seq(Buffers) /\ pkts = [k \in 1..L - off |-> v[off + k].buffer]
    BY DEF Held, Consistent, Inside, BufferLists, Iovecs
<1>10. n \in 1..Len(B) /\ n < Len(B)
    OBVIOUS
<1> HIDE DEF rest, o, i, s, t, B, r, kept, v, L, off, pkts
<1>11. s[i] \in Nat /\ s[i - 1] \in Nat /\ s[off] \in Nat /\ s[L] \in Nat
  <2>1. i \in 0..L /\ i - 1 \in 0..L /\ off \in 0..L /\ L \in 0..L
    BY <1>2, <1>3, <1>4
  <2> QED
    BY <1>2, <2>1
<1>a. Len(B) \in Nat
    BY <1>2, LenProperties
<1>b. n \in Nat /\ n >= 1 /\ n < Len(B)
    BY <1>10, <1>a
<1> DEFINE l == v[i].len
           from == s[off]
           x == s[i - 1]
           y == s[i]
           z == s[L]
<1>12. /\ rest \in 0..l
       /\ rest < l
       /\ rest \in Nat
       /\ c \in 0..l
       /\ c \in Nat
       /\ x + c = from + n
       /\ y - c = x + rest
  <2>1. l \in Nat /\ x \in Nat /\ y \in Nat /\ from \in Nat
    BY <1>4, <1>11
  <2>2. y = x + l /\ x < from + n /\ from + n <= y
    BY <1>3, <1>4
  <2>3. rest = (y - from) - n /\ c = l - rest
    BY <1>5
  <2> HIDE DEF l, from, x, y, c
  <2> QED
    BY <2>1, <2>2, <2>3, <1>b
<1>13. c \in 0..v[i].len /\ c \in Nat /\ s[i - 1] + c = s[off] + n
    BY <1>12
<1>14. IsCut(v, w, i, c)
  <2>1. i \in 1..Len(v)
    BY <1>4 DEF L
  <2> HIDE DEF c
  <2> QED
    BY <1>2, <1>12, <2>1, CutIovecs DEF c
<1>15. \A k \in 0..L : t[k] = IF k < i THEN s[k] ELSE s[k] - c
  <2> HIDE DEF c, w
  <2> QED
    BY <1>2, <1>4, <1>13, <1>14, CutSums DEF t, s, L
<1>16. \A p \in Nat : s[i - 1] < p /\ p <= s[L] - c => Byte(w, p) = Byte(v, p + c)
  <2> SUFFICES ASSUME NEW p \in Nat, s[i - 1] < p, p <= s[L] - c
               PROVE  Byte(w, p) = Byte(v, p + c)
    OBVIOUS
  <2> HIDE DEF c, w, x, z
  <2>1. v \in Iovecs /\ i \in 1..Len(v) /\ c \in 0..v[i].len /\ IsCut(v, w, i, c)
    BY <1>2, <1>4, <1>13, <1>14 DEF L
  <2>2. Sums(v)[i - 1] < p /\ p <= Sums(v)[Len(v)] - c
    BY DEF s, L
  <2> QED
    BY <2>1, <2>2, CutBytes
<1>17. w \in Iovecs /\ Len(w) = L
  <2> HIDE DEF c, w
  <2> QED
    BY <1>14 DEF IsCut, L
<1>18. \A k \in 1..L : w[k].buffer = v[k].buffer
  <2> HIDE DEF c, w
  <2>1. /\ \A k \in 1..L : k # i => w[k] = v[k]
        /\ w[i].buffer = v[i].buffer
    BY <1>14 DEF IsCut, L
  <2> QED
    BY <2>1
<1> HIDE DEF w
<1>19. z - y > 0 \/ rest > 0
  <2>1. rest = (y - from) - n /\ Len(B) = z - from
    BY <1>2, <1>5
  <2>2. y \in Nat /\ z \in Nat /\ from \in Nat
    BY <1>11
  <2> HIDE DEF y, z, from
  <2> QED
    BY <2>1, <2>2, <1>b, <1>12
<1>20. o \in off .. L - 1 /\ o \in Nat /\ t[o] = s[i - 1]
  <2>1. CASE rest = 0
    <3>1. i # L
        BY <1>11, <1>19, <2>1
    <3>2. t[i] = s[i] - c
        BY <1>4, <1>15
    <3>3. s[i] - c = s[i - 1]
        BY <1>4, <1>11, <2>1
    <3>4. o = i
        BY <1>7, <2>1
    <3>5. i \in off + 1 .. L /\ L \in Nat /\ off \in Nat
        BY <1>2, <1>3
    <3> HIDE DEF c, w, x, y, z, from, l
    <3>6. i \in off .. L - 1 /\ i \in Nat
        BY <3>1, <3>5
    <3> QED
        BY <3>2, <3>3, <3>4, <3>6
  <2>2. CASE rest # 0
    <3>1. t[i - 1] = s[i - 1]
        BY <1>2, <1>4, <1>15
    <3>2. o = i - 1
        BY <1>7, <2>2
    <3>3. i \in off + 1 .. L /\ L \in Nat /\ off \in Nat
        BY <1>2, <1>3
    <3> HIDE DEF c, w, x, y, z, from, l
    <3>4. i - 1 \in off .. L - 1 /\ i - 1 \in Nat
        BY <3>3
    <3> QED
        BY <3>1, <3>2, <3>4
  <2> QED
    BY <2>1, <2>2
<1>21. kept \in Seq(Buffers) /\ kept = [k \in 1..L - o |-> w[o + k].buffer]
  <2> DEFINE m == (o - off) + 1
             f == [k \in 1..L - o |-> w[o + k].buffer]
  <2>1. L - off \in Nat /\ L - o \in Nat /\ m \in Int /\ m >= 1
    BY <1>2, <1>20
  <2>2. Len(pkts) = L - off
    BY <1>9, <2>1
  <2>3. \A k \in 1..L - off : pkts[k] = v[off + k].buffer /\ pkts[k] \in Buffers
    BY <1>9, <2>2, ElementOfSeq
  <2>4. kept = SubSeq(pkts, m, L - off)
    BY <2>2 DEF kept
  <2>5. \A k \in m .. L - off : pkts[k] \in Buffers
    <3> HIDE DEF m
    <3>1. \A k \in m .. L - off : k \in 1..L - off
        BY <2>1
    <3> QED
        BY <2>3, <3>1
  <2> HIDE DEF m
  <2>6. /\ kept \in Seq(Buffers)
        /\ Len(kept) = IF m <= L - off THEN ((L - off) - m) + 1 ELSE 0
        /\ \A k \in 1 .. ((L - off) - m) + 1 : kept[k] = pkts[(m + k) - 1]
    BY <2>1, <2>4, <2>5, SubSeqProperties
  <2>7. ((L - off) - m) + 1 = L - o
    BY <1>2, <1>20 DEF m
  <2>8. Len(kept) = L - o
    BY <2>1, <2>6, <2>7
  <2>9. \A k \in 1..L - o : kept[k] = w[o + k].buffer
    <3> SUFFICES ASSUME NEW k \in 1..L - o PROVE kept[k] = w[o + k].buffer
        OBVIOUS
    <3>1. /\ (m + k) - 1 \in 1..L - off
          /\ off + ((m + k) - 1) = o + k
          /\ o + k \in 1..L
        BY <1>2, <1>20, <2>1 DEF m
    <3>2. kept[k] = pkts[(m + k) - 1]
        BY <2>6, <2>7
    <3> QED
        BY <1>18, <2>3, <3>1, <3>2
  <2>10. f \in [1..L - o -> Buffers]
    <3>1. \A k \in 1..L - o : kept[k] \in Buffers
        BY <2>6, <2>8, ElementOfSeq
    <3> QED
        BY <2>9, <3>1
  <2>11. f \in Seq(Buffers) /\ Len(f) = L - o
    BY <2>1, <2>10
  <2>12. \A k \in 1..L - o : f[k] = kept[k]
    BY <2>9
  <2> HIDE DEF f
  <2>13. kept = f
    BY <2>6, <2>8, <2>11, <2>12, SeqEqual
  <2> QED
    BY <2>6, <2>13 DEF f
<1>22. Inside(r)
  <2>1. b.remain_size_ - n \in Nat
    BY <1>8, <1>a, <1>b
  <2>2. o \in 0..L
    BY <1>2, <1>20
  <2>3. w \in Seq([buffer : Buffers, base : Nat, len : Nat])
    BY <1>17 DEF Iovecs
  <2> QED
    BY <1>6, <1>17, <1>20, <1>21, <2>1, <2>2, <2>3 DEF Inside, BufferLists, Iovecs
<1>23. r.iovec_ = w /\ r.iovec_off_ = o /\ r.remain_size_ = b.remain_size_ - n
         /\ r.pkt_list_ = kept
    BY <1>6
<1>24. /\ Bytes(r) \in Seq(Buffers \X Nat)
       /\ Len(Bytes(r)) = t[L] - t[o]
       /\ \A p \in 1..Len(Bytes(r)) : Bytes(r)[p] = Byte(w, t[o] + p)
    BY <1>17, <1>22, <1>23, BytesAre DEF t
<1>25. Len(Bytes(r)) = Len(B) - n
  <2>1. t[L] = z - c /\ t[o] = x
    <3>1. L \in 0..L /\ ~(L < i)
        BY <1>2, <1>4
    <3>2. t[L] = s[L] - c
      <4> HIDE DEF c
      <4> QED
        BY <1>15, <3>1
    <3> QED
        BY <1>20, <3>2
  <2>2. Len(Bytes(r)) = (z - c) - x /\ Len(B) = z - from /\ x + c = from + n
    BY <1>2, <1>12, <1>24, <2>1
  <2>3. x \in Nat /\ z \in Nat /\ from \in Nat
    BY <1>11
  <2> HIDE DEF x, z, from, c
  <2> QED
    BY <2>2, <2>3, <1>b, <1>12
<1>26. Len(B) \in Nat /\ Len(B) - n \in Nat /\ Len(B) - n > 0 /\ n \in Nat
    BY <1>a, <1>b
<1>27. \A p \in 1..Len(B) - n : Bytes(r)[p] = B[n + p]
  <2> SUFFICES ASSUME NEW p \in 1..Len(B) - n PROVE Bytes(r)[p] = B[n + p]
    OBVIOUS
  <2>1. Bytes(r)[p] = Byte(w, x + p)
    BY <1>20, <1>24, <1>25
  <2>2. /\ x \in Nat
        /\ z \in Nat
        /\ from \in Nat
        /\ p \in Nat
        /\ p >= 1
        /\ p <= Len(B) - n
    BY <1>11, <1>26
  <2>3. Len(B) = z - from /\ x + c = from + n
    BY <1>2, <1>12
  <2>4. /\ x + p \in Nat
        /\ x < x + p
        /\ x + p <= z - c
        /\ (x + p) + c = from + (n + p)
        /\ n + p \in 1..Len(B)
    <3> HIDE DEF x, z, from, c
    <3>1. c \in Nat /\ x + c = from + n
        BY <1>12
    <3>2. x + p \in Nat /\ x < x + p /\ (x + p) + c = from + (n + p)
        BY <2>2, <1>b, <3>1
    <3>3. x + p <= z - c
        BY <2>2, <2>3, <1>b, <3>1
    <3>4. n + p \in 1..Len(B)
        BY <2>2, <1>b, <1>a
    <3> QED
        BY <3>2, <3>3, <3>4
  <2>5. Byte(w, x + p) = Byte(v, (x + p) + c)
    BY <1>16, <2>4
  <2> HIDE DEF x, c
  <2> QED
    BY <1>2, <2>1, <2>4, <2>5
<1>28. Bytes(r) = SubSeq(B, n + 1, Len(B))
  <2> DEFINE S == Buffers \X Nat
             g == SubSeq(B, n + 1, Len(B))
  <2>1. B \in Seq(S) /\ Bytes(r) \in Seq(S)
    BY <1>2, <1>24
  <2> HIDE DEF S
  <2>2. \A p \in n + 1 .. Len(B) : B[p] \in S
    BY <1>26, <2>1, ElementOfSeq
  <2>3. /\ g \in Seq(S)
        /\ Len(g) = IF n + 1 <= Len(B) THEN (Len(B) - (n + 1)) + 1 ELSE 0
        /\ \A p \in 1 .. (Len(B) - (n + 1)) + 1 : g[p] = B[((n + 1) + p) - 1]
    BY <1>26, <2>2, SubSeqProperties
  <2> HIDE DEF g
  <2>4. Len(g) = Len(B) - n
    BY <1>26, <2>3
  <2>5. \A p \in 1..Len(B) - n : g[p] = B[n + p]
    <3> SUFFICES ASSUME NEW p \in 1..Len(B) - n PROVE g[p] = B[n + p]
        OBVIOUS
    <3>1. (Len(B) - (n + 1)) + 1 = Len(B) - n /\ p \in Nat
        BY <1>26
    <3>2. ((n + 1) + p) - 1 = n + p
        BY <1>26, <3>1
    <3> QED
        BY <2>3, <3>1, <3>2
  <2>6. \A p \in 1..Len(Bytes(r)) : Bytes(r)[p] = g[p]
    BY <1>25, <1>27, <2>5
  <2>7. Bytes(r) = g
    BY <1>25, <2>1, <2>3, <2>4, <2>6, SeqEqual
  <2> QED
    BY <2>7 DEF g
<1>29. Consistent(r)
    BY <1>8, <1>17, <1>21, <1>23, <1>25 DEF Consistent
<1>30. ~IsEmpty(r) /\ r.remain_size_ > 0
    BY <1>8, <1>17, <1>2, <1>20, <1>23, <1>26 DEF IsEmpty
<1> QED
    BY <1>22, <1>28, <1>29, <1>30 DEF Held, r, B

(* What sendmsg took is gone, and nothing else.                                *)
THEOREM SentKeeps ==
    ASSUME NEW b, Held(b), NEW n \in 1..Len(Bytes(b))
    PROVE  /\ IsEmpty(Sent(b, n)) => n = Len(Bytes(b))
           /\ ~IsEmpty(Sent(b, n)) =>
                 /\ Held(Sent(b, n))
                 /\ Bytes(Sent(b, n)) = SubSeq(Bytes(b), n + 1, Len(Bytes(b)))
<1>1. b.remain_size_ = Len(Bytes(b)) /\ Len(Bytes(b)) \in Nat
  <2>1. Inside(b)
    BY DEF Held
  <2> DEFINE S == Buffers \X Nat
  <2>2. Bytes(b) \in Seq(S)
    BY <2>1, BytesAre
  <2> HIDE DEF S
  <2> QED
    BY <2>2, LenProperties DEF Held, Consistent
<1>2. CASE n >= b.remain_size_
  <2>1. Sent(b, n) = [b EXCEPT !.iovec_off_ = Len(b.iovec_), !.remain_size_ = 0]
    BY <1>2 DEF Sent
  <2>2. Sent(b, n).iovec_off_ = Len(b.iovec_) /\ Sent(b, n).iovec_ = b.iovec_
    BY <2>1 DEF Held, Inside, BufferLists, Iovecs
  <2>3. n = Len(Bytes(b))
    BY <1>1, <1>2
  <2> QED
    BY <2>2, <2>3 DEF IsEmpty
<1>3. CASE ~(n >= b.remain_size_)
  <2>1. Sent(b, n) = Reoffset(b, n)
    BY <1>3 DEF Sent
  <2>2. n < Len(Bytes(b))
    BY <1>1, <1>3
  <2>3. /\ Held(Reoffset(b, n))
        /\ Bytes(Reoffset(b, n)) = SubSeq(Bytes(b), n + 1, Len(Bytes(b)))
    BY <2>2, ReoffsetKeeps
  <2> QED
    BY <2>1, <2>3 DEF Held
<1> QED
    BY <1>2, <1>3

(* A sendmsg is offered no more than is left.                                  *)
LEMMA OfferedInside ==
    ASSUME NEW b, Held(b), NEW udp \in BOOLEAN
    PROVE  OfferedSize(b, udp) \in 0..Len(Bytes(b))
<1> DEFINE v == b.iovec_
           L == Len(v)
           off == b.iovec_off_
           s == Sums(v)
           o == LastOffered(b, udp)
           max == IF udp THEN 1 ELSE IovMax
<1>1. /\ v \in Iovecs
      /\ L \in Nat
      /\ off \in 0..L
      /\ s \in [0..L -> Nat]
      /\ Len(Bytes(b)) = s[L] - s[off]
    BY BytesAre DEF Held
<1>2. OfferedSize(b, udp) = s[o] - s[(off + 1) - 1]
    BY DEF OfferedSize, Total
<1>3. max \in Nat /\ max >= 1
    BY BufferAssumption
<1>4. o = IF off + max < L THEN off + max ELSE L
    BY DEF LastOffered
<1> HIDE DEF o, max
<1>5. o \in off..L /\ (off + 1) - 1 = off
    BY <1>1, <1>3, <1>4
<1>6. s[off] <= s[o] /\ s[o] <= s[L]
    BY <1>1, <1>5, SumsGrow
<1> HIDE DEF s, L, off, v
<1>7. s[off] \in Nat /\ s[o] \in Nat /\ s[L] \in Nat
  <2>1. off \in 0..L /\ o \in 0..L /\ L \in 0..L
    BY <1>1, <1>5
  <2> QED
    BY <1>1, <2>1
<1>8. OfferedSize(b, udp) = s[o] - s[off]
    BY <1>2, <1>5
<1>9. s[o] - s[off] \in 0 .. s[L] - s[off]
  <2> DEFINE x == s[off]
             y == s[o]
             z == s[L]
  <2>1. x \in Nat /\ y \in Nat /\ z \in Nat /\ x <= y /\ y <= z
    BY <1>6, <1>7
  <2> HIDE DEF x, y, z
  <2>2. y - x \in 0 .. z - x
    BY <2>1
  <2> QED
    BY <2>2 DEF x, y, z
<1> QED
    BY <1>1, <1>8, <1>9
--------------------------------------------------------------------------------
(* The fields of a new list. *)
LEMMA CreateIs ==
    ASSUME NEW list \in Seq(Buffers)
    PROVE  LET b == Create(list)
           IN /\ Len(list) \in Nat
              /\ b.iovec_ \in Iovecs
              /\ Len(b.iovec_) = Len(list)
              /\ b.iovec_off_ = 0
              /\ b.pkt_list_ = list
              /\ \A i \in 1..Len(list) :
                    /\ b.iovec_[i] = [buffer |-> list[i], base |-> 0, len |-> Size[list[i]]]
                    /\ list[i] \in Buffers
                    /\ Size[list[i]] \in Nat \ {0}
              /\ Sums(b.iovec_) \in [0..Len(list) -> Nat]
              /\ Sums(b.iovec_)[0] = 0
              /\ \A i \in 1..Len(list) :
                    Sums(b.iovec_)[i] = Sums(b.iovec_)[i - 1] + Size[list[i]]
              /\ Inside(b)
              /\ b.remain_size_ = Sums(b.iovec_)[Len(list)]
<1> DEFINE b == Create(list)
           v == [i \in DOMAIN list |-> Whole(list[i])]
           I == [buffer : Buffers, base : Nat, len : Nat]
           s == Sums(v)
           n == Len(list)
<1>1. b = [iovec_ |-> v, iovec_off_ |-> 0, remain_size_ |-> Total(v, 1, n), pkt_list_ |-> list]
    BY DEF Create
<1>2. n \in Nat /\ DOMAIN list = 1..n /\ \A i \in 1..n : list[i] \in Buffers
    BY LenProperties, ElementOfSeq
<1>3. \A i \in 1..n : Size[list[i]] \in Nat \ {0}
    BY <1>2, BufferAssumption
<1>4. \A i \in 1..n : /\ v[i] = Whole(list[i])
                      /\ v[i] = [buffer |-> list[i], base |-> 0, len |-> Size[list[i]]]
                      /\ v[i].len = Size[list[i]]
    BY <1>2 DEF Whole
<1>5. v \in [1..n -> I]
    BY <1>2, <1>3 DEF Whole
<1> HIDE DEF v
<1>6. v \in Iovecs /\ Len(v) = n
  <2>1. v \in Seq(I) /\ Len(v) = n
    <3> HIDE DEF I
    <3> QED
        BY <1>2, <1>5, FunctionIsSeq
  <2> QED
    BY <2>1 DEF Iovecs
<1>7. s \in [0..n -> Nat] /\ s[0] = 0 /\ \A i \in 1..n : s[i] = s[i - 1] + v[i].len
    BY <1>6, SumsAre DEF IsSum
<1> HIDE DEF n, s
<1>8. \A i \in 1..n : s[i] = s[i - 1] + Size[list[i]]
    BY <1>4, <1>7
<1>9. Total(v, 1, n) = s[n] /\ s[n] \in Nat
  <2>1. Total(v, 1, n) = s[n] - s[0]
    BY DEF Total, s
  <2>2. s[n] \in Nat /\ s[0] = 0
    BY <1>2, <1>7
  <2> QED
    BY <2>1, <2>2
<1>10. b \in BufferLists
  <2>1. v \in Seq([buffer : Buffers, base : Nat, len : Nat])
    BY <1>6 DEF Iovecs
  <2> QED
    BY <1>1, <1>9, <2>1 DEF BufferLists, Iovecs
<1>11. /\ b.iovec_ = v
       /\ b.iovec_off_ = 0
       /\ b.pkt_list_ = list
       /\ b.remain_size_ = s[n]
    BY <1>1, <1>9
<1>12. Inside(b)
    BY <1>2, <1>6, <1>10, <1>11 DEF Inside
<1> HIDE DEF b
<1> QED
    BY <1>2, <1>3, <1>4, <1>6, <1>7, <1>8, <1>11, <1>12 DEF b, s, n

(* A list of buffers waits to be sent, since no buffer is empty. *)
LEMMA CreateHeld ==
    ASSUME NEW list \in Seq(Buffers), list # <<>>
    PROVE  Held(Create(list))
<1> DEFINE b == Create(list)
           v == b.iovec_
           s == Sums(v)
           n == Len(list)
<1>1. /\ n \in Nat
      /\ v \in Iovecs
      /\ Len(v) = n
      /\ b.iovec_off_ = 0
      /\ b.pkt_list_ = list
      /\ \A i \in 1..n : v[i].buffer = list[i] /\ Size[list[i]] \in Nat \ {0}
      /\ s \in [0..n -> Nat]
      /\ s[0] = 0
      /\ \A i \in 1..n : s[i] = s[i - 1] + Size[list[i]]
      /\ Inside(b)
      /\ b.remain_size_ = s[n]
  <2>1. \A i \in 1..n : /\ v[i] = [buffer |-> list[i], base |-> 0, len |-> Size[list[i]]]
                        /\ Size[list[i]] \in Nat \ {0}
    BY CreateIs
  <2>2. ASSUME NEW i \in 1..n PROVE v[i].buffer = list[i]
    <3> DEFINE e == v[i]
    <3>1. e = [buffer |-> list[i], base |-> 0, len |-> Size[list[i]]]
        BY <2>1
    <3> HIDE DEF e
    <3>2. e.buffer = list[i]
        BY <3>1
    <3> QED
        BY <3>2 DEF e
  <2> QED
    BY <2>1, <2>2, CreateIs
<1>2. Len(Bytes(b)) = s[n] - s[0]
    BY <1>1, BytesAre
<1>3. n # 0
    BY EmptySeq
<1>4. s[1] <= s[n]
    BY <1>1, <1>3, SumsGrow
<1> HIDE DEF s, v, b
<1>5. s[n] \in Nat /\ s[n] > 0
  <2>1. s[1] = s[0] + Size[list[1]] /\ Size[list[1]] \in Nat \ {0}
    BY <1>1, <1>3
  <2>2. s[1] \in Nat /\ s[n] \in Nat
    BY <1>1, <1>3
  <2> QED
    BY <1>1, <1>4, <2>1, <2>2
<1>6. list = [i \in 1..n - 0 |-> v[0 + i].buffer]
  <2>1. list = [i \in 1..n |-> list[i]]
    BY <1>1, LenProperties
  <2>2. n - 0 = n /\ \A i \in 1..n : 0 + i = i
    BY <1>1
  <2>3. \A i \in 1..n : v[0 + i].buffer = list[i]
    BY <1>1, <2>2
  <2> QED
    BY <2>1, <2>2, <2>3
<1>7. Consistent(b)
  <2>1. b.remain_size_ = Len(Bytes(b))
    BY <1>1, <1>2, <1>5
  <2>2. b.pkt_list_ = [i \in 1..Len(b.iovec_) - b.iovec_off_ |->
                             b.iovec_[b.iovec_off_ + i].buffer]
    BY <1>1, <1>6 DEF v
  <2> QED
    BY <2>1, <2>2 DEF Consistent
<1> QED
    BY <1>1, <1>3, <1>5, <1>7 DEF Held, IsEmpty, b, v

(* What another buffer adds to the data of a list.                             *)
THEOREM DataAppend ==
    ASSUME NEW list \in Seq(Buffers), NEW x \in Buffers
    PROVE  /\ Bytes(Create(Append(list, x))) = Bytes(Create(list)) \o Bytes(Create(<<x>>))
           /\ Bytes(Create(list)) \in Seq(Buffers \X Nat)
           /\ Bytes(Create(<<x>>)) \in Seq(Buffers \X Nat)
<1> DEFINE long == Append(list, x)
           one == <<x>>
           n == Len(list)
           v == Create(list).iovec_
           u == Create(long).iovec_
           y == Create(one).iovec_
           s == Sums(v)
           t == Sums(u)
           z == Sums(y)
           B == Bytes(Create(list))
           C == Bytes(Create(long))
           D == Bytes(Create(one))
           S == Buffers \X Nat
<1>1. /\ long \in Seq(Buffers)
      /\ Len(long) = n + 1
      /\ \A i \in 1..n : long[i] = list[i]
      /\ long[n + 1] = x
    BY AppendProperties
<1>2. one \in Seq(Buffers) /\ Len(one) = 1 /\ one[1] = x
    OBVIOUS
<1>3. /\ n \in Nat
      /\ v \in Iovecs
      /\ Len(v) = n
      /\ \A i \in 1..n : /\ v[i] = [buffer |-> list[i], base |-> 0, len |-> Size[list[i]]]
                         /\ Size[list[i]] \in Nat \ {0}
      /\ s \in [0..n -> Nat]
      /\ s[0] = 0
      /\ \A i \in 1..n : s[i] = s[i - 1] + Size[list[i]]
    BY CreateIs
<1>4. /\ u \in Iovecs
      /\ Len(u) = n + 1
      /\ \A i \in 1..n + 1 :
            u[i] = [buffer |-> long[i], base |-> 0, len |-> Size[long[i]]]
      /\ t \in [0..n + 1 -> Nat]
      /\ t[0] = 0
      /\ \A i \in 1..n + 1 : t[i] = t[i - 1] + Size[long[i]]
  <2> HIDE DEF long
  <2> QED
    BY <1>1, CreateIs
<1>5. /\ y \in Iovecs
      /\ Len(y) = 1
      /\ y[1] = [buffer |-> x, base |-> 0, len |-> Size[x]]
      /\ z[0] = 0
      /\ z[1] = z[1 - 1] + Size[x]
      /\ Size[x] \in Nat \ {0}
  <2> HIDE DEF one
  <2>1. 1 \in 1..1
    OBVIOUS
  <2> QED
    BY <1>2, <2>1, CreateIs
<1>6. B \in Seq(S) /\ Len(B) = s[n] - s[0] /\ \A p \in 1..Len(B) : B[p] = Byte(v, s[0] + p)
  <2>1. Inside(Create(list)) /\ Create(list).iovec_off_ = 0
    BY CreateIs
  <2> QED
    BY <1>3, <2>1, BytesAre
<1>7. C \in Seq(S) /\ Len(C) = t[n + 1] - t[0] /\ \A p \in 1..Len(C) : C[p] = Byte(u, t[0] + p)
  <2> HIDE DEF long
  <2>1. Inside(Create(long)) /\ Create(long).iovec_off_ = 0
    BY <1>1, CreateIs
  <2> QED
    BY <1>4, <2>1, BytesAre
<1>8. D \in Seq(S) /\ Len(D) = z[1] - z[0] /\ \A p \in 1..Len(D) : D[p] = Byte(y, z[0] + p)
  <2> HIDE DEF one
  <2>1. Inside(Create(one)) /\ Create(one).iovec_off_ = 0
    BY <1>2, CreateIs
  <2> QED
    BY <1>5, <2>1, BytesAre
<1> HIDE DEF B, C, D, S, s, t, z, v, u, y, long, one, n
<1>9. \A i \in 0..n : t[i] = s[i]
  <2> DEFINE g == [i \in 0..n |-> t[i]]
  <2>1. g \in [0..n -> Nat] /\ g[0] = 0
    BY <1>3, <1>4
  <2>2. ASSUME NEW i \in 1..n PROVE g[i] = g[i - 1] + v[i].len
    <3>1. g[i] = t[i] /\ g[i - 1] = t[i - 1]
        BY <1>3
    <3>2. i \in 1..n + 1
        BY <1>3
    <3>3. t[i] = t[i - 1] + Size[list[i]]
        BY <1>1, <1>4, <3>2
    <3>4. v[i].len = Size[list[i]]
        BY <1>3
    <3> HIDE DEF g
    <3> QED
        BY <3>1, <3>3, <3>4
  <2> HIDE DEF g
  <2>3. IsSum(v, g)
    BY <1>3, <2>1, <2>2 DEF IsSum
  <2>4. s = g
    BY <1>3, <2>3, SumsUnique DEF s
  <2> QED
    BY <2>4 DEF g
<1>10. /\ s[n] \in Nat
       /\ t[n + 1] = s[n] + Size[x]
       /\ t[n] = s[n]
       /\ z[1] = Size[x]
       /\ Size[x] \in Nat
  <2>1. t[n + 1] = t[(n + 1) - 1] + Size[long[n + 1]]
    BY <1>3, <1>4
  <2>2. (n + 1) - 1 = n /\ n \in 0..n /\ 1 - 1 = 0
    BY <1>3
  <2>3. z[1] = Size[x]
    BY <1>5, <2>2
  <2> QED
    BY <1>1, <1>3, <1>5, <1>9, <2>1, <2>2, <2>3
<1>11. Len(B) = s[n] /\ Len(D) = Size[x] /\ Len(C) = s[n] + Size[x]
    BY <1>3, <1>4, <1>5, <1>6, <1>7, <1>8, <1>10
<1> DEFINE BD == B \o D
<1>12. /\ BD \in Seq(S)
       /\ Len(BD) = Len(B) + Len(D)
       /\ \A p \in 1..Len(B) + Len(D) : BD[p] = IF p <= Len(B) THEN B[p] ELSE D[p - Len(B)]
    BY <1>6, <1>8, ConcatProperties
<1> HIDE DEF BD
<1>13. ASSUME NEW p \in 1..Len(C) PROVE C[p] = BD[p]
  <2>1. /\ p \in Nat
        /\ p >= 1
        /\ p <= s[n] + Size[x]
        /\ p \in 1..Len(B) + Len(D)
    BY <1>10, <1>11
  <2>2. C[p] = Byte(u, p)
    <3>1. t[0] + p = p
        BY <1>4, <2>1
    <3> QED
        BY <1>7, <3>1
  <2>3. CASE p <= s[n]
    <3>1. p \in 1..s[n]
        BY <1>10, <2>1, <2>3
    <3>2. PICK i \in 1..n : s[i - 1] < p /\ p <= s[i]
        BY <1>3, <3>1, PositionExists DEF s
    <3>3. /\ t[i - 1] = s[i - 1]
          /\ t[i] = s[i]
          /\ i \in 1..n + 1
        BY <1>3, <1>9
    <3>4. u[i] = v[i]
      <4>1. u[i] = [buffer |-> long[i], base |-> 0, len |-> Size[long[i]]]
        BY <1>4, <3>3
      <4>2. v[i] = [buffer |-> list[i], base |-> 0, len |-> Size[list[i]]]
        BY <1>3
      <4>3. long[i] = list[i]
        BY <1>1
      <4> QED
        BY <4>1, <4>2, <4>3
    <3>5. Byte(u, p) = <<u[i].buffer, u[i].base + (p - t[i - 1])>>
        BY <1>4, <2>1, <3>2, <3>3, ByteIs DEF t
    <3>6. Byte(v, p) = <<v[i].buffer, v[i].base + (p - s[i - 1])>>
        BY <1>3, <2>1, <3>2, ByteIs DEF s
    <3>7. Byte(u, p) = Byte(v, p)
        BY <3>3, <3>4, <3>5, <3>6
    <3>8. BD[p] = B[p]
        BY <1>11, <1>12, <2>1, <2>3
    <3>9. B[p] = Byte(v, p)
      <4>1. s[0] + p = p /\ p \in 1..Len(B)
        BY <1>3, <1>11, <2>1, <3>1
      <4> QED
        BY <1>6, <4>1
    <3> QED
        BY <2>2, <3>7, <3>8, <3>9
  <2>4. CASE p > s[n]
    <3> DEFINE q == p - s[n]
    <3>1. /\ q \in Nat
          /\ q >= 1
          /\ q <= Size[x]
        BY <1>10, <2>1, <2>4
    <3>2. BD[p] = D[q]
        BY <1>10, <1>11, <1>12, <2>1, <2>4
    <3> HIDE DEF q
    <3>3. D[q] = Byte(y, q)
      <4>1. z[0] + q = q /\ q \in 1..Len(D)
        BY <1>5, <1>11, <1>10, <3>1
      <4> QED
        BY <1>8, <4>1
    <3>4. Byte(y, q) = <<y[1].buffer, y[1].base + (q - z[1 - 1])>>
      <4>1. /\ 1 \in 1..Len(y)
            /\ z[1 - 1] < q
            /\ q <= z[1]
        BY <1>5, <1>10, <3>1
      <4> QED
        BY <1>5, <3>1, <4>1, ByteIs DEF z
    <3>5. y[1].buffer = x /\ y[1].base + (q - z[1 - 1]) = q
        BY <1>5, <3>1
    <3>6. Byte(u, p) = <<u[n + 1].buffer, u[n + 1].base + (p - t[(n + 1) - 1])>>
      <4>1. /\ n + 1 \in 1..Len(u)
            /\ t[(n + 1) - 1] < p
            /\ p <= t[n + 1]
        BY <1>3, <1>4, <1>10, <2>1, <2>4
      <4> QED
        BY <1>4, <2>1, <4>1, ByteIs DEF t
    <3>7. u[n + 1].buffer = x /\ u[n + 1].base = 0
        BY <1>1, <1>3, <1>4
    <3>8. u[n + 1].base + (p - t[(n + 1) - 1]) = q
        BY <1>3, <1>10, <2>1, <3>1, <3>7 DEF q
    <3> QED
        BY <2>2, <3>2, <3>3, <3>4, <3>5, <3>6, <3>7, <3>8
  <2> QED
    BY <1>10, <2>1, <2>3, <2>4
<1>14. C = BD
  <2>1. Len(C) = Len(BD)
    BY <1>10, <1>11, <1>12
  <2>2. C \in Seq(S) /\ BD \in Seq(S)
    BY <1>7, <1>12
  <2> QED
    BY <1>13, <2>1, <2>2, SeqEqual
<1> QED
    BY <1>6, <1>8, <1>14 DEF B, C, D, BD, S, long, one

(* No buffers hold no bytes.                                                   *)
LEMMA NoData == Bytes(Create(<<>>)) = <<>>
<1> DEFINE l == <<>>
           b == Create(l)
           S == Buffers \X Nat
<1>1. l \in Seq(Buffers) /\ Len(l) = 0
    OBVIOUS
<1> HIDE DEF l
<1>2. Inside(b) /\ Len(b.iovec_) = 0 /\ b.iovec_off_ = 0 /\ Sums(b.iovec_)[0] = 0
    BY <1>1, CreateIs
<1> HIDE DEF b
<1>3. Bytes(b) \in Seq(S) /\ Len(Bytes(b)) = 0
    BY <1>2, BytesAre
<1> HIDE DEF S
<1>4. Bytes(b) = <<>>
    BY <1>3, EmptySeq
<1> QED
    BY <1>4 DEF b, l
--------------------------------------------------------------------------------
(* What flush_data has put aside: nothing, or one list that is not finished. *)
Pending(list) == list = <<>> \/ \E b : Held(b) /\ list = <<b>>

ControlOK == /\ is_udp \in BOOLEAN
             /\ sockfd_ \in {None} \cup 1..MaxConnections
             /\ attached \in BOOLEAN
             /\ connections \in 0..MaxConnections
             /\ sending_ \in BOOLEAN
             /\ sent \in BOOLEAN
             /\ pc \in {"idle", "flush", "send"}
             /\ turn \in Nat
             /\ exit_flag_ \in BOOLEAN
             /\ interest \in BOOLEAN
             /\ edge \in BOOLEAN
             /\ room \in 0..Room
             /\ broken \in BOOLEAN
             /\ sends \in 0..MaxSends

TasksOK == /\ task_list_ \in Seq(SendTasks)
           /\ swap_list \in Seq(SendTasks)
           /\ stream \in Seq(SendTasks)

BuffersOK == /\ send_buf_waiting_ \in Seq(Buffers)
             /\ Pending(send_buf_sending_)
             /\ Pending(send_buf_sending_tmp)
             /\ pc = "send" <=> send_buf_sending_tmp # <<>>
             /\ pc = "send" => send_buf_sending_ = <<>>
             /\ wire \in Seq(Buffers \X Nat)

QueueInv == ControlOK /\ TasksOK /\ BuffersOK

LEMMA PendingTyped ==
    ASSUME NEW list, Pending(list)
    PROVE  /\ list \in Seq(BufferLists)
           /\ Len(list) <= 1
           /\ \A i \in DOMAIN list : Held(list[i])
<1>1. CASE list = <<>>
    BY <1>1
<1>2. CASE list # <<>>
  <2>1. PICK b : Held(b) /\ list = <<b>>
    BY <1>2 DEF Pending
  <2>2. b \in BufferLists
    BY <2>1 DEF Held, Inside
  <2> HIDE DEF Held
  <2>3. Len(<<b>>) = 1 /\ DOMAIN <<b>> = {1} /\ <<b>>[1] = b
    OBVIOUS
  <2>4. <<b>> \in Seq(BufferLists)
    BY <2>2
  <2> QED
    BY <2>1, <2>3, <2>4
<1> QED
    BY <1>1, <1>2

LEMMA QueueTyped == QueueInv => TypeOK /\ BuffersKept
<1> SUFFICES ASSUME QueueInv PROVE TypeOK /\ BuffersKept
    OBVIOUS
<1>1. \A list \in Lists : /\ list \in Seq(BufferLists)
                          /\ Len(list) <= 1
                          /\ \A i \in DOMAIN list : Held(list[i])
    BY PendingTyped DEF QueueInv, BuffersOK, Lists
<1>2. sends \in {0} \cup Buffers
    BY SendAssumption DEF QueueInv, ControlOK
<1>3. TypeOK
    BY <1>1, <1>2 DEF QueueInv, ControlOK, TasksOK, BuffersOK, TypeOK
<1>4. BuffersKept
    BY <1>1 DEF BuffersKept, Held
<1> QED
    BY <1>3, <1>4

LEMMA TaskType ==
    ASSUME ControlOK, sockfd_ # None, NEW buffer \in Buffers
    PROVE  Task(buffer) \in SendTasks
    BY SendAssumption DEF ControlOK, Task, SendTasks

LEMMA QueueInit == Init => QueueInv
<1> SUFFICES ASSUME Init PROVE QueueInv
    OBVIOUS
<1>1. ControlOK
  <2>1. 0 \in 0..MaxConnections /\ 0 \in 0..Room /\ 0 \in 0..MaxSends
    BY SendAssumption
  <2>2. is_udp \in BOOLEAN
    BY DEF Init
  <2> QED
    BY <2>1, <2>2 DEF Init, ControlOK
<1>2. TasksOK /\ BuffersOK
    BY DEF Init, TasksOK, BuffersOK, Pending
<1> QED
    BY <1>1, <1>2 DEF QueueInv
--------------------------------------------------------------------------------
(* What one step of flush_data's loop does to the list that it sends.         *)
Took(n) == /\ n \in 1..Len(Bytes(pkt))
           /\ wire' = wire \o SubSeq(Bytes(pkt), 1, n)
           /\ \/ /\ n = Len(Bytes(pkt))
                 /\ send_buf_sending_tmp' = <<>>
                 /\ pc' = "flush"
              \/ \E left : /\ Held(left)
                           /\ Bytes(left) = SubSeq(Bytes(pkt), n + 1, Len(Bytes(pkt)))
                           /\ send_buf_sending_tmp' = <<left>>
                           /\ pc' = "send"

LEMMA HeadOfTmp ==
    ASSUME BuffersOK, pc = "send"
    PROVE  /\ Held(pkt)
           /\ send_buf_sending_tmp = <<pkt>>
           /\ send_buf_sending_ = <<>>
           /\ Bytes(pkt) \in Seq(Buffers \X Nat)
           /\ Len(Bytes(pkt)) \in Nat
           /\ Len(Bytes(pkt)) > 0
<1>1. PICK b : Held(b) /\ send_buf_sending_tmp = <<b>>
    BY DEF BuffersOK, Pending
<1>2. pkt = b
    BY <1>1 DEF pkt
<1>3. /\ Bytes(b) \in Seq(Buffers \X Nat)
      /\ b.remain_size_ = Len(Bytes(b))
      /\ b.remain_size_ > 0
      /\ b.remain_size_ \in Nat
  <2>1. Inside(b) /\ Consistent(b) /\ b.remain_size_ > 0
    BY <1>1 DEF Held
  <2>2. Bytes(b) \in Seq(Buffers \X Nat)
    BY <2>1, BytesAre
  <2>3. b.remain_size_ \in Nat
    BY <2>1 DEF Inside, BufferLists
  <2> QED
    BY <2>1, <2>2, <2>3 DEF Consistent
<1> QED
    BY <1>1, <1>2, <1>3 DEF BuffersOK

LEMMA SendSomeTakes ==
    ASSUME ControlOK, BuffersOK, SendSome
    PROVE  \E n : Took(n)
<1>1. pc = "send"
    BY DEF SendSome
<1>2. PICK n \in 1..OfferedSize(pkt, is_udp) :
         /\ Accepts(n)
         /\ wire' = wire \o SubSeq(Bytes(pkt), 1, n)
         /\ LET left == Sent(pkt, n)
            IN IF IsEmpty(left)
               THEN /\ send_buf_sending_tmp' = Tail(send_buf_sending_tmp)
                    /\ pc' = "flush"
               ELSE /\ send_buf_sending_tmp' = [send_buf_sending_tmp EXCEPT ![1] = left]
                    /\ UNCHANGED pc
    BY DEF SendSome
<1> DEFINE left == Sent(pkt, n)
<1>3. /\ Held(pkt)
      /\ send_buf_sending_tmp = <<pkt>>
      /\ Len(Bytes(pkt)) \in Nat
    BY <1>1, HeadOfTmp
<1>4. OfferedSize(pkt, is_udp) \in 0..Len(Bytes(pkt))
    BY <1>3, OfferedInside DEF ControlOK
<1>5. n \in 1..Len(Bytes(pkt))
    BY <1>3, <1>4
<1>6. /\ IsEmpty(left) => n = Len(Bytes(pkt))
      /\ ~IsEmpty(left) => /\ Held(left)
                           /\ Bytes(left) = SubSeq(Bytes(pkt), n + 1, Len(Bytes(pkt)))
    BY <1>3, <1>5, SentKeeps
<1>7. CASE IsEmpty(left)
  <2>1. send_buf_sending_tmp' = Tail(send_buf_sending_tmp) /\ pc' = "flush"
    BY <1>2, <1>7
  <2>2. Tail(<<pkt>>) = <<>>
    <3> DEFINE b == pkt
    <3> HIDE DEF b
    <3>1. Tail(<<b>>) = <<>>
        OBVIOUS
    <3> QED
        BY <3>1 DEF b
  <2> QED
    BY <1>2, <1>3, <1>5, <1>6, <1>7, <2>1, <2>2 DEF Took
<1>8. CASE ~IsEmpty(left)
  <2>1. send_buf_sending_tmp' = [send_buf_sending_tmp EXCEPT ![1] = left] /\ pc' = "send"
    BY <1>1, <1>2, <1>8
  <2>2. [<<pkt>> EXCEPT ![1] = left] = <<left>>
    <3> DEFINE b == pkt
    <3> HIDE DEF b, left
    <3>1. [<<b>> EXCEPT ![1] = left] = <<left>>
        OBVIOUS
    <3> QED
        BY <3>1 DEF b
  <2> HIDE DEF left
  <2> QED
    BY <1>2, <1>3, <1>5, <1>6, <1>8, <2>1, <2>2 DEF Took
<1> QED
    BY <1>7, <1>8
--------------------------------------------------------------------------------
(* The control state, one step per action.                                     *)
LEMMA ControlStep == QueueInv /\ [Next]_vars => ControlOK'
<1> SUFFICES ASSUME QueueInv, [Next]_vars PROVE ControlOK'
    OBVIOUS
<1> USE SendAssumption DEF QueueInv, ControlOK, connVars, bufVars, taskVars, epollVars,
        netVars
<1>1. CASE UNCHANGED vars
    BY <1>1 DEF vars
<1>2. ASSUME NEW a \in BOOLEAN, Register(a) PROVE ControlOK'
  <2>1. connections' \in 1..MaxConnections
    BY <1>2 DEF Register
  <2>2. room' \in 0..Room
    BY <1>2 DEF Register
  <2>3. sockfd_' \in {None} \cup 1..MaxConnections /\ connections' \in 0..MaxConnections
    BY <1>2, <2>1 DEF Register
  <2>4. attached' \in BOOLEAN /\ edge' \in BOOLEAN
    BY <1>2 DEF Register
  <2> QED
    BY <1>2, <2>2, <2>3, <2>4 DEF Register
<1>3. CASE Connected
    BY <1>3 DEF Connected
<1>4. ASSUME DropSocketFD PROVE /\ is_udp' \in BOOLEAN
                                /\ sockfd_' \in {None} \cup 1..MaxConnections
                                /\ attached' \in BOOLEAN
                                /\ connections' \in 0..MaxConnections
                                /\ interest' \in BOOLEAN
                                /\ edge' \in BOOLEAN
                                /\ room' \in 0..Room
                                /\ broken' \in BOOLEAN
  <2>1. 0 \in 0..Room
    BY SendAssumption
  <2> QED
    BY <1>4, <2>1 DEF DropSocketFD
<1>5. CASE Close
    BY <1>4, <1>5 DEF Close
<1>6. CASE Send
  <2>1. sends' \in 0..MaxSends
    BY <1>6 DEF Send
  <2> QED
    BY <1>6, <2>1 DEF Send
<1>7. CASE SwapLists
    BY <1>7 DEF SwapLists
<1>8. CASE RunSendTask
  <2>1. /\ sending_' \in BOOLEAN
        /\ interest' \in BOOLEAN
        /\ edge' \in BOOLEAN
    BY <1>8 DEF RunSendTask, StartWriteableEvent
  <2> QED
    BY <1>8, <2>1 DEF RunSendTask
<1>9. CASE Exit
    BY <1>9 DEF Exit
<1>10. CASE OnWriteable \/ OnWriteableToo
    BY <1>10 DEF OnWriteable, OnWriteableToo, WriteEvent
<1>11. CASE FlushNothing
    BY <1>11 DEF FlushNothing, StopWriteableEvent
<1>12. CASE FlushSending \/ FlushWaiting
    BY <1>12 DEF FlushSending, FlushWaiting
<1>13. CASE SendSome
  <2>1. pc' \in {"flush", "send"} /\ sent' \in BOOLEAN
    BY <1>13 DEF SendSome
  <2>2. PICK n \in 1..OfferedSize(pkt, is_udp) : Accepts(n)
    BY <1>13 DEF SendSome
  <2>3. n \in Nat
  <3>1. Held(pkt) /\ Len(Bytes(pkt)) \in Nat
        BY <1>13, HeadOfTmp DEF SendSome
  <3>2. OfferedSize(pkt, is_udp) \in 0..Len(Bytes(pkt))
        BY <3>1, OfferedInside
  <3> QED
        BY <2>2, <3>1, <3>2
  <2>4. room' \in 0..Room
    <3>1. room \in Nat /\ room > 0 /\ room <= Room /\ Room \in Nat
        BY <2>2 DEF Accepts
    <3>2. room' = room - 1 \/ (n <= room /\ room' = room - n)
        BY <2>2 DEF Accepts
    <3> QED
        BY <2>3, <3>1, <3>2
  <2> QED
    BY <1>13, <2>1, <2>4 DEF SendSome
<1>14. CASE SendAgain
    BY <1>14 DEF SendAgain, PutBack
<1>15. CASE SendFails
  <2>1. CASE sent
    BY <1>15, <2>1 DEF SendFails, PutBack
  <2>2. CASE ~sent
    BY <1>4, <1>15, <2>2 DEF SendFails
  <2> QED
    BY <2>1, <2>2
<1>16. CASE ErrorEvent
    BY <1>4, <1>16 DEF ErrorEvent
<1>17. CASE Drain
  <2>1. room' \in 0..Room
    BY <1>17 DEF Drain
  <2> QED
    BY <1>17, <2>1 DEF Drain
<1>18. CASE Break
    BY <1>18 DEF Break
<1> QED
  <2>1. CASE StartConnect \/ ListenOrAccept
    BY <1>2, <2>1 DEF StartConnect, ListenOrAccept
  <2> HIDE DEF ControlOK, QueueInv
  <2> QED
    BY <1>1, <1>3, <1>5, <1>6, <1>7, <1>8, <1>9, <1>10, <1>11, <1>12, <1>13, <1>14, <1>15,
       <1>16, <1>17, <1>18, <2>1 DEF Next, Tasks, FlushSteps

(* The queues of tasks.                                                        *)
LEMMA TasksStep == QueueInv /\ [Next]_vars => TasksOK'
<1> SUFFICES ASSUME QueueInv, [Next]_vars PROVE TasksOK'
    OBVIOUS
<1> USE DEF QueueInv
<1>1. CASE UNCHANGED <<task_list_, swap_list, stream>>
    BY <1>1 DEF TasksOK
<1>2. CASE Send
  <2>1. Task(sends') \in SendTasks
    <3>1. sends' \in Buffers /\ sockfd_ # None /\ UNCHANGED <<sockfd_, turn>>
        BY <1>2 DEF Send, connVars
    <3> QED
        BY <3>1, TaskType
  <2> DEFINE t == Task(sends')
  <2>2. t \in SendTasks
    BY <2>1
  <2>3. /\ task_list_' = <<t>> \o task_list_
        /\ UNCHANGED <<swap_list, stream>>
    BY <1>2 DEF Send
  <2> HIDE DEF t
  <2>4. <<t>> \in Seq(SendTasks)
    BY <2>2
  <2>5. <<t>> \o task_list_ \in Seq(SendTasks)
    BY <2>4, ConcatProperties DEF TasksOK
  <2> QED
    BY <2>3, <2>5 DEF TasksOK
<1>3. CASE SwapLists
    BY <1>3 DEF SwapLists, TasksOK
<1>4. CASE RunSendTask
  <2>1. /\ swap_list # <<>>
        /\ swap_list' = Tail(swap_list)
        /\ UNCHANGED task_list_
        /\ stream' \in {stream, Append(stream, Head(swap_list))}
    BY <1>4 DEF RunSendTask, taskVars
  <2>2. Head(swap_list) \in SendTasks /\ Tail(swap_list) \in Seq(SendTasks)
    BY <2>1, HeadTailProperties DEF TasksOK
  <2>3. Append(stream, Head(swap_list)) \in Seq(SendTasks)
    BY <2>2, AppendProperties DEF TasksOK
  <2> QED
    BY <2>1, <2>2, <2>3 DEF TasksOK
<1> QED
  <2> USE DEF connVars, bufVars, taskVars, epollVars, netVars
  <2>1. CASE StartConnect \/ ListenOrAccept
    BY <1>1, <2>1 DEF StartConnect, ListenOrAccept, Register
  <2>2. CASE Connected \/ Close \/ Exit
    BY <1>1, <2>2 DEF Connected, Close, Exit
  <2>3. CASE OnWriteable \/ OnWriteableToo
    BY <1>1, <2>3 DEF OnWriteable, OnWriteableToo, WriteEvent
  <2>4. CASE FlushNothing \/ FlushSending \/ FlushWaiting
    BY <1>1, <2>4 DEF FlushNothing, FlushSending, FlushWaiting
  <2>5. CASE SendSome \/ SendAgain \/ SendFails
    BY <1>1, <2>5 DEF SendSome, SendAgain, SendFails, PutBack
  <2>6. CASE ErrorEvent \/ Drain \/ Break
    BY <1>1, <2>6 DEF ErrorEvent, Drain, Break
  <2>7. CASE UNCHANGED vars
    BY <1>1, <2>7 DEF vars
  <2> HIDE DEF QueueInv
  <2> QED
    BY <1>2, <1>3, <1>4, <2>1, <2>2, <2>3, <2>4, <2>5, <2>6, <2>7 DEF Next, Tasks, FlushSteps

(* The buffers.                                                                *)
LEMMA BuffersStep == QueueInv /\ [Next]_vars => BuffersOK'
<1> SUFFICES ASSUME QueueInv, [Next]_vars PROVE BuffersOK'
    OBVIOUS
<1> USE DEF QueueInv, bufVars
<1>1. CASE UNCHANGED <<bufVars, pc, wire>>
    BY <1>1 DEF BuffersOK, Pending
<1>2. CASE RunSendTask
  <2>1. /\ swap_list # <<>>
        /\ send_buf_waiting_' \in {send_buf_waiting_,
                                   Append(send_buf_waiting_, Head(swap_list).buffer)}
        /\ UNCHANGED <<send_buf_sending_, send_buf_sending_tmp, pc, wire>>
    BY <1>2 DEF RunSendTask
  <2>2. Head(swap_list) \in SendTasks
    BY <2>1, HeadTailProperties DEF TasksOK
  <2>3. Head(swap_list).buffer \in Buffers
    BY <2>2 DEF SendTasks
  <2>4. Append(send_buf_waiting_, Head(swap_list).buffer) \in Seq(Buffers)
    BY <2>3, AppendProperties DEF BuffersOK
  <2> QED
    BY <2>1, <2>4 DEF BuffersOK, Pending
<1>3. CASE OnWriteable \/ OnWriteableToo
    BY <1>3 DEF OnWriteable, OnWriteableToo, WriteEvent, BuffersOK, Pending
<1>4. CASE FlushNothing
    BY <1>4 DEF FlushNothing, BuffersOK, Pending
<1>5. CASE FlushSending
    BY <1>5 DEF FlushSending, BuffersOK, Pending
<1>6. CASE FlushWaiting
  <2>1. Held(Create(send_buf_waiting_))
    BY <1>6, CreateHeld DEF FlushWaiting, BuffersOK
  <2>2. Pending(<<Create(send_buf_waiting_)>>)
    BY <2>1 DEF Pending
  <2> QED
    BY <1>6, <2>2 DEF FlushWaiting, BuffersOK, Pending
<1>7. CASE SendSome
  <2>1. PICK n : Took(n)
    BY <1>7, SendSomeTakes
  <2>2. UNCHANGED <<send_buf_waiting_, send_buf_sending_>>
    BY <1>7 DEF SendSome
  <2>3. /\ send_buf_sending_ = <<>>
        /\ Bytes(pkt) \in Seq(Buffers \X Nat)
        /\ Len(Bytes(pkt)) \in Nat
    BY <1>7, HeadOfTmp DEF SendSome
  <2>4. wire' \in Seq(Buffers \X Nat)
    <3> DEFINE S == Buffers \X Nat
               B == Bytes(pkt)
               g == SubSeq(B, 1, n)
    <3>1. B \in Seq(S) /\ wire \in Seq(S) /\ Len(B) \in Nat /\ n \in 1..Len(B)
        BY <2>1, <2>3 DEF Took, BuffersOK
    <3>2. wire' = wire \o g
        BY <2>1 DEF Took
    <3> HIDE DEF S, B
    <3>3. n \in Int /\ \A i \in 1..n : B[i] \in S
        BY <3>1, ElementOfSeq
    <3>4. g \in Seq(S)
        BY <3>3, SubSeqProperties
    <3> HIDE DEF g
    <3>5. wire \o g \in Seq(S)
        BY <3>1, <3>4, ConcatProperties
    <3> QED
        BY <3>2, <3>5 DEF S
  <2>5. /\ Pending(send_buf_sending_tmp')
        /\ pc' = "send" <=> send_buf_sending_tmp' # <<>>
    <3>1. CASE send_buf_sending_tmp' = <<>> /\ pc' = "flush"
        BY <3>1 DEF Pending
    <3>2. CASE ~(send_buf_sending_tmp' = <<>> /\ pc' = "flush")
      <4>1. PICK left : Held(left) /\ send_buf_sending_tmp' = <<left>> /\ pc' = "send"
        BY <2>1, <3>2 DEF Took
      <4>2. Pending(<<left>>)
        BY <4>1 DEF Pending
      <4> QED
        BY <4>1, <4>2 DEF Pending
    <3> QED
        BY <3>1, <3>2
  <2> QED
    BY <2>2, <2>3, <2>4, <2>5 DEF BuffersOK, Pending
<1>8. ASSUME PutBack, pc = "send"
      PROVE  /\ BuffersOK'
             /\ send_buf_sending_' = send_buf_sending_tmp
  <2>1. send_buf_sending_ = <<>> /\ send_buf_sending_tmp = <<pkt>>
    BY <1>8, HeadOfTmp
  <2>2. send_buf_sending_tmp \o <<>> = send_buf_sending_tmp
    BY ConcatEmptySeq, PendingTyped DEF BuffersOK
  <2>3. send_buf_sending_' = send_buf_sending_tmp
    BY <1>8, <2>1, <2>2 DEF PutBack
  <2> QED
    BY <1>8, <2>3 DEF PutBack, BuffersOK, Pending
<1>9. CASE SendAgain
    BY <1>8, <1>9 DEF SendAgain
<1>10. CASE SendFails
  <2>1. CASE sent
    BY <1>8, <1>10, <2>1 DEF SendFails
  <2>2. CASE ~sent
    BY <1>10, <2>2 DEF SendFails, BuffersOK, Pending
  <2> QED
    BY <2>1, <2>2
<1> QED
  <2>1. CASE StartConnect \/ ListenOrAccept
    BY <1>1, <2>1 DEF StartConnect, ListenOrAccept, Register
  <2>2. CASE Connected \/ Close \/ Exit \/ Send \/ SwapLists
    BY <1>1, <2>2 DEF Connected, Close, Exit, Send, SwapLists
  <2>3. CASE ErrorEvent \/ Drain \/ Break
    BY <1>1, <2>3 DEF ErrorEvent, Drain, Break
  <2>4. CASE UNCHANGED vars
    BY <1>1, <2>4 DEF vars
  <2> HIDE DEF QueueInv
  <2> QED
    BY <1>2, <1>3, <1>4, <1>5, <1>6, <1>7, <1>9, <1>10, <2>1, <2>2, <2>3, <2>4
       DEF Next, Tasks, FlushSteps

LEMMA QueueCorrect == Spec => []QueueInv
<1>1. QueueInv /\ [Next]_vars => QueueInv'
    BY ControlStep, TasksStep, BuffersStep DEF QueueInv
<1> QED
    BY <1>1, QueueInit, PTL DEF Spec

(* The state of a Socket's sending is always well formed: at most one list is *)
(* put aside, and flush_data has taken one while it sends.                     *)
THEOREM SendTyped == Spec => []TypeOK
    BY QueueCorrect, QueueTyped, PTL

(* After a partial send, an error or a new connection, every list that waits  *)
(* knows what is left of it and keeps the memory it points into.              *)
THEOREM ListsKept == Spec => []BuffersKept
    BY QueueCorrect, QueueTyped, PTL
--------------------------------------------------------------------------------
(* sending_ says that a writable event is registered that will come, and so   *)
(* it does on every connection, whatever the one before it left.  While       *)
(* flush_data runs the event stays registered; when it gives up without a     *)
(* word, after a part was sent, the failure of the connection is reported.    *)
WakeInv == /\ pc = "idle" /\ Up /\ ~exit_flag_ /\ (sending_ \/ ~NothingToSend)
                 => interest /\ (edge \/ (room = 0 /\ ~broken))
           /\ pc # "idle" => Up /\ interest
           /\ pc = "send" /\ sent /\ broken => edge

LEMMA WakeStep == QueueInv /\ WakeInv /\ [Next]_vars => WakeInv'
<1> SUFFICES ASSUME QueueInv, WakeInv, [Next]_vars PROVE WakeInv'
    OBVIOUS
<1> USE DEF WakeInv, Up, NothingToSend, connVars, bufVars, taskVars, epollVars, netVars
<1>1. CASE UNCHANGED vars
    BY <1>1 DEF vars
<1>2. CASE StartConnect \/ ListenOrAccept
    BY <1>2 DEF StartConnect, ListenOrAccept, Register
<1>3. CASE Connected
    BY <1>3 DEF Connected
<1>4. CASE Close \/ ErrorEvent
    BY <1>4 DEF Close, ErrorEvent, DropSocketFD
<1>5. CASE Send \/ SwapLists \/ Exit
    BY <1>5 DEF Send, SwapLists, Exit
<1>6. CASE RunSendTask
  <2>1. room \in Nat
    BY SendAssumption DEF QueueInv, ControlOK
  <2>2. pc = "idle" /\ pc' = "idle" /\ UNCHANGED <<connVars, netVars, exit_flag_, sent>>
    BY <1>6 DEF RunSendTask
  <2>3. CASE Head(swap_list).sockfd = sockfd_ /\ ~sending_
    <3>1. StartWriteableEvent
        BY <1>6, <2>3 DEF RunSendTask
    <3>2. interest' /\ (attached => edge' \/ (room = 0 /\ ~broken))
      <4>1. CASE room > 0 \/ broken
        BY <3>1, <4>1 DEF StartWriteableEvent
      <4>2. CASE ~(room > 0 \/ broken)
        BY <2>1, <3>1, <4>2 DEF StartWriteableEvent
      <4> QED
        BY <4>1, <4>2
    <3> QED
        BY <2>2, <3>2
  <2>4. CASE Head(swap_list).sockfd = sockfd_ /\ sending_
    BY <1>6, <2>2, <2>4 DEF RunSendTask
  <2>5. CASE Head(swap_list).sockfd # sockfd_
    BY <1>6, <2>2, <2>5 DEF RunSendTask
  <2> QED
    BY <2>3, <2>4, <2>5
<1>7. CASE OnWriteable \/ OnWriteableToo
    BY <1>7 DEF OnWriteable, OnWriteableToo, WriteEvent
<1>8. CASE FlushNothing
    BY <1>8 DEF FlushNothing, StopWriteableEvent
<1>9. CASE FlushSending \/ FlushWaiting
    BY <1>9 DEF FlushSending, FlushWaiting
<1>10. CASE SendSome
  <2>1. ~broken /\ ~broken'
    BY <1>10 DEF SendSome, Accepts
  <2>2. pc = "send" /\ pc' \in {"send", "flush"}
    BY <1>10 DEF SendSome
  <2> QED
    BY <1>10, <2>1, <2>2 DEF SendSome
<1>11. CASE SendAgain
    BY <1>11 DEF SendAgain, PutBack
<1>12. CASE SendFails
    BY <1>12 DEF SendFails, PutBack, DropSocketFD
<1>13. CASE Drain \/ Break
  <2>1. /\ edge' = (edge \/ interest)
        /\ UNCHANGED <<sockfd_, attached, exit_flag_, sending_, pc, sent, interest,
                       send_buf_sending_, send_buf_waiting_>>
    BY <1>13 DEF Drain, Break
  <2>2. interest => edge'
    BY <2>1
  <2>3. pc = "idle" /\ Up /\ ~exit_flag_ /\ (sending_ \/ ~NothingToSend) => interest
    OBVIOUS
  <2> QED
    BY <1>13, <2>1, <2>2, <2>3 DEF Drain, Break
<1> QED
    BY <1>1, <1>2, <1>3, <1>4, <1>5, <1>6, <1>7, <1>8, <1>9, <1>10, <1>11, <1>12, <1>13
       DEF Next, Tasks, FlushSteps

(* A connected Socket that has data to send, and is not sending it, will be   *)
(* told that it can: no backlog waits for an event that is not registered or  *)
(* has been used up, over any number of connections.                          *)
THEOREM WakeupKept == Spec => []NoLostWakeup
<1>1. Init => WakeInv
    BY DEF Init, WakeInv, Up
<1>2. WakeInv => NoLostWakeup
    BY DEF WakeInv, NoLostWakeup
<1> QED
    BY <1>1, <1>2, WakeStep, QueueCorrect, PTL DEF Spec
--------------------------------------------------------------------------------
(* The order of tasks: that of the turns, newest call first.                   *)
Before(s, t) == \/ s.turn < t.turn
                \/ s.turn = t.turn /\ s.buffer > t.buffer

Ordered(list) == \A i, j \in DOMAIN list : i < j => Before(list[i], list[j])

(* What was executed, what is being executed and what waits are in order, one *)
(* after the other: the tasks that wait are of this turn.                      *)
OrderInv ==
    /\ Ordered(stream)
    /\ Ordered(swap_list)
    /\ Ordered(task_list_)
    /\ \A i \in DOMAIN stream, j \in DOMAIN swap_list : Before(stream[i], swap_list[j])
    /\ \A i \in DOMAIN stream : stream[i].turn < turn
    /\ \A i \in DOMAIN swap_list : swap_list[i].turn < turn
    /\ \A i \in DOMAIN task_list_ : /\ task_list_[i].turn = turn
                                    /\ task_list_[i].buffer <= sends

LEMMA OrderStep == QueueInv /\ OrderInv /\ [Next]_vars => OrderInv'
<1> SUFFICES ASSUME QueueInv, OrderInv, [Next]_vars PROVE OrderInv'
    OBVIOUS
<1> DEFINE orderVars == <<stream, swap_list, task_list_, turn, sends>>
<1>1. CASE UNCHANGED orderVars
    BY <1>1 DEF OrderInv, Ordered, Before
<1>2. turn \in Nat /\ sends \in Nat
    BY SendAssumption DEF QueueInv, ControlOK
<1>3. CASE Send
  <2> DEFINE t == Task(sends')
             new == <<t>> \o task_list_
  <2>1. /\ task_list_' = new
        /\ sends' = sends + 1
        /\ UNCHANGED <<stream, swap_list, turn>>
    BY <1>3 DEF Send
  <2>2. t.turn = turn /\ t.buffer = sends + 1
    BY <2>1, <1>3 DEF Task, Send, connVars
  <2>3. t \in SendTasks
    <3>1. sends' \in Buffers /\ sockfd_ # None /\ UNCHANGED <<sockfd_, turn>>
        BY <1>3 DEF Send, connVars
    <3> QED
        BY <3>1, TaskType DEF QueueInv
  <2> HIDE DEF t
  <2> DEFINE n == Len(task_list_)
             one == <<t>>
  <2>4. one \in Seq(SendTasks) /\ Len(one) = 1 /\ one[1] = t
    BY <2>3
  <2> HIDE DEF one
  <2>5. task_list_ \in Seq(SendTasks) /\ n \in Nat /\ DOMAIN task_list_ = 1..n
    BY LenProperties DEF QueueInv, TasksOK
  <2>6. /\ one \o task_list_ \in Seq(SendTasks)
        /\ Len(one \o task_list_) = 1 + n
        /\ \A i \in 1..1 + n : (one \o task_list_)[i] =
                IF i <= 1 THEN one[i] ELSE task_list_[i - 1]
    <3>1. /\ one \o task_list_ \in Seq(SendTasks)
          /\ Len(one \o task_list_) = Len(one) + Len(task_list_)
          /\ \A i \in 1..Len(one) + Len(task_list_) : (one \o task_list_)[i] =
                IF i <= Len(one) THEN one[i] ELSE task_list_[i - Len(one)]
        BY <2>4, <2>5, ConcatProperties
    <3>2. Len(one) = 1 /\ Len(task_list_) = n
        BY <2>4
    <3> HIDE DEF n
    <3> QED
        BY <3>1, <3>2
  <2>7. new = one \o task_list_
    BY DEF one
  <2>8. DOMAIN new = 1..n + 1 /\ new[1] = t /\ \A i \in 2..n + 1 : new[i] = task_list_[i - 1]
    <3>1. DOMAIN new = 1..1 + n
        BY <2>6, <2>7, LenProperties
    <3> HIDE DEF new
    <3> QED
        BY <2>4, <2>5, <2>6, <2>7, <3>1
  <2> HIDE DEF new, n
  <2>9. \A i \in 1..n : task_list_[i].turn = turn /\ task_list_[i].buffer <= sends
    BY <2>5 DEF OrderInv
  <2>10. \A i \in 1..n : task_list_[i].buffer \in Nat
    <3>1. \A i \in 1..n : task_list_[i] \in SendTasks
        BY <2>5, ElementOfSeq DEF n
    <3>2. \A i \in 1..n : task_list_[i].buffer \in Buffers
        BY <3>1 DEF SendTasks
    <3> QED
        BY <3>2, SendAssumption
  <2>11. \A i \in DOMAIN new : new[i].turn = turn /\ new[i].buffer <= sends + 1
    <3> SUFFICES ASSUME NEW i \in 1..n + 1
                 PROVE  new[i].turn = turn /\ new[i].buffer <= sends + 1
        BY <2>8
    <3>1. CASE i = 1
        BY <1>2, <2>2, <2>8, <3>1
    <3>2. CASE i # 1
      <4>1. i \in 2..n + 1 /\ i - 1 \in 1..n
        BY <2>5, <3>2
      <4> QED
        BY <1>2, <2>8, <2>9, <2>10, <4>1
    <3> QED
        BY <3>1, <3>2
  <2>12. Ordered(new)
    <3> SUFFICES ASSUME NEW i \in 1..n + 1, NEW j \in 1..n + 1, i < j
                 PROVE  Before(new[i], new[j])
        BY <2>8 DEF Ordered
    <3>1. j \in 2..n + 1 /\ j - 1 \in 1..n /\ new[j] = task_list_[j - 1]
        BY <2>5, <2>8
    <3>2. CASE i = 1
      <4>1. new[i].turn = new[j].turn /\ new[i].buffer = sends + 1 /\ new[j].buffer <= sends
        BY <2>2, <2>8, <2>9, <3>1, <3>2
      <4>2. new[j].buffer \in Nat
        BY <2>10, <3>1
      <4> QED
        BY <1>2, <4>1, <4>2 DEF Before
    <3>3. CASE i # 1
      <4>1. i - 1 \in 1..n /\ i - 1 < j - 1 /\ new[i] = task_list_[i - 1]
        BY <2>5, <2>8, <3>3
      <4>2. Before(task_list_[i - 1], task_list_[j - 1])
        BY <2>5, <3>1, <4>1 DEF OrderInv, Ordered
      <4> QED
        BY <3>1, <4>1, <4>2
    <3> QED
        BY <3>2, <3>3
  <2> QED
    BY <2>1, <2>11, <2>12 DEF OrderInv, Ordered, Before
<1>4. CASE SwapLists
  <2>1. /\ swap_list' = task_list_
        /\ task_list_' = <<>>
        /\ turn' = turn + 1
        /\ UNCHANGED <<stream, sends>>
    BY <1>4 DEF SwapLists
  <2>2. /\ Ordered(stream)
        /\ Ordered(task_list_)
        /\ \A i \in DOMAIN stream : stream[i].turn < turn
        /\ \A i \in DOMAIN task_list_ : task_list_[i].turn = turn
    BY DEF OrderInv
  <2>3. Ordered(<<>>) /\ DOMAIN <<>> = {}
    BY DEF Ordered
  <2>4. \A i \in DOMAIN stream, j \in DOMAIN task_list_ : Before(stream[i], task_list_[j])
    BY <2>2 DEF Before
  <2>5. \A i \in DOMAIN stream : stream[i].turn < turn + 1
    <3>1. \A i \in DOMAIN stream : stream[i].turn \in Nat
      <4>1. \A i \in DOMAIN stream : stream[i] \in SendTasks
        BY ElementOfSeq, LenProperties DEF QueueInv, TasksOK
      <4> QED
        BY <4>1 DEF SendTasks
    <3> QED
        BY <1>2, <2>2, <3>1
  <2>6. \A i \in DOMAIN task_list_ : task_list_[i].turn < turn + 1
    BY <1>2, <2>2
  <2>a. Ordered(stream)' /\ Ordered(swap_list)' /\ Ordered(task_list_)'
    BY <2>1, <2>2, <2>3 DEF Ordered, Before
  <2>b. \A i \in DOMAIN stream', j \in DOMAIN swap_list' : Before(stream'[i], swap_list'[j])
    BY <2>1, <2>4
  <2>c. /\ \A i \in DOMAIN stream' : stream'[i].turn < turn'
        /\ \A i \in DOMAIN swap_list' : swap_list'[i].turn < turn'
        /\ \A i \in DOMAIN task_list_' : /\ task_list_'[i].turn = turn'
                                         /\ task_list_'[i].buffer <= sends'
    BY <2>1, <2>3, <2>5, <2>6
  <2> QED
    BY <2>a, <2>b, <2>c DEF OrderInv, Before
<1>5. CASE RunSendTask
  <2> DEFINE t == Head(swap_list)
             rest == Tail(swap_list)
             n == Len(swap_list)
             m == Len(stream)
             more == Append(stream, t)
  <2>1. /\ swap_list # <<>>
        /\ swap_list' = rest
        /\ UNCHANGED <<task_list_, turn, sends>>
        /\ stream' \in {stream, more}
    BY <1>5 DEF RunSendTask, taskVars
  <2>2. /\ swap_list \in Seq(SendTasks)
        /\ stream \in Seq(SendTasks)
    BY DEF QueueInv, TasksOK
  <2>3. /\ n \in Nat
        /\ n > 0
        /\ DOMAIN swap_list = 1..n
        /\ m \in Nat
        /\ DOMAIN stream = 1..m
    BY <2>1, <2>2, LenProperties, EmptySeq
  <2>4. /\ t \in SendTasks
        /\ rest \in Seq(SendTasks)
        /\ Len(rest) = n - 1
        /\ \A i \in 1..Len(rest) : rest[i] = swap_list[i + 1]
    BY <2>1, <2>2, HeadTailProperties
  <2>5. t = swap_list[1]
    OBVIOUS
  <2>6. DOMAIN rest = 1..n - 1 /\ \A i \in 1..n - 1 : rest[i] = swap_list[i + 1]
    <3>1. DOMAIN rest = 1..Len(rest)
        BY <2>4, LenProperties
    <3> HIDE DEF rest
    <3> QED
        BY <2>4, <3>1
  <2>7. /\ DOMAIN more = 1..m + 1
        /\ \A i \in 1..m : more[i] = stream[i]
        /\ more[m + 1] = t
    <3>1. /\ more \in Seq(SendTasks)
          /\ Len(more) = m + 1
          /\ \A i \in 1..m : more[i] = stream[i]
          /\ more[m + 1] = t
      <4> HIDE DEF t
      <4> QED
        BY <2>2, <2>4, AppendProperties
    <3> HIDE DEF more
    <3> QED
        BY <3>1, LenProperties
  <2> HIDE DEF t, rest, n, m, more
  <2>8. /\ \A i, j \in 1..m : i < j => Before(stream[i], stream[j])
        /\ \A i, j \in 1..n : i < j => Before(swap_list[i], swap_list[j])
        /\ \A i \in 1..m, j \in 1..n : Before(stream[i], swap_list[j])
        /\ \A i \in 1..m : stream[i].turn < turn
        /\ \A i \in 1..n : swap_list[i].turn < turn
    BY <2>3 DEF OrderInv, Ordered
  <2>9. Ordered(rest)
    <3> SUFFICES ASSUME NEW i \in 1..n - 1, NEW j \in 1..n - 1, i < j
                 PROVE  Before(rest[i], rest[j])
        BY <2>6 DEF Ordered
    <3>1. i + 1 \in 1..n /\ j + 1 \in 1..n /\ i + 1 < j + 1
        BY <2>3
    <3> QED
        BY <2>6, <2>8, <3>1
  <2>10. \A i \in 1..n - 1 : /\ rest[i].turn < turn
                             /\ Before(t, rest[i])
                             /\ \A k \in 1..m : Before(stream[k], rest[i])
    <3> SUFFICES ASSUME NEW i \in 1..n - 1
                 PROVE  /\ rest[i].turn < turn
                        /\ Before(t, rest[i])
                        /\ \A k \in 1..m : Before(stream[k], rest[i])
        OBVIOUS
    <3>1. i + 1 \in 1..n /\ 1 \in 1..n /\ 1 < i + 1 /\ rest[i] = swap_list[i + 1]
        BY <2>3, <2>6
    <3> QED
        BY <2>5, <2>8, <3>1
  <2>11. CASE stream' = stream
    <3>1. /\ Ordered(stream)' /\ Ordered(swap_list)' /\ Ordered(task_list_)'
        BY <2>1, <2>9, <2>11 DEF OrderInv, Ordered, Before
    <3>2. \A i \in DOMAIN stream', j \in DOMAIN swap_list' : Before(stream'[i], swap_list'[j])
        BY <2>1, <2>3, <2>6, <2>10, <2>11
    <3>3. /\ \A i \in DOMAIN stream' : stream'[i].turn < turn'
          /\ \A i \in DOMAIN swap_list' : swap_list'[i].turn < turn'
          /\ \A i \in DOMAIN task_list_' : /\ task_list_'[i].turn = turn'
                                           /\ task_list_'[i].buffer <= sends'
        BY <2>1, <2>6, <2>10, <2>11 DEF OrderInv
    <3> QED
        BY <3>1, <3>2, <3>3 DEF OrderInv, Before
  <2>12. CASE stream' = more
    <3>1. Ordered(more)
      <4> SUFFICES ASSUME NEW i \in 1..m + 1, NEW j \in 1..m + 1, i < j
                   PROVE  Before(more[i], more[j])
        BY <2>7 DEF Ordered
      <4>1. i \in 1..m /\ more[i] = stream[i]
        BY <2>3, <2>7
      <4>2. CASE j = m + 1
        BY <2>3, <2>5, <2>7, <2>8, <4>1, <4>2
      <4>3. CASE j # m + 1
        <5>1. j \in 1..m /\ more[j] = stream[j]
            BY <2>3, <2>7, <4>3
        <5> QED
            BY <2>8, <4>1, <5>1
      <4> QED
        BY <4>2, <4>3
    <3>2. \A i \in 1..m + 1 : more[i].turn < turn
      <4> SUFFICES ASSUME NEW i \in 1..m + 1 PROVE more[i].turn < turn
        OBVIOUS
      <4>1. CASE i = m + 1
        BY <2>3, <2>5, <2>7, <2>8, <4>1
      <4>2. CASE i # m + 1
        <5>1. i \in 1..m
            BY <2>3, <4>2
        <5> QED
            BY <2>7, <2>8, <5>1
      <4> QED
        BY <4>1, <4>2
    <3>3. \A i \in 1..m + 1, j \in 1..n - 1 : Before(more[i], rest[j])
      <4> SUFFICES ASSUME NEW i \in 1..m + 1, NEW j \in 1..n - 1
                   PROVE  Before(more[i], rest[j])
        OBVIOUS
      <4>1. CASE i = m + 1
        BY <2>7, <2>10, <4>1
      <4>2. CASE i # m + 1
        <5>1. i \in 1..m
            BY <2>3, <4>2
        <5> QED
            BY <2>7, <2>10, <5>1
      <4> QED
        BY <4>1, <4>2
    <3>4. /\ Ordered(stream)' /\ Ordered(swap_list)' /\ Ordered(task_list_)'
        BY <2>1, <2>9, <2>12, <3>1 DEF OrderInv, Ordered, Before
    <3>5. \A i \in DOMAIN stream', j \in DOMAIN swap_list' : Before(stream'[i], swap_list'[j])
        BY <2>1, <2>6, <2>7, <2>12, <3>3
    <3>6. /\ \A i \in DOMAIN stream' : stream'[i].turn < turn'
          /\ \A i \in DOMAIN swap_list' : swap_list'[i].turn < turn'
          /\ \A i \in DOMAIN task_list_' : /\ task_list_'[i].turn = turn'
                                           /\ task_list_'[i].buffer <= sends'
        BY <2>1, <2>6, <2>7, <2>10, <2>12, <3>2 DEF OrderInv
    <3> QED
        BY <3>4, <3>5, <3>6 DEF OrderInv, Before
  <2> QED
    BY <2>1, <2>11, <2>12
<1> QED
  <2> USE DEF connVars, bufVars, taskVars, epollVars, netVars
  <2>1. CASE StartConnect \/ ListenOrAccept
    BY <1>1, <2>1 DEF StartConnect, ListenOrAccept, Register
  <2>2. CASE Connected \/ Close \/ Exit
    BY <1>1, <2>2 DEF Connected, Close, Exit
  <2>3. CASE OnWriteable \/ OnWriteableToo
    BY <1>1, <2>3 DEF OnWriteable, OnWriteableToo, WriteEvent
  <2>4. CASE FlushNothing \/ FlushSending \/ FlushWaiting
    BY <1>1, <2>4 DEF FlushNothing, FlushSending, FlushWaiting
  <2>5. CASE SendSome \/ SendAgain \/ SendFails
    BY <1>1, <2>5 DEF SendSome, SendAgain, SendFails, PutBack
  <2>6. CASE ErrorEvent \/ Drain \/ Break
    BY <1>1, <2>6 DEF ErrorEvent, Drain, Break
  <2>7. CASE UNCHANGED vars
    BY <1>1, <2>7 DEF vars
  <2> QED
    BY <1>3, <1>4, <1>5, <2>1, <2>2, <2>3, <2>4, <2>5, <2>6, <2>7 DEF Next, Tasks, FlushSteps

(* Data is taken over in the order of the turns of the loop in which Send was *)
(* called and, within one, opposite to the calls, however calls and turns     *)
(* interleave and whatever connections come and go.                            *)
THEOREM OrderKept == Spec => []StreamOrder
<1>1. Init => OrderInv
    BY DEF Init, OrderInv, Ordered
<1>2. OrderInv => StreamOrder
    BY DEF OrderInv, Ordered, Before, StreamOrder
<1> QED
    BY <1>1, <1>2, OrderStep, QueueCorrect, PTL DEF Spec
--------------------------------------------------------------------------------
(* SocketSend implements SendStream.  The queue of the stream is what          *)
(* flush_data holds, what it put aside and what waits, in this order.          *)

BytesSeq == Seq(Buffers \X Nat)

LEMMA BytesInIs ==
    ASSUME NEW list, Pending(list)
    PROVE  BytesIn(list) \in BytesSeq
<1>1. CASE list = <<>>
    BY <1>1 DEF BytesIn, BytesSeq
<1>2. CASE list # <<>>
  <2>1. PICK b : Held(b) /\ list = <<b>>
    BY <1>2 DEF Pending
  <2>2. BytesIn(list) = Bytes(b)
    BY <2>1, <1>2 DEF BytesIn
  <2>3. Bytes(b) \in Seq(Buffers \X Nat)
    BY <2>1, BytesAre DEF Held
  <2> QED
    BY <2>2, <2>3 DEF BytesSeq
<1> QED
    BY <1>1, <1>2

LEMMA BytesInOne ==
    ASSUME NEW b
    PROVE  BytesIn(<<b>>) = Bytes(b)
    BY DEF BytesIn

LEMMA DataIs ==
    ASSUME NEW list \in Seq(Buffers)
    PROVE  Data(list) \in BytesSeq
<1>1. CASE list = <<>>
  <2>1. Data(list) = <<>>
    BY <1>1, NoData DEF Data
  <2>2. <<>> \in BytesSeq
    BY DEF BytesSeq
  <2> QED
    BY <2>1, <2>2
<1>2. CASE list # <<>>
  <2>1. Held(Create(list))
    BY <1>2, CreateHeld
  <2> QED
    BY <2>1, BytesAre DEF Held, Data, BytesSeq
<1> QED
    BY <1>1, <1>2

LEMMA Joined ==
    ASSUME NEW a \in BytesSeq, NEW b \in BytesSeq
    PROVE  /\ a \o b \in BytesSeq
           /\ a \o <<>> = a
           /\ <<>> \o a = a
    BY ConcatProperties, ConcatEmptySeq DEF BytesSeq

LEMMA Regrouped ==
    ASSUME NEW a \in BytesSeq, NEW b \in BytesSeq, NEW c \in BytesSeq
    PROVE  /\ b \o c \in BytesSeq
           /\ (a \o b) \o c = a \o (b \o c)
<1> DEFINE S == Buffers \X Nat
<1>1. a \in Seq(S) /\ b \in Seq(S) /\ c \in Seq(S)
    BY DEF BytesSeq
<1> HIDE DEF S
<1>2. b \o c \in Seq(S)
    BY <1>1, ConcatProperties
<1>3. (a \o b) \o c = a \o (b \o c)
    BY <1>1, ConcatAssociative
<1> QED
    BY <1>2, <1>3 DEF BytesSeq, S

(* The first bytes of a queue are those of what it begins with.                *)
LEMMA FirstBytes ==
    ASSUME NEW a \in BytesSeq, NEW b \in BytesSeq, NEW n \in 1..Len(a)
    PROVE  /\ Len(a) \in Nat
           /\ n \in 1..Len(a \o b)
           /\ SubSeq(a \o b, 1, n) = SubSeq(a, 1, n)
           /\ SubSeq(a \o b, n + 1, Len(a \o b)) = SubSeq(a, n + 1, Len(a)) \o b
<1> DEFINE S == Buffers \X Nat
           ab == a \o b
           l == Len(a)
           m == Len(b)
           left == SubSeq(a, n + 1, l)
           g == SubSeq(ab, n + 1, Len(ab))
           h == left \o b
<1>1. a \in Seq(S) /\ b \in Seq(S) /\ n \in 1..l
    BY DEF BytesSeq
<1> HIDE DEF S
<1>2. l \in Nat /\ m \in Nat
    BY <1>1, LenProperties
<1>3. /\ ab \in Seq(S)
      /\ Len(ab) = l + m
      /\ \A i \in 1..l + m : ab[i] = IF i <= l THEN a[i] ELSE b[i - l]
    BY <1>1, ConcatProperties
<1> HIDE DEF ab, l, m
<1>4. n \in Nat /\ n >= 1 /\ n <= l
    BY <1>1, <1>2
<1>5. \A i \in 1..l : a[i] \in S
    BY <1>1, ElementOfSeq DEF l
<1>6. \A i \in 1..l + m : ab[i] \in S
    BY <1>2, <1>3, ElementOfSeq
<1>7. SubSeq(ab, 1, n) = SubSeq(a, 1, n)
    BY <1>1, <1>4, <1>2, SubSeqOfConcat1 DEF ab, l
<1>8. /\ left \in Seq(S)
      /\ Len(left) = l - n
      /\ \A i \in 1..l - n : left[i] = a[n + i]
  <2>1. \A i \in n + 1 .. l : a[i] \in S
    BY <1>2, <1>4, <1>5
  <2>2. n + 1 \in Int /\ l \in Int
    BY <1>2, <1>4
  <2>3. /\ left \in Seq(S)
        /\ Len(left) = IF n + 1 <= l THEN (l - (n + 1)) + 1 ELSE 0
        /\ \A i \in 1 .. (l - (n + 1)) + 1 : left[i] = a[((n + 1) + i) - 1]
    BY <2>1, <2>2, SubSeqProperties
  <2> HIDE DEF left
  <2>4. (l - (n + 1)) + 1 = l - n
    BY <1>2, <1>4
  <2>5. \A i \in 1..l - n : ((n + 1) + i) - 1 = n + i
    BY <1>2, <1>4
  <2> QED
    BY <1>2, <1>4, <2>3, <2>4, <2>5
<1>9. /\ g \in Seq(S)
      /\ Len(g) = (l + m) - n
      /\ \A i \in 1..(l + m) - n : g[i] = ab[n + i]
  <2> DEFINE k == l + m
  <2>1. k \in Nat /\ n <= k /\ Len(ab) = k
    BY <1>2, <1>3, <1>4
  <2>2. \A i \in 1..k : ab[i] \in S
    BY <1>6
  <2> HIDE DEF k
  <2>3. \A i \in n + 1 .. k : ab[i] \in S
    BY <1>4, <2>1, <2>2
  <2>4. g = SubSeq(ab, n + 1, k) /\ n + 1 \in Int /\ k \in Int
    BY <1>4, <2>1
  <2>5. /\ g \in Seq(S)
        /\ Len(g) = IF n + 1 <= k THEN (k - (n + 1)) + 1 ELSE 0
        /\ \A i \in 1 .. (k - (n + 1)) + 1 : g[i] = ab[((n + 1) + i) - 1]
    BY <2>3, <2>4, SubSeqProperties
  <2> HIDE DEF g
  <2>6. (k - (n + 1)) + 1 = k - n
    BY <1>4, <2>1
  <2>7. \A i \in 1..k - n : ((n + 1) + i) - 1 = n + i
    BY <1>4, <2>1
  <2>8. /\ g \in Seq(S)
        /\ Len(g) = k - n
        /\ \A i \in 1..k - n : g[i] = ab[n + i]
    BY <1>4, <2>1, <2>5, <2>6, <2>7
  <2> QED
    BY <2>8 DEF k
<1> HIDE DEF left, g
<1>10. /\ h \in Seq(S)
       /\ Len(h) = Len(left) + m
       /\ \A i \in 1..Len(left) + m : h[i] = IF i <= Len(left) THEN left[i] ELSE b[i - Len(left)]
  <2>1. left \in Seq(S) /\ b \in Seq(S)
    BY <1>1, <1>8
  <2> QED
    BY <2>1, ConcatProperties DEF m
<1> HIDE DEF h
<1>11. Len(g) = Len(h)
    BY <1>2, <1>4, <1>8, <1>9, <1>10
<1>12. ASSUME NEW i \in 1..Len(g) PROVE g[i] = h[i]
  <2>1. i \in Nat /\ i >= 1 /\ i <= (l + m) - n
    BY <1>2, <1>4, <1>9
  <2>2. g[i] = ab[n + i] /\ n + i \in 1..l + m
    BY <1>2, <1>4, <1>9, <2>1
  <2>3. h[i] = IF i <= l - n THEN left[i] ELSE b[i - (l - n)]
    BY <1>2, <1>4, <1>8, <1>10, <2>1
  <2>4. CASE i <= l - n
    <3>1. ab[n + i] = a[n + i]
        BY <1>2, <1>3, <1>4, <2>1, <2>2, <2>4
    <3>2. left[i] = a[n + i]
        BY <1>2, <1>4, <1>8, <2>1, <2>4
    <3> QED
        BY <2>2, <2>3, <2>4, <3>1, <3>2
  <2>5. CASE ~(i <= l - n)
    <3>1. ab[n + i] = b[(n + i) - l]
        BY <1>2, <1>3, <1>4, <2>1, <2>2, <2>5
    <3>2. (n + i) - l = i - (l - n)
        BY <1>2, <1>4, <2>1
    <3> QED
        BY <2>2, <2>3, <2>5, <3>1, <3>2
  <2> QED
    BY <2>4, <2>5
<1>13. g = h
    BY <1>9, <1>10, <1>11, <1>12, SeqEqual
<1>14. n \in 1..Len(ab)
    BY <1>2, <1>3, <1>4
<1> QED
    BY <1>2, <1>7, <1>13, <1>14 DEF g, h, left, ab, l

LEMMA QueueIs ==
    ASSUME BuffersOK
    PROVE  /\ BytesIn(send_buf_sending_tmp) \in BytesSeq
           /\ BytesIn(send_buf_sending_) \in BytesSeq
           /\ Data(send_buf_waiting_) \in BytesSeq
           /\ BytesIn(<<>>) = <<>>
           /\ Data(<<>>) = <<>>
           /\ <<>> \in BytesSeq
<1>1. BytesIn(send_buf_sending_tmp) \in BytesSeq /\ BytesIn(send_buf_sending_) \in BytesSeq
    BY BytesInIs DEF BuffersOK
<1>2. Data(send_buf_waiting_) \in BytesSeq
    BY DataIs DEF BuffersOK
<1>3. BytesIn(<<>>) = <<>>
    BY DEF BytesIn
<1>4. Data(<<>>) = <<>>
    BY NoData DEF Data
<1>5. <<>> \in BytesSeq
    BY DEF BytesSeq
<1> QED
    BY <1>1, <1>2, <1>3, <1>4, <1>5

LEMMA StreamInit == Init => Stream!Init
<1> SUFFICES ASSUME Init PROVE Stream!Init
    OBVIOUS
<1>1. BuffersOK
    BY QueueInit DEF QueueInv
<1>2. Queue = (<<>> \o <<>>) \o <<>>
    BY <1>1, QueueIs DEF Init, Queue
<1>3. Queue = <<>>
    BY <1>1, <1>2, QueueIs, Joined
<1> QED
    BY <1>3 DEF Init, Stream!Init

LEMMA StreamStep ==
    QueueInv /\ QueueInv' /\ [Next]_vars => [Stream!Next]_(Stream!vars)
<1> SUFFICES ASSUME QueueInv, QueueInv', [Next]_vars
             PROVE  Stream!Next \/ UNCHANGED Stream!vars
    OBVIOUS
<1> DEFINE t == BytesIn(send_buf_sending_tmp)
           s == BytesIn(send_buf_sending_)
           w == Data(send_buf_waiting_)
<1>1. /\ t \in BytesSeq
      /\ s \in BytesSeq
      /\ w \in BytesSeq
      /\ BytesIn(<<>>) = <<>>
      /\ Data(<<>>) = <<>>
      /\ <<>> \in BytesSeq
      /\ Queue = (t \o s) \o w
    BY QueueIs DEF QueueInv, Queue
<1>2. Queue' = (BytesIn(send_buf_sending_tmp') \o BytesIn(send_buf_sending_'))
                  \o Data(send_buf_waiting_')
    BY DEF Queue
<1>3. /\ broken \in BOOLEAN
      /\ broken' \in BOOLEAN
      /\ send_buf_waiting_ \in Seq(Buffers)
      /\ pc = "send" <=> send_buf_sending_tmp # <<>>
    BY DEF QueueInv, ControlOK, BuffersOK
<1> HIDE DEF t, s, w
(* No byte moves: only the connection may have changed.                        *)
<1>4. ASSUME Queue' = Queue, wire' = wire PROVE Stream!Next \/ UNCHANGED Stream!vars
  <2>1. CASE broken' = broken
    BY <1>4, <2>1 DEF Stream!vars
  <2>2. CASE broken' # broken
    <3>1. (~broken') = ~(~broken)
        BY <1>3, <2>2
    <3>2. Stream!Turn
        BY <1>4, <3>1 DEF Stream!Turn
    <3> QED
        BY <3>2 DEF Stream!Next
  <2> QED
    BY <2>1, <2>2
<1>5. CASE UNCHANGED <<bufVars, wire>>
  <2>1. Queue' = Queue
    BY <1>2, <1>5 DEF bufVars, Queue
  <2> QED
    BY <1>4, <1>5, <2>1
<1>6. CASE RunSendTask
  <2>1. /\ swap_list # <<>>
        /\ UNCHANGED <<send_buf_sending_, send_buf_sending_tmp, wire, broken>>
    BY <1>6 DEF RunSendTask, netVars
  <2>2. CASE Head(swap_list).sockfd = sockfd_
    <3> DEFINE x == Head(swap_list).buffer
    <3>1. send_buf_waiting_' = Append(send_buf_waiting_, x)
        BY <1>6, <2>2 DEF RunSendTask
    <3>2. x \in Buffers
      <4>1. Head(swap_list) \in SendTasks
        BY <2>1, HeadTailProperties DEF QueueInv, TasksOK
      <4> QED
        BY <4>1 DEF SendTasks
    <3> HIDE DEF x
    <3> DEFINE c == Data(<<x>>)
    <3>3. Data(send_buf_waiting_') = w \o c /\ c \in BytesSeq
      <4>1. /\ Bytes(Create(Append(send_buf_waiting_, x))) =
                    Bytes(Create(send_buf_waiting_)) \o Bytes(Create(<<x>>))
            /\ Bytes(Create(<<x>>)) \in Seq(Buffers \X Nat)
        BY <1>3, <3>2, DataAppend
      <4> QED
        BY <3>1, <4>1 DEF Data, BytesSeq, w
    <3>4. c \in {Data(<<buffer>>) : buffer \in Buffers}
        BY <3>2
    <3> HIDE DEF c
    <3>5. Queue' = (t \o s) \o (w \o c)
        BY <1>2, <2>1, <3>3 DEF t, s
    <3>6. Queue' = Queue \o c
      <4>1. t \o s \in BytesSeq
        BY <1>1, Joined
      <4>2. ((t \o s) \o w) \o c = (t \o s) \o (w \o c)
        BY <1>1, <3>3, <4>1, Regrouped
      <4> QED
        BY <1>1, <3>5, <4>2
    <3>7. UNCHANGED <<wire, ~broken>>
        BY <2>1
    <3>8. Stream!Enqueue
        BY <3>4, <3>6, <3>7 DEF Stream!Enqueue
    <3> QED
        BY <3>8 DEF Stream!Next
  <2>3. CASE Head(swap_list).sockfd # sockfd_
    <3>1. UNCHANGED <<bufVars, wire>>
        BY <1>6, <2>1, <2>3 DEF RunSendTask, bufVars
    <3> QED
        BY <1>5, <3>1
  <2> QED
    BY <2>2, <2>3
<1>7. CASE FlushSending
  <2>1. /\ send_buf_sending_tmp' = send_buf_sending_
        /\ send_buf_sending_' = <<>>
        /\ send_buf_sending_tmp = <<>>
        /\ UNCHANGED <<send_buf_waiting_, wire>>
    BY <1>3, <1>7 DEF FlushSending
  <2>2. t = <<>>
    BY <1>1, <2>1 DEF t
  <2>3. Queue' = (s \o <<>>) \o w
    BY <1>1, <1>2, <2>1 DEF s, w
  <2>4. Queue' = Queue
    BY <1>1, <2>2, <2>3, Joined
  <2> QED
    BY <1>4, <2>1, <2>4
<1>8. CASE FlushWaiting
  <2>1. /\ send_buf_sending_tmp' = <<Create(send_buf_waiting_)>>
        /\ send_buf_waiting_' = <<>>
        /\ send_buf_sending_tmp = <<>>
        /\ send_buf_sending_ = <<>>
        /\ UNCHANGED <<send_buf_sending_, wire>>
    BY <1>3, <1>8 DEF FlushWaiting
  <2>2. t = <<>> /\ s = <<>>
    BY <1>1, <2>1 DEF t, s
  <2>3. BytesIn(send_buf_sending_tmp') = w
    BY <2>1, BytesInOne DEF Data, w
  <2>4. Queue' = (w \o <<>>) \o <<>>
    BY <1>1, <1>2, <2>1, <2>3
  <2>5. Queue' = Queue
    BY <1>1, <2>2, <2>4, Joined
  <2> QED
    BY <1>4, <2>1, <2>5
<1>9. CASE SendSome
  <2>1. PICK n : Took(n)
    BY <1>9, SendSomeTakes DEF QueueInv
  <2>2. UNCHANGED <<send_buf_waiting_, send_buf_sending_, broken>>
    BY <1>9 DEF SendSome
  <2> DEFINE B == Bytes(pkt)
             rest == s \o w
  <2>3. /\ B \in BytesSeq
        /\ Len(B) \in Nat
        /\ t = B
    <3>1. /\ B \in Seq(Buffers \X Nat)
          /\ Len(B) \in Nat
          /\ send_buf_sending_tmp = <<pkt>>
        BY <1>9, HeadOfTmp DEF SendSome, QueueInv
    <3>2. BytesIn(<<pkt>>) = B
        BY BytesInOne
    <3> QED
        BY <3>1, <3>2 DEF t, BytesSeq
  <2>4. n \in 1..Len(B) /\ wire' = wire \o SubSeq(B, 1, n)
    BY <2>1 DEF Took
  <2>5. rest \in BytesSeq /\ Queue = B \o rest
    <3> HIDE DEF B
    <3>0. B \in BytesSeq /\ s \in BytesSeq /\ w \in BytesSeq
        BY <1>1, <2>3
    <3>1. rest \in BytesSeq /\ (B \o s) \o w = B \o rest
        BY <3>0, Regrouped
    <3> QED
        BY <1>1, <2>3, <3>1
  <2>6. /\ n \in 1..Len(B \o rest)
        /\ SubSeq(B \o rest, 1, n) = SubSeq(B, 1, n)
        /\ SubSeq(B \o rest, n + 1, Len(B \o rest)) = SubSeq(B, n + 1, Len(B)) \o rest
    <3> HIDE DEF B, rest
    <3> QED
        BY <2>3, <2>4, <2>5, FirstBytes
  <2>7. BytesIn(send_buf_sending_tmp') = SubSeq(B, n + 1, Len(B))
    <3>1. CASE n = Len(B) /\ send_buf_sending_tmp' = <<>>
      <4>1. SubSeq(B, n + 1, Len(B)) = <<>>
        <5> HIDE DEF B
        <5>1. n + 1 \in Int /\ Len(B) \in Int /\ Len(B) < n + 1
            BY <2>3, <3>1
        <5> QED
            BY <5>1, SubSeqEmpty
      <4> QED
        BY <1>1, <3>1, <4>1
    <3>2. CASE ~(n = Len(B) /\ send_buf_sending_tmp' = <<>>)
      <4>1. PICK left : /\ Bytes(left) = SubSeq(B, n + 1, Len(B))
                        /\ send_buf_sending_tmp' = <<left>>
        BY <2>1, <3>2 DEF Took
      <4> QED
        BY <4>1, BytesInOne
    <3> QED
        BY <3>1, <3>2
  <2> DEFINE a == SubSeq(B, n + 1, Len(B))
  <2>8. a \in BytesSeq
    BY <2>7, BytesInIs DEF QueueInv, BuffersOK
  <2>9. Queue' = (a \o s) \o w
    BY <1>2, <2>2, <2>7 DEF s, w
  <2>10. (a \o s) \o w = a \o rest
    <3> HIDE DEF a
    <3>1. a \in BytesSeq /\ s \in BytesSeq /\ w \in BytesSeq
        BY <1>1, <2>8
    <3>2. (a \o s) \o w = a \o (s \o w)
        BY <3>1, Regrouped
    <3> QED
        BY <3>2
  <2> HIDE DEF B, rest
  <2>11. /\ Queue' = SubSeq(Queue, n + 1, Len(Queue))
         /\ wire' = wire \o SubSeq(Queue, 1, n)
         /\ n \in 1..Len(Queue)
    BY <2>4, <2>5, <2>6, <2>9, <2>10
  <2>12. UNCHANGED ~broken
    BY <2>2
  <2>13. Stream!Transmit
    BY <2>11, <2>12 DEF Stream!Transmit, Stream!Remove
  <2> QED
    BY <2>13 DEF Stream!Next
<1>10. ASSUME PutBack, pc = "send" PROVE Stream!Next \/ UNCHANGED Stream!vars
  <2>1. send_buf_sending_ = <<>>
    BY <1>10, HeadOfTmp DEF QueueInv
  <2>2. send_buf_sending_' = send_buf_sending_tmp
    <3>1. send_buf_sending_tmp \o <<>> = send_buf_sending_tmp
        BY ConcatEmptySeq, PendingTyped DEF QueueInv, BuffersOK
    <3> QED
        BY <1>10, <2>1, <3>1 DEF PutBack
  <2>3. send_buf_sending_tmp' = <<>> /\ UNCHANGED <<send_buf_waiting_, wire>>
    BY <1>10 DEF PutBack
  <2>4. s = <<>>
    BY <1>1, <2>1 DEF s
  <2>5. Queue' = (<<>> \o t) \o w
    BY <1>1, <1>2, <2>2, <2>3 DEF t, w
  <2>6. Queue' = Queue
    BY <1>1, <2>4, <2>5, Joined
  <2> QED
    BY <1>4, <2>3, <2>6
<1>11. CASE SendAgain
    BY <1>10, <1>11 DEF SendAgain
<1>12. CASE SendFails
  <2>1. CASE sent
    BY <1>10, <1>12, <2>1 DEF SendFails
  <2>2. CASE ~sent
    <3>1. /\ broken
          /\ pc = "send"
          /\ send_buf_sending_tmp' = <<>>
          /\ UNCHANGED <<send_buf_waiting_, send_buf_sending_, wire>>
        BY <1>12, <2>2 DEF SendFails
    <3> DEFINE B == Bytes(pkt)
               rest == s \o w
               n == Len(B)
    <3>2. /\ B \in BytesSeq
          /\ n \in Nat
          /\ n > 0
          /\ t = B
      <4>1. /\ B \in Seq(Buffers \X Nat)
            /\ n \in Nat
            /\ n > 0
            /\ send_buf_sending_tmp = <<pkt>>
        BY <3>1, HeadOfTmp DEF QueueInv
      <4>2. BytesIn(<<pkt>>) = B
        BY BytesInOne
      <4> QED
        BY <4>1, <4>2 DEF t, BytesSeq
    <3>3. rest \in BytesSeq /\ Queue = B \o rest
      <4> HIDE DEF B, n
      <4>1. B \in BytesSeq /\ s \in BytesSeq /\ w \in BytesSeq
        BY <1>1, <3>2
      <4>2. rest \in BytesSeq /\ (B \o s) \o w = B \o rest
        BY <4>1, Regrouped
      <4> QED
        BY <1>1, <3>2, <4>2
    <3>4. n \in 1..n
        BY <3>2
    <3>5. /\ n \in 1..Len(B \o rest)
          /\ SubSeq(B \o rest, n + 1, Len(B \o rest)) = SubSeq(B, n + 1, Len(B)) \o rest
      <4> HIDE DEF B, rest
      <4> QED
        BY <3>2, <3>3, <3>4, FirstBytes
    <3>6. SubSeq(B, n + 1, Len(B)) = <<>>
      <4> HIDE DEF B
      <4>1. n + 1 \in Int /\ Len(B) \in Int /\ Len(B) < n + 1
        BY <3>2
      <4> QED
        BY <4>1, SubSeqEmpty
    <3>7. Queue' = (<<>> \o s) \o w
        BY <1>1, <1>2, <3>1 DEF s, w
    <3>8. Queue' = <<>> \o rest
        BY <1>1, <3>3, <3>7, Joined
    <3> HIDE DEF n, B, rest
    <3>9. n \in 1..Len(Queue) /\ Queue' = SubSeq(Queue, n + 1, Len(Queue))
        BY <3>3, <3>5, <3>6, <3>8
    <3>10. ~~broken /\ (~broken') \in BOOLEAN /\ UNCHANGED wire
        BY <1>3, <3>1
    <3>11. Stream!Lose
        BY <3>9, <3>10 DEF Stream!Lose, Stream!Remove
    <3> QED
        BY <3>11 DEF Stream!Next
  <2> QED
    BY <2>1, <2>2
<1> QED
  <2>1. CASE StartConnect \/ ListenOrAccept
    BY <1>5, <2>1 DEF StartConnect, ListenOrAccept, Register
  <2>2. CASE Connected \/ Close \/ Exit \/ Send \/ SwapLists
    BY <1>5, <2>2 DEF Connected, Close, Exit, Send, SwapLists
  <2>3. CASE OnWriteable \/ OnWriteableToo \/ FlushNothing
    BY <1>5, <2>3 DEF OnWriteable, OnWriteableToo, WriteEvent, FlushNothing
  <2>4. CASE ErrorEvent \/ Drain \/ Break
    BY <1>5, <2>4 DEF ErrorEvent, Drain, Break
  <2>5. CASE UNCHANGED vars
    BY <1>5, <2>5 DEF vars
  <2> QED
    BY <1>6, <1>7, <1>8, <1>9, <1>11, <1>12, <2>1, <2>2, <2>3, <2>4, <2>5
       DEF Next, Tasks, FlushSteps

(* Bytes leave in the order in which they were taken over, each once, however *)
(* sendmsg cuts them and over any number of connections; only a connection    *)
(* that failed loses any.                                                      *)
THEOREM RefinesSendStream == Spec => ImplementsSendStream
<1>1. QueueInv /\ QueueInv' /\ [Next]_vars => [Stream!Next]_(Stream!vars)
    BY StreamStep
<1> QED
    BY <1>1, StreamInit, QueueCorrect, PTL DEF Spec, ImplementsSendStream, Stream!Spec
================================================================================
