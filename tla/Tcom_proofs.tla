----------------------------- MODULE Tcom_proofs -----------------------------
(***************************************************************************)
(* Proofs about the messages between the threads (module Tcom): a pipe of  *)
(* headers and a ring of bytes, put together by the lengths in the         *)
(* headers, implement a FIFO queue of whole messages (module MsgQueue),    *)
(* for every size of the ring, every number of modules and all headers.    *)
(*                                                                         *)
(* The proof needs three layers: what the recursive SumLen computes, by    *)
(* induction over sequences; what the ring does with a body, where the     *)
(* arithmetic modulo BufSize is; and the steps of the threads.             *)
(***************************************************************************)
EXTENDS Tcom, WellFoundedInduction, SequenceTheorems, TLAPS

-----------------------------------------------------------------------------
(* Induction, as a statement about sets: no theorem with an operator as    *)
(* its parameter is needed.                                                *)

LEMMA SetInduction ==
    ASSUME NEW S \in SUBSET Nat, 0 \in S, \A n \in S : n + 1 \in S
    PROVE  S = Nat
<1> DEFINE T == Nat \ S
           R == OpToRel(<, Nat)
<1>1. \A x, y \in Nat : x < y => <<x, y>> \in R BY DEF OpToRel
<1>2. SUFFICES ASSUME T # {} PROVE FALSE OBVIOUS
<1>3. IsWellFoundedOn(R, Nat) BY NatLessThanWellFounded
<1> HIDE DEF R
<1>4. PICK n \in T : \A m \in T : ~(<<m, n>> \in R) BY <1>2, <1>3, WFMin
<1>5. n \in Nat /\ n # 0 OBVIOUS
<1>6. n - 1 \in Nat /\ n - 1 < n BY <1>5
<1>7. <<n - 1, n>> \in R BY <1>1, <1>5, <1>6
<1>8. n - 1 \in S BY <1>4, <1>6, <1>7
<1>9. (n - 1) + 1 \in S BY <1>8
<1>10. (n - 1) + 1 = n BY <1>5
<1> QED BY <1>9, <1>10, n \notin S

\* A set of sequences that has <<>> and every sequence whose tail it has, has all of them.
LEMMA SeqInduction ==
    ASSUME NEW X, NEW P \in SUBSET Seq(X), <<>> \in P,
           \A s \in Seq(X) : s # <<>> /\ Tail(s) \in P => s \in P
    PROVE  P = Seq(X)
<1> DEFINE S == {n \in Nat : \A s \in Seq(X) : Len(s) = n => s \in P}
<1>1. 0 \in S
  <2>1. \A s \in Seq(X) : Len(s) = 0 => s = <<>> OBVIOUS
  <2> QED BY <2>1
<1>2. \A n \in S : n + 1 \in S
  <2> SUFFICES ASSUME NEW n \in S, NEW s \in Seq(X), Len(s) = n + 1 PROVE s \in P
    OBVIOUS
  <2>1. s # <<>> BY n \in Nat
  <2>2. Tail(s) \in Seq(X) /\ Len(Tail(s)) = n BY <2>1, n \in Nat
  <2>3. Tail(s) \in P BY <2>2
  <2> QED BY <2>1, <2>3
<1> HIDE DEF S
<1>3. S = Nat
  <2>1. S \in SUBSET Nat BY DEF S
  <2> QED BY <1>1, <1>2, <2>1, SetInduction
<1>4. ASSUME NEW s \in Seq(X) PROVE s \in P
  <2>1. Len(s) \in S BY <1>3
  <2> QED BY <2>1 DEF S
<1> QED BY <1>4

-----------------------------------------------------------------------------
(* The sum of the lengths.  A recursive definition defines something only  *)
(* if there is a function that satisfies it: it is built here from the     *)
(* sums of the suffixes.                                                   *)

\* the sums of the last i lengths, i in 0 .. Len(hs)
Sums(hs) ==
    {at \in [0 .. Len(hs) -> Nat] :
        /\ at[0] = 0
        /\ \A i \in 1 .. Len(hs) : at[i] = at[i - 1] + hs[Len(hs) + 1 - i].len}

LEMMA LenNat == ASSUME NEW h \in Headers PROVE h.len \in Nat
BY TcomAssumption

LEMMA SumsExist == \A hs \in Seq(Headers) : Sums(hs) # {}
<1> DEFINE P == {hs \in Seq(Headers) : Sums(hs) # {}}
<1>1. <<>> \in P
  <2>1. [i \in 0 .. 0 |-> 0] \in Sums(<<>>) BY DEF Sums
  <2> QED BY <2>1
<1>2. ASSUME NEW hs \in Seq(Headers), hs # <<>>, Tail(hs) \in P PROVE hs \in P
  <2>1. PICK at : at \in Sums(Tail(hs)) BY <1>2
  <2> DEFINE n == Len(hs)
             bt == [i \in 0 .. n |-> IF i < n THEN at[i] ELSE at[n - 1] + hs[1].len]
  <2>2. n \in Nat \ {0} /\ Len(Tail(hs)) = n - 1 /\ hs[1].len \in Nat BY <1>2, LenNat
  <2>3. /\ at \in [0 .. n - 1 -> Nat] /\ at[0] = 0
        /\ \A i \in 1 .. n - 1 : at[i] = at[i - 1] + Tail(hs)[n - i].len
    BY <2>1, <2>2 DEF Sums
  <2>4. \A i \in 1 .. n - 1 : Tail(hs)[n - i] = hs[n + 1 - i] BY <1>2, <2>2
  <2>5. bt \in [0 .. n -> Nat] /\ bt[0] = 0 BY <2>2, <2>3
  <2>6. \A i \in 1 .. n : bt[i] = bt[i - 1] + hs[n + 1 - i].len
    <3>0. ASSUME NEW k \in Nat, NEW i \in 1 .. k PROVE i < k \/ i = k OBVIOUS
    <3> SUFFICES ASSUME NEW i \in 1 .. n PROVE bt[i] = bt[i - 1] + hs[n + 1 - i].len OBVIOUS
    <3>1. CASE i < n BY <2>2, <2>3, <2>4, <3>1
    <3>2. CASE i = n BY <2>2, <3>2
    <3>3. i < n \/ i = n BY <2>2, <3>0, n \in Nat
    <3> QED BY <3>1, <3>2, <3>3, Zenon
  <2>7. bt \in Sums(hs) BY <2>5, <2>6 DEF Sums
  <2> QED BY <2>7
<1> HIDE DEF P
<1>3. P = Seq(Headers)
  <2>1. P \in SUBSET Seq(Headers) BY DEF P
  <2> QED BY <1>1, <1>2, <2>1, SeqInduction
<1> QED BY <1>3 DEF P

LEMMA SumsUnique ==
    ASSUME NEW hs \in Seq(Headers), NEW at \in Sums(hs), NEW bt \in Sums(hs)
    PROVE  at = bt
<1> DEFINE S == {i \in Nat : i <= Len(hs) => at[i] = bt[i]}
<1>1. 0 \in S BY DEF Sums
<1>2. ASSUME NEW i \in S PROVE i + 1 \in S
  <2> SUFFICES ASSUME i + 1 <= Len(hs) PROVE at[i + 1] = bt[i + 1] OBVIOUS
  <2>1. i + 1 \in 1 .. Len(hs) /\ i <= Len(hs) /\ (i + 1) - 1 = i OBVIOUS
  <2>2. at[i] = bt[i] BY <2>1
  <2> QED BY <2>1, <2>2 DEF Sums
<1> HIDE DEF S
<1>3. S = Nat
  <2>1. S \in SUBSET Nat BY DEF S
  <2> QED BY <1>1, <1>2, <2>1, SetInduction
<1>4. \A i \in 0 .. Len(hs) : at[i] = bt[i] BY <1>3 DEF S
<1> QED BY <1>4 DEF Sums

Total(hs) == (CHOOSE at : at \in Sums(hs))[Len(hs)]

LEMMA TotalIs ==
    ASSUME NEW hs \in Seq(Headers), NEW at \in Sums(hs)
    PROVE  Total(hs) = at[Len(hs)]
<1>1. (CHOOSE bt : bt \in Sums(hs)) \in Sums(hs) BY Zenon
<1>2. (CHOOSE bt : bt \in Sums(hs)) = at BY <1>1, SumsUnique
<1> QED BY <1>2 DEF Total

LEMMA TotalRec ==
    ASSUME NEW hs \in Seq(Headers)
    PROVE  Total(hs) = IF hs = <<>> THEN 0 ELSE Head(hs).len + Total(Tail(hs))
<1>1. PICK at : at \in Sums(hs) BY SumsExist
<1>2. Total(hs) = at[Len(hs)] BY <1>1, TotalIs
<1>3. CASE hs = <<>> BY <1>1, <1>2, <1>3 DEF Sums
<1>4. CASE hs # <<>>
  <2> DEFINE n == Len(hs)
             bt == [i \in 0 .. n - 1 |-> at[i]]
  <2>1. n \in Nat \ {0} /\ Len(Tail(hs)) = n - 1 /\ Tail(hs) \in Seq(Headers) BY <1>4
  <2>2. /\ at \in [0 .. n -> Nat] /\ at[0] = 0
        /\ \A i \in 1 .. n : at[i] = at[i - 1] + hs[n + 1 - i].len
    BY <1>1 DEF Sums
  <2>3. \A i \in 1 .. n - 1 : Tail(hs)[(n - 1) + 1 - i] = hs[n + 1 - i] BY <1>4, <2>1
  <2>4. bt \in [0 .. n - 1 -> Nat] /\ bt[0] = 0 BY <2>1, <2>2
  <2>5. \A i \in 1 .. n - 1 : bt[i] = bt[i - 1] + Tail(hs)[(n - 1) + 1 - i].len
    BY <2>1, <2>2, <2>3
  <2>6. bt \in Sums(Tail(hs)) BY <2>1, <2>4, <2>5 DEF Sums
  <2>7. Total(Tail(hs)) = bt[n - 1] BY <2>1, <2>6, TotalIs
  <2>8. /\ bt[n - 1] = at[n - 1] /\ at[n - 1] \in Nat
        /\ at[n] = at[n - 1] + hs[1].len
    <3>1. n - 1 \in 0 .. n - 1 /\ n \in 1 .. n /\ n + 1 - n = 1 BY <2>1
    <3>2. at[n] = at[n - 1] + hs[n + 1 - n].len BY <2>2, <3>1
    <3> QED BY <2>1, <2>2, <3>1, <3>2
  <2>9. Head(hs) = hs[1] /\ hs[1].len \in Nat BY <1>4, LenNat
  <2> QED BY <1>2, <1>4, <2>7, <2>8, <2>9
<1> QED BY <1>3, <1>4

\* SumLen satisfies its definition.
LEMMA SumLenDef ==
    SumLen = [hs \in Seq(Headers) |-> IF hs = <<>> THEN 0 ELSE Head(hs).len + SumLen[Tail(hs)]]
<1> DEFINE f == [hs \in Seq(Headers) |-> Total(hs)]
<1>1. f = [hs \in Seq(Headers) |-> IF hs = <<>> THEN 0 ELSE Head(hs).len + f[Tail(hs)]]
  <2>1. ASSUME NEW hs \in Seq(Headers)
        PROVE  f[hs] = IF hs = <<>> THEN 0 ELSE Head(hs).len + f[Tail(hs)]
    <3>1. hs # <<>> => Tail(hs) \in Seq(Headers) OBVIOUS
    <3> QED BY <3>1, TotalRec
  <2> QED BY <2>1
<1> HIDE DEF f
<1>2. \E g : g = [hs \in Seq(Headers) |-> IF hs = <<>> THEN 0 ELSE Head(hs).len + g[Tail(hs)]]
  BY <1>1
<1> QED BY <1>2, Zenon DEF SumLen

LEMMA SumLenRec ==
    /\ SumLen[<<>>] = 0
    /\ \A hs \in Seq(Headers) : hs # <<>> => SumLen[hs] = Head(hs).len + SumLen[Tail(hs)]
<1> HIDE DEF SumLen
<1>1. \A hs \in Seq(Headers) :
        SumLen[hs] = IF hs = <<>> THEN 0 ELSE Head(hs).len + SumLen[Tail(hs)]
  BY SumLenDef, Zenon
<1>2. <<>> \in Seq(Headers) OBVIOUS
<1> QED BY <1>1, <1>2

LEMMA SumLenNat == \A hs \in Seq(Headers) : SumLen[hs] \in Nat
<1> HIDE DEF SumLen
<1> DEFINE P == {hs \in Seq(Headers) : SumLen[hs] \in Nat}
<1>1. <<>> \in P BY SumLenRec
<1>2. ASSUME NEW hs \in Seq(Headers), hs # <<>>, Tail(hs) \in P PROVE hs \in P
  <2>1. SumLen[hs] = Head(hs).len + SumLen[Tail(hs)] BY <1>2, SumLenRec
  <2>2. Head(hs) \in Headers BY <1>2
  <2>3. Head(hs).len \in Nat BY <2>2, LenNat
  <2> QED BY <1>2, <2>1, <2>3
<1> HIDE DEF P
<1>3. P = Seq(Headers)
  <2>1. P \in SUBSET Seq(Headers) BY DEF P
  <2> QED BY <1>1, <1>2, <2>1, SeqInduction
<1> QED BY <1>3 DEF P

LEMMA SumLenAppend ==
    \A hs \in Seq(Headers), h \in Headers : SumLen[Append(hs, h)] = SumLen[hs] + h.len
<1> HIDE DEF SumLen
<1> SUFFICES ASSUME NEW h \in Headers
             PROVE  \A hs \in Seq(Headers) : SumLen[Append(hs, h)] = SumLen[hs] + h.len
  OBVIOUS
<1>0. h.len \in Nat BY LenNat
<1> DEFINE P == {hs \in Seq(Headers) : SumLen[Append(hs, h)] = SumLen[hs] + h.len}
<1>1. <<>> \in P
  <2>1. /\ Append(<<>>, h) \in Seq(Headers) /\ Append(<<>>, h) # <<>>
        /\ Head(Append(<<>>, h)) = h /\ Tail(Append(<<>>, h)) = <<>>
    OBVIOUS
  <2>2. SumLen[Append(<<>>, h)] = h.len + SumLen[<<>>] BY <2>1, SumLenRec
  <2>3. SumLen[<<>>] = 0 BY SumLenRec
  <2>4. <<>> \in Seq(Headers) OBVIOUS
  <2>5. SumLen[Append(<<>>, h)] = SumLen[<<>>] + h.len BY <1>0, <2>2, <2>3
  <2> QED BY <2>4, <2>5
<1>2. ASSUME NEW hs \in Seq(Headers), hs # <<>>, Tail(hs) \in P PROVE hs \in P
  <2>1. /\ Append(hs, h) \in Seq(Headers) /\ Append(hs, h) # <<>>
        /\ Head(Append(hs, h)) = Head(hs) /\ Tail(Append(hs, h)) = Append(Tail(hs), h)
    BY <1>2
  <2>2. SumLen[Append(hs, h)] = Head(hs).len + SumLen[Append(Tail(hs), h)]
    BY <2>1, SumLenRec
  <2>3. SumLen[hs] = Head(hs).len + SumLen[Tail(hs)] BY <1>2, SumLenRec
  <2>4. Head(hs) \in Headers /\ Tail(hs) \in Seq(Headers) BY <1>2
  <2>5. Head(hs).len \in Nat /\ SumLen[Tail(hs)] \in Nat BY <2>4, LenNat, SumLenNat
  <2>6. SumLen[Append(Tail(hs), h)] = SumLen[Tail(hs)] + h.len BY <1>2
  <2> QED BY <1>0, <2>2, <2>3, <2>5, <2>6
<1> HIDE DEF P
<1>3. P = Seq(Headers)
  <2>1. P \in SUBSET Seq(Headers) BY DEF P
  <2> QED BY <1>1, <1>2, <2>1, SeqInduction
<1> QED BY <1>3 DEF P

-----------------------------------------------------------------------------
(* Where the body of the i-th header starts, counted from the ring's head. *)

Off(hs, i) == SumLen[SubSeq(hs, 1, i - 1)]

LEMMA OffFirst == ASSUME NEW hs \in Seq(Headers) PROVE Off(hs, 1) = 0
<1> HIDE DEF SumLen
<1>1. SubSeq(hs, 1, 1 - 1) = <<>> OBVIOUS
<1> QED BY <1>1, SumLenRec DEF Off

LEMMA OffTail ==
    ASSUME NEW hs \in Seq(Headers), hs # <<>>, NEW i \in 2 .. Len(hs) + 1
    PROVE  Off(hs, i) = Head(hs).len + Off(Tail(hs), i - 1)
<1> HIDE DEF SumLen
<1> DEFINE s == SubSeq(hs, 1, i - 1)
<1>1. s \in Seq(Headers) /\ s # <<>> /\ Head(s) = Head(hs) OBVIOUS
<1>2. Tail(s) = SubSeq(Tail(hs), 1, (i - 1) - 1) OBVIOUS
<1> HIDE DEF s
<1>3. SumLen[s] = Head(hs).len + SumLen[Tail(s)] BY <1>1, SumLenRec
<1> QED BY <1>2, <1>3 DEF Off, s

LEMMA OffNat ==
    ASSUME NEW hs \in Seq(Headers), NEW i \in 1 .. Len(hs) + 1
    PROVE  Off(hs, i) \in Nat
<1> HIDE DEF SumLen
<1>1. SubSeq(hs, 1, i - 1) \in Seq(Headers) OBVIOUS
<1> QED BY <1>1, SumLenNat DEF Off

\* Every body lies within the sum of the lengths.
LEMMA OffBound ==
    \A hs \in Seq(Headers) : \A i \in 1 .. Len(hs) : Off(hs, i) + hs[i].len <= SumLen[hs]
<1> HIDE DEF SumLen
<1> DEFINE P == {hs \in Seq(Headers) :
                    \A i \in 1 .. Len(hs) : Off(hs, i) + hs[i].len <= SumLen[hs]}
<1>1. <<>> \in P OBVIOUS
<1>2. ASSUME NEW hs \in Seq(Headers), hs # <<>>, Tail(hs) \in P PROVE hs \in P
  <2>1. SumLen[hs] = Head(hs).len + SumLen[Tail(hs)] BY <1>2, SumLenRec
  <2>2. Head(hs) \in Headers /\ Tail(hs) \in Seq(Headers) /\ Head(hs) = hs[1] BY <1>2
  <2>3. Head(hs).len \in Nat /\ SumLen[Tail(hs)] \in Nat BY <2>2, LenNat, SumLenNat
  <2>4. ASSUME NEW i \in 1 .. Len(hs) PROVE Off(hs, i) + hs[i].len <= SumLen[hs]
    <3>1. CASE i = 1
      <4>1. Off(hs, 1) = 0 BY OffFirst
      <4> QED BY <2>1, <2>2, <2>3, <3>1, <4>1
    <3>2. CASE i # 1
      <4>1. i \in 2 .. Len(hs) + 1 BY <3>2
      <4>2. Off(hs, i) = Head(hs).len + Off(Tail(hs), i - 1) BY <1>2, <4>1, OffTail
      <4>3. i - 1 \in 1 .. Len(Tail(hs)) /\ Tail(hs)[i - 1] = hs[i] BY <1>2, <4>1
      <4>4. Off(Tail(hs), i - 1) + hs[i].len <= SumLen[Tail(hs)] BY <1>2, <4>3
      <4>5. i - 1 \in 1 .. Len(Tail(hs)) + 1 BY <2>2, <4>3
      <4>6. Off(Tail(hs), i - 1) \in Nat BY <2>2, <4>5, OffNat
      <4>7. hs[i] \in Headers OBVIOUS
      <4>8. hs[i].len \in Nat BY <4>7, LenNat
      <4> QED BY <2>1, <2>3, <4>2, <4>4, <4>6, <4>8
    <3> QED BY <3>1, <3>2
  <2> QED BY <2>4
<1> HIDE DEF P
<1>3. P = Seq(Headers)
  <2>1. P \in SUBSET Seq(Headers) BY DEF P
  <2> QED BY <1>1, <1>2, <2>1, SeqInduction
<1> QED BY <1>3 DEF P

LEMMA OffAppend ==
    ASSUME NEW hs \in Seq(Headers), NEW h \in Headers
    PROVE  /\ \A i \in 1 .. Len(hs) : Off(Append(hs, h), i) = Off(hs, i)
           /\ Off(Append(hs, h), Len(hs) + 1) = SumLen[hs]
<1> HIDE DEF SumLen
<1>1. \A i \in 1 .. Len(hs) : SubSeq(Append(hs, h), 1, i - 1) = SubSeq(hs, 1, i - 1)
  OBVIOUS
<1>2. SubSeq(Append(hs, h), 1, (Len(hs) + 1) - 1) = hs OBVIOUS
<1> QED BY <1>1, <1>2 DEF Off

-----------------------------------------------------------------------------
(* The ring: what a body pushed, taken back or pulled does to the bytes in *)
(* it.  All positions are counted from the head.                           *)

Octets == {<<>>} \cup {<<h.id, i>> : h \in Headers, i \in Nat}
Cells  == 0 .. BufSize - 1
Rings  == [head : Cells, tail : Cells, buf : [Cells -> Octets]]
At(r, o) == r.buf[(r.head + o) % BufSize]

LEMMA ModCases ==
    ASSUME NEW a \in Int, -BufSize <= a, a < 2 * BufSize
    PROVE  /\ a < 0 => a % BufSize = a + BufSize
           /\ 0 <= a /\ a < BufSize => a % BufSize = a
           /\ BufSize <= a => a % BufSize = a - BufSize
           /\ a % BufSize \in Cells
<1>0. BufSize \in Nat \ {0} BY TcomAssumption
<1>1. a < 0 => a % BufSize = a + BufSize BY <1>0
<1>2. 0 <= a /\ a < BufSize => a % BufSize = a BY <1>0
<1>3. BufSize <= a => a % BufSize = a - BufSize BY <1>0
<1>4. a % BufSize \in Cells BY <1>0 DEF Cells
<1> QED BY <1>1, <1>2, <1>3, <1>4

\* The distance from head to tail grows and shrinks with the tail.
Dist(h, t) == IF h <= t THEN t - h ELSE t - h + BufSize
Wrap(a)    == IF a < BufSize THEN a ELSE a - BufSize

LEMMA TailMoves ==
    ASSUME NEW h \in Cells, NEW t \in Cells, NEW n \in Nat
    PROVE  /\ Dist(h, t) + n <= BufSize - 1 => Dist(h, Wrap(t + n)) = Dist(h, t) + n
           /\ n <= Dist(h, t) => Dist(h, Wrap(t - n + BufSize)) = Dist(h, t) - n
<1>0. BufSize \in Nat \ {0} BY TcomAssumption
<1>1. Dist(h, t) + n <= BufSize - 1 => Dist(h, Wrap(t + n)) = Dist(h, t) + n
  BY <1>0 DEF Cells, Dist, Wrap
<1>2. n <= Dist(h, t) => Dist(h, Wrap(t - n + BufSize)) = Dist(h, t) - n
  BY <1>0 DEF Cells, Dist, Wrap
<1> QED BY <1>1, <1>2

LEMMA Sizes ==
    ASSUME NEW r \in Rings
    PROVE  /\ UsedSize(r) = IF r.head <= r.tail THEN r.tail - r.head
                            ELSE r.tail - r.head + BufSize
           /\ IdleSize(r) = BufSize - 1 - UsedSize(r)
           /\ UsedSize(r) \in Cells
<1>0. BufSize \in Nat \ {0} /\ r.head \in Cells /\ r.tail \in Cells
  BY TcomAssumption DEF Rings
<1> DEFINE u == r.tail - r.head + BufSize
           d == r.head - r.tail + BufSize - 1
<1>1. u \in Int /\ -BufSize <= u /\ u < 2 * BufSize BY <1>0 DEF Cells
<1>2. d \in Int /\ -BufSize <= d /\ d < 2 * BufSize BY <1>0 DEF Cells
<1>3. /\ 0 <= u /\ u < BufSize => UsedSize(r) = u
      /\ BufSize <= u => UsedSize(r) = u - BufSize
  BY <1>1, ModCases DEF UsedSize
<1>4. /\ 0 <= d /\ d < BufSize => IdleSize(r) = d
      /\ BufSize <= d => IdleSize(r) = d - BufSize
  BY <1>2, ModCases DEF IdleSize
<1> QED BY <1>0, <1>3, <1>4 DEF Cells

\* The cell at a distance from the head, and the distance of a cell from the tail.
LEMMA CellAt ==
    ASSUME NEW r \in Rings, NEW o \in Cells
    PROVE  /\ (r.head + o) % BufSize \in Cells
           /\ (r.head + o) % BufSize = IF r.head + o < BufSize THEN r.head + o
                                       ELSE r.head + o - BufSize
<1>0. BufSize \in Nat \ {0} /\ r.head \in Cells BY TcomAssumption DEF Rings
<1>1. r.head + o \in Int /\ -BufSize <= r.head + o /\ r.head + o < 2 * BufSize
      /\ 0 <= r.head + o
  BY <1>0 DEF Cells
<1> QED BY <1>0, <1>1, ModCases DEF Cells

LEMMA FromTail ==
    ASSUME NEW r \in Rings, NEW o \in Cells
    PROVE  (((r.head + o) % BufSize) - r.tail) % BufSize
             = IF o < UsedSize(r) THEN o - UsedSize(r) + BufSize ELSE o - UsedSize(r)
<1>0. BufSize \in Nat \ {0} /\ r.head \in Cells /\ r.tail \in Cells
  BY TcomAssumption DEF Rings
<1> DEFINE p == (r.head + o) % BufSize
           d == p - r.tail
<1>1. p \in Cells /\ p = IF r.head + o < BufSize THEN r.head + o ELSE r.head + o - BufSize
  BY CellAt
<1> HIDE DEF p
<1>2. d \in Int /\ -BufSize <= d /\ d < 2 * BufSize /\ d < BufSize BY <1>0, <1>1 DEF Cells
<1>3. /\ d < 0 => d % BufSize = d + BufSize
      /\ 0 <= d => d % BufSize = d
  BY <1>2, ModCases
<1>4. d % BufSize = IF o < UsedSize(r) THEN o - UsedSize(r) + BufSize ELSE o - UsedSize(r)
  BY <1>0, <1>1, <1>3, Sizes DEF Cells
<1> QED BY <1>4 DEF p

-----------------------------------------------------------------------------
LEMMA Push ==
    ASSUME NEW r \in Rings, NEW body \in Seq(Octets), Len(body) <= IdleSize(r),
           NEW r2, r2 = tcom_enqueue_msg(r, body)
    PROVE  /\ r2 \in Rings
           /\ r2.head = r.head
           /\ UsedSize(r2) = UsedSize(r) + Len(body)
           /\ \A o \in 0 .. UsedSize(r) - 1 : At(r2, o) = At(r, o)
           /\ \A j \in 1 .. Len(body) : At(r2, UsedSize(r) + j - 1) = body[j]
<1>0. /\ BufSize \in Nat \ {0} /\ r.head \in Cells /\ r.tail \in Cells
      /\ r.buf \in [Cells -> Octets] /\ Len(body) \in Nat
  BY TcomAssumption DEF Rings
<1>1. UsedSize(r) \in Cells /\ IdleSize(r) = BufSize - 1 - UsedSize(r) BY Sizes
<1> DEFINE t == r.tail + Len(body)
           b == tcom_push_data(r, body)
<1>2. t \in Int /\ -BufSize <= t /\ t < 2 * BufSize BY <1>0, <1>1 DEF Cells
<1>3. /\ t % BufSize \in Cells
      /\ t % BufSize = IF t < BufSize THEN t ELSE t - BufSize
  BY <1>0, <1>2, ModCases DEF Cells
<1>4. b = [p \in Cells |-> IF ((p - r.tail) % BufSize) + 1 <= Len(body)
                           THEN body[((p - r.tail) % BufSize) + 1] ELSE r.buf[p]]
  BY DEF tcom_push_data, Cells
<1>5. b \in [Cells -> Octets]
  <2>1. ASSUME NEW p \in Cells
        PROVE  (p - r.tail) % BufSize \in Cells
    <3>1. p - r.tail \in Int /\ -BufSize <= p - r.tail /\ p - r.tail < 2 * BufSize
      BY <1>0 DEF Cells
    <3> QED BY <3>1, ModCases
  <2>2. ASSUME NEW p \in Cells, NEW k \in Cells
        PROVE  (IF k + 1 <= Len(body) THEN body[k + 1] ELSE r.buf[p]) \in Octets
    BY <1>0 DEF Cells
  <2> QED BY <1>4, <2>1, <2>2, Zenon
<1> HIDE DEF b
<1>6. r2 = [head |-> r.head, tail |-> t % BufSize, buf |-> b]
  BY DEF Rings, tcom_enqueue_msg, b
<1>7. r2 \in Rings BY <1>0, <1>3, <1>5, <1>6 DEF Rings
<1>8. r2.head = r.head /\ r2.tail = t % BufSize /\ r2.buf = b BY <1>6
<1>9. UsedSize(r2) = UsedSize(r) + Len(body)
  <2>1. UsedSize(r) = Dist(r.head, r.tail) BY Sizes DEF Dist
  <2>2. UsedSize(r2) = Dist(r2.head, r2.tail) BY <1>7, Sizes DEF Dist
  <2>3. r2.tail = Wrap(r.tail + Len(body)) BY <1>3, <1>8, Zenon DEF Wrap
  <2>4. Dist(r.head, r.tail) + Len(body) <= BufSize - 1 BY <1>0, <1>1, <2>1 DEF Cells
  <2>5. Dist(r.head, Wrap(r.tail + Len(body))) = Dist(r.head, r.tail) + Len(body)
    BY <1>0, <2>4, TailMoves, Zenon
  <2> QED BY <1>8, <2>1, <2>2, <2>3, <2>5, Zenon
<1>10. ASSUME NEW o \in 0 .. UsedSize(r) - 1 PROVE At(r2, o) = At(r, o)
  <2> DEFINE p == (r.head + o) % BufSize
  <2>1. o \in Cells BY <1>0, <1>1 DEF Cells
  <2>2. p \in Cells BY <2>1, CellAt
  <2>3. (p - r.tail) % BufSize = o - UsedSize(r) + BufSize
    BY <1>1, <2>1, FromTail DEF Cells
  <2> HIDE DEF p
  <2>4. ~(((p - r.tail) % BufSize) + 1 <= Len(body))
    BY <1>0, <1>1, <2>1, <2>3 DEF Cells
  <2>5. b[p] = r.buf[p] BY <1>4, <2>2, <2>4
  <2> QED BY <1>8, <2>5 DEF At, p
<1>11. ASSUME NEW j \in 1 .. Len(body) PROVE At(r2, UsedSize(r) + j - 1) = body[j]
  <2> DEFINE o == UsedSize(r) + j - 1
             p == (r.head + o) % BufSize
  <2>1. o \in Cells BY <1>0, <1>1 DEF Cells
  <2>2. p \in Cells BY <2>1, CellAt
  <2>3. (p - r.tail) % BufSize = o - UsedSize(r)
    BY <1>0, <1>1, <2>1, FromTail DEF Cells
  <2> HIDE DEF p
  <2>4. ((p - r.tail) % BufSize) + 1 = j BY <1>0, <1>1, <2>3 DEF Cells
  <2>5. b[p] = body[j] BY <1>0, <1>4, <2>2, <2>4
  <2> QED BY <1>8, <2>5 DEF At, p
<1> QED BY <1>7, <1>8, <1>9, <1>10, <1>11

LEMMA TakeBack ==
    ASSUME NEW r \in Rings, NEW body \in Seq(Octets), Len(body) <= IdleSize(r),
           NEW r2, r2 = Rollback(tcom_enqueue_msg(r, body), Len(body))
    PROVE  /\ r2 \in Rings
           /\ r2.head = r.head
           /\ UsedSize(r2) = UsedSize(r)
           /\ \A o \in 0 .. UsedSize(r) - 1 : At(r2, o) = At(r, o)
<1> DEFINE rr == tcom_enqueue_msg(r, body)
           t == rr.tail - Len(body) + BufSize
<1>0. BufSize \in Nat \ {0} /\ r.head \in Cells /\ r.tail \in Cells /\ Len(body) \in Nat
  BY TcomAssumption DEF Rings
<1>1. /\ rr \in Rings /\ rr.head = r.head
      /\ UsedSize(rr) = UsedSize(r) + Len(body)
      /\ \A o \in 0 .. UsedSize(r) - 1 : At(rr, o) = At(r, o)
  BY Push
<1>2. UsedSize(r) \in Cells /\ IdleSize(r) = BufSize - 1 - UsedSize(r) BY Sizes
<1>3. r2 = [rr EXCEPT !.tail = t % BufSize] BY DEF Rollback
<1> HIDE DEF rr
<1>4. rr.tail \in Cells BY <1>1 DEF Rings
<1>5. t \in Int /\ -BufSize <= t /\ t < 2 * BufSize BY <1>0, <1>2, <1>4 DEF Cells
<1>6. t % BufSize \in Cells /\ t % BufSize = IF t < BufSize THEN t ELSE t - BufSize
  <2>1. 0 <= t BY <1>0, <1>2, <1>4 DEF Cells
  <2> HIDE DEF t
  <2>2. 0 <= t /\ t < BufSize => t % BufSize = t BY <1>5, ModCases
  <2>3. BufSize <= t => t % BufSize = t - BufSize BY <1>5, ModCases
  <2>4. t % BufSize \in Cells BY <1>5, ModCases
  <2>5. t < BufSize \/ BufSize <= t BY <1>0, <1>5
  <2> QED BY <2>1, <2>2, <2>3, <2>4, <2>5
<1>7. r2 \in Rings /\ r2.head = rr.head /\ r2.tail = t % BufSize /\ r2.buf = rr.buf
  BY <1>1, <1>3, <1>6 DEF Rings
<1>8. UsedSize(r2) = UsedSize(r)
  <2>1. UsedSize(rr) = Dist(rr.head, rr.tail) BY <1>1, Sizes DEF Dist
  <2>2. UsedSize(r2) = Dist(r2.head, r2.tail) BY <1>7, Sizes DEF Dist
  <2>3. r2.tail = Wrap(rr.tail - Len(body) + BufSize) BY <1>6, <1>7, Zenon DEF Wrap
  <2>4. Len(body) <= Dist(rr.head, rr.tail) BY <1>0, <1>1, <1>2, <2>1 DEF Cells
  <2>5. Dist(rr.head, Wrap(rr.tail - Len(body) + BufSize)) = Dist(rr.head, rr.tail) - Len(body)
    <3>1. rr.head \in Cells BY <1>0, <1>1
    <3> QED BY <1>0, <1>4, <2>4, <3>1, TailMoves, Zenon
  <2>6. UsedSize(r2) = UsedSize(rr) - Len(body) BY <1>7, <2>1, <2>2, <2>3, <2>5, Zenon
  <2> QED BY <1>0, <1>1, <1>2, <2>6 DEF Cells
<1> QED BY <1>1, <1>7, <1>8 DEF At

LEMMA Pull ==
    ASSUME NEW r \in Rings, NEW n \in Nat, n <= UsedSize(r),
           NEW r2, r2 = [r EXCEPT !.head = (r.head + n) % BufSize]
    PROVE  /\ r2 \in Rings
           /\ UsedSize(r2) = UsedSize(r) - n
           /\ \A o \in 0 .. UsedSize(r) - n - 1 : At(r2, o) = At(r, n + o)
<1>0. BufSize \in Nat \ {0} /\ r.head \in Cells /\ r.tail \in Cells
  BY TcomAssumption DEF Rings
<1>1. UsedSize(r) \in Cells /\ n \in Cells BY <1>0, Sizes DEF Cells
<1> DEFINE m == (r.head + n) % BufSize
<1>2. m \in Cells /\ m = IF r.head + n < BufSize THEN r.head + n ELSE r.head + n - BufSize
  BY <1>1, CellAt
<1>3. r2 = [r EXCEPT !.head = m] OBVIOUS
<1> HIDE DEF m
<1>4. r2 \in Rings /\ r2.head = m /\ r2.tail = r.tail /\ r2.buf = r.buf
  BY <1>2, <1>3 DEF Rings
<1>5. UsedSize(r2) = UsedSize(r) - n
  <2>1. UsedSize(r) = IF r.head <= r.tail THEN r.tail - r.head ELSE r.tail - r.head + BufSize
    BY Sizes
  <2>2. UsedSize(r2) = IF r2.head <= r2.tail THEN r2.tail - r2.head ELSE r2.tail - r2.head + BufSize
    BY <1>4, Sizes
  <2> QED BY <1>0, <1>1, <1>2, <1>4, <2>1, <2>2 DEF Cells
<1>6. ASSUME NEW o \in 0 .. UsedSize(r) - n - 1 PROVE At(r2, o) = At(r, n + o)
  <2>1. o \in Cells /\ n + o \in Cells BY <1>0, <1>1 DEF Cells
  <2>2. (m + o) % BufSize = IF m + o < BufSize THEN m + o ELSE m + o - BufSize
    <3>1. (r2.head + o) % BufSize
            = IF r2.head + o < BufSize THEN r2.head + o ELSE r2.head + o - BufSize
      BY <1>4, <2>1, CellAt
    <3> QED BY <1>4, <3>1
  <2>3. (r.head + (n + o)) % BufSize
          = IF r.head + (n + o) < BufSize THEN r.head + (n + o) ELSE r.head + (n + o) - BufSize
    BY <2>1, CellAt
  <2>4. (m + o) % BufSize = (r.head + (n + o)) % BufSize
    BY <1>0, <1>1, <1>2, <2>1, <2>2, <2>3 DEF Cells
  <2> QED BY <1>4, <2>4 DEF At
<1> QED BY <1>4, <1>5, <1>6

-----------------------------------------------------------------------------
(* A queue: the ring read back through the headers.                        *)

Part(r, o, n) == [j \in 1 .. n |-> r.buf[Slot(r.head + o, j)]]
Content(r, hs) ==
    [i \in 1 .. Len(hs) |-> [hdr |-> hs[i], body |-> Part(r, Off(hs, i), hs[i].len)]]
Paired(r, hs) == r \in Rings /\ hs \in Seq(Headers) /\ UsedSize(r) = SumLen[hs]

Message(h, b) == h \in Headers /\ b \in Seq(Octets) /\ Len(b) = h.len

LEMMA PartAt ==
    ASSUME NEW r \in Rings, NEW o \in Nat, NEW n \in Nat
    PROVE  Part(r, o, n) = [j \in 1 .. n |-> At(r, o + j - 1)]
<1>0. r.head \in Int /\ BufSize \in Nat BY TcomAssumption DEF Rings, Cells
<1>1. ASSUME NEW j \in 1 .. n
      PROVE  (r.head + o) + j - 1 = r.head + (o + j - 1)
  BY <1>0
<1>2. ASSUME NEW j \in 1 .. n
      PROVE  r.buf[Slot(r.head + o, j)] = At(r, o + j - 1)
  BY <1>1, Zenon DEF Slot, At
<1> QED BY <1>2, Zenon DEF Part

\* Rings that agree on a stretch of bytes agree on the bodies in it.
LEMMA PartSame ==
    ASSUME NEW r \in Rings, NEW r2 \in Rings, NEW o \in Nat, NEW o2 \in Nat, NEW n \in Nat,
           \A j \in 1 .. n : At(r2, o2 + j - 1) = At(r, o + j - 1)
    PROVE  Part(r2, o2, n) = Part(r, o, n)
<1>1. Part(r, o, n) = [j \in 1 .. n |-> At(r, o + j - 1)] BY PartAt
<1>2. Part(r2, o2, n) = [j \in 1 .. n |-> At(r2, o2 + j - 1)] BY PartAt
<1> QED BY <1>1, <1>2, Zenon

\* The body of the i-th header is within the used part of the ring.
LEMMA Within ==
    ASSUME NEW r, NEW hs, Paired(r, hs), NEW i \in 1 .. Len(hs)
    PROVE  /\ hs[i] \in Headers /\ hs[i].len \in Nat /\ Off(hs, i) \in Nat
           /\ \A j \in 1 .. hs[i].len : Off(hs, i) + j - 1 \in 0 .. UsedSize(r) - 1
<1> HIDE DEF SumLen
<1>1. hs \in Seq(Headers) /\ UsedSize(r) = SumLen[hs] BY DEF Paired
<1>2. hs[i] \in Headers BY <1>1
<1>3. hs[i].len \in Nat BY <1>2, LenNat
<1>4. i \in 1 .. Len(hs) + 1 BY <1>1
<1>5. Off(hs, i) \in Nat BY <1>1, <1>4, OffNat
<1>6. Off(hs, i) + hs[i].len <= SumLen[hs] BY <1>1, OffBound
<1>7. SumLen[hs] \in Nat BY <1>1, SumLenNat
<1>8. \A j \in 1 .. hs[i].len : Off(hs, i) + j - 1 \in 0 .. UsedSize(r) - 1
  BY <1>1, <1>3, <1>5, <1>6, <1>7
<1> QED BY <1>2, <1>3, <1>5, <1>8

LEMMA ContentKept ==
    ASSUME NEW r, NEW hs, Paired(r, hs), NEW r2 \in Rings,
           \A o \in 0 .. UsedSize(r) - 1 : At(r2, o) = At(r, o)
    PROVE  Content(r2, hs) = Content(r, hs)
<1>1. r \in Rings BY DEF Paired
<1>2. ASSUME NEW i \in 1 .. Len(hs)
      PROVE  Part(r2, Off(hs, i), hs[i].len) = Part(r, Off(hs, i), hs[i].len)
  <2>1. /\ Off(hs, i) \in Nat /\ hs[i].len \in Nat
        /\ \A j \in 1 .. hs[i].len : Off(hs, i) + j - 1 \in 0 .. UsedSize(r) - 1
    BY Within
  <2>2. \A j \in 1 .. hs[i].len : At(r2, Off(hs, i) + j - 1) = At(r, Off(hs, i) + j - 1)
    BY <2>1, Zenon
  <2> QED BY <1>1, <2>1, <2>2, PartSame
<1> QED BY <1>2, Zenon DEF Content

LEMMA ContentSeq ==
    ASSUME NEW r, NEW hs \in Seq(Headers)
    PROVE  /\ Content(r, hs) \in Seq({[hdr |-> hs[i], body |-> Part(r, Off(hs, i), hs[i].len)]
                                        : i \in 1 .. Len(hs)})
           /\ Len(Content(r, hs)) = Len(hs)
           /\ \A i \in 1 .. Len(hs) :
                Content(r, hs)[i] = [hdr |-> hs[i], body |-> Part(r, Off(hs, i), hs[i].len)]
BY DEF Content

\* A message pushed is appended to the queue.
LEMMA PushQueue ==
    ASSUME NEW r, NEW hs, Paired(r, hs), NEW h, NEW b, Message(h, b), h.len <= IdleSize(r)
    PROVE  /\ Paired(tcom_enqueue_msg(r, b), Append(hs, h))
           /\ Content(tcom_enqueue_msg(r, b), Append(hs, h))
                = Append(Content(r, hs), [hdr |-> h, body |-> b])
<1> HIDE DEF SumLen
<1> DEFINE r2 == tcom_enqueue_msg(r, b)
           hs2 == Append(hs, h)
<1>0. /\ r \in Rings /\ hs \in Seq(Headers) /\ UsedSize(r) = SumLen[hs]
      /\ h \in Headers /\ b \in Seq(Octets) /\ Len(b) = h.len /\ Len(b) <= IdleSize(r)
  BY DEF Paired, Message
<1>1. /\ r2 \in Rings /\ r2.head = r.head /\ UsedSize(r2) = UsedSize(r) + Len(b)
      /\ \A o \in 0 .. UsedSize(r) - 1 : At(r2, o) = At(r, o)
      /\ \A j \in 1 .. Len(b) : At(r2, UsedSize(r) + j - 1) = b[j]
  BY <1>0, Push
<1> HIDE DEF r2
<1>2. /\ hs2 \in Seq(Headers) /\ Len(hs2) = Len(hs) + 1 /\ hs2[Len(hs) + 1] = h
      /\ \A i \in 1 .. Len(hs) : hs2[i] = hs[i]
  BY <1>0
<1>3. Paired(r2, hs2)
  <2>1. SumLen[hs2] = SumLen[hs] + h.len BY <1>0, SumLenAppend
  <2> QED BY <1>0, <1>1, <1>2, <2>1 DEF Paired
<1>4. /\ \A i \in 1 .. Len(hs) : Off(hs2, i) = Off(hs, i)
      /\ Off(hs2, Len(hs) + 1) = SumLen[hs]
  BY <1>0, OffAppend
<1> HIDE DEF hs2
<1>5. ASSUME NEW i \in 1 .. Len(hs) PROVE Content(r2, hs2)[i] = Content(r, hs)[i]
  <2>1. Content(r2, hs)[i] = Content(r, hs)[i] BY <1>1, ContentKept
  <2>2. Content(r2, hs)[i] = [hdr |-> hs[i], body |-> Part(r2, Off(hs, i), hs[i].len)]
    BY <1>0, ContentSeq
  <2>3. i \in 1 .. Len(hs2) BY <1>0, <1>2
  <2>4. Content(r2, hs2)[i] = [hdr |-> hs2[i], body |-> Part(r2, Off(hs2, i), hs2[i].len)]
    BY <1>2, <2>3, ContentSeq
  <2>5. hs2[i] = hs[i] /\ Off(hs2, i) = Off(hs, i) BY <1>2, <1>4
  <2> QED BY <2>1, <2>2, <2>4, <2>5
<1>6. Content(r2, hs2)[Len(hs) + 1] = [hdr |-> h, body |-> b]
  <2>1. Len(hs) + 1 \in 1 .. Len(hs2) BY <1>0, <1>2
  <2>2. Content(r2, hs2)[Len(hs) + 1] = [hdr |-> h, body |-> Part(r2, SumLen[hs], h.len)]
    BY <1>2, <1>4, <2>1, ContentSeq
  <2>3. SumLen[hs] \in Nat /\ h.len \in Nat BY <1>0, SumLenNat, LenNat
  <2>4. Part(r2, SumLen[hs], h.len) = [j \in 1 .. h.len |-> At(r2, SumLen[hs] + j - 1)]
    BY <1>1, <2>3, PartAt
  <2>5. \A j \in 1 .. h.len : At(r2, SumLen[hs] + j - 1) = b[j]
    BY <1>0, <1>1
  <2>6. b = [j \in 1 .. h.len |-> b[j]] BY <1>0
  <2>7. Part(r2, SumLen[hs], h.len) = b BY <2>4, <2>5, <2>6, Zenon
  <2> QED BY <2>2, <2>7
<1>7. Content(r2, hs2) = Append(Content(r, hs), [hdr |-> h, body |-> b])
  <2> DEFINE c == Content(r, hs)
             d == Content(r2, hs2)
             m == [hdr |-> h, body |-> b]
  <2>1. PICK X : c \in Seq(X) /\ Len(c) = Len(hs) BY <1>0, ContentSeq
  <2>2. PICK Y : d \in Seq(Y) /\ Len(d) = Len(hs) + 1 BY <1>2, ContentSeq
  <2>3. \A i \in 1 .. Len(hs) : d[i] = c[i] BY <1>5
  <2>4. d[Len(hs) + 1] = m BY <1>6
  <2> HIDE DEF c, d, m
  <2>5. Len(hs) \in Nat BY <1>0
  <2>6. /\ c \in Seq(X \cup Y \cup {m}) /\ d \in Seq(X \cup Y \cup {m})
    BY <2>1, <2>2
  <2>7. d = Append(c, m) BY <2>1, <2>2, <2>3, <2>4, <2>5, <2>6
  <2> QED BY <2>7 DEF c, d, m
<1> QED BY <1>3, <1>7 DEF r2, hs2

\* A body taken back leaves the queue as it was.
LEMMA TakeBackQueue ==
    ASSUME NEW r, NEW hs, Paired(r, hs), NEW h, NEW b, Message(h, b), h.len <= IdleSize(r)
    PROVE  /\ Paired(Rollback(tcom_enqueue_msg(r, b), h.len), hs)
           /\ Content(Rollback(tcom_enqueue_msg(r, b), h.len), hs) = Content(r, hs)
<1> HIDE DEF SumLen
<1> DEFINE r2 == Rollback(tcom_enqueue_msg(r, b), Len(b))
<1>0. /\ r \in Rings /\ hs \in Seq(Headers) /\ UsedSize(r) = SumLen[hs]
      /\ b \in Seq(Octets) /\ Len(b) = h.len /\ Len(b) <= IdleSize(r)
  BY DEF Paired, Message
<1>1. /\ r2 \in Rings /\ UsedSize(r2) = UsedSize(r)
      /\ \A o \in 0 .. UsedSize(r) - 1 : At(r2, o) = At(r, o)
  BY <1>0, TakeBack
<1> HIDE DEF r2
<1>2. Paired(r2, hs) BY <1>0, <1>1 DEF Paired
<1>3. Content(r2, hs) = Content(r, hs) BY <1>1, ContentKept
<1>4. r2 = Rollback(tcom_enqueue_msg(r, b), h.len) BY <1>0 DEF r2
<1> QED BY <1>2, <1>3, <1>4

\* A body pulled by the length in its header is the head of the queue.
LEMMA PullQueue ==
    ASSUME NEW r, NEW hs, Paired(r, hs), hs # <<>>,
           NEW r2, r2 = [r EXCEPT !.head = (r.head + Head(hs).len) % BufSize]
    PROVE  /\ ~(UsedSize(r) < Head(hs).len)
           /\ Head(hs) \in Headers
           /\ Paired(r2, Tail(hs))
           /\ Content(r, hs) # <<>>
           /\ Head(Content(r, hs))
                = [hdr |-> Head(hs), body |-> tcom_pull_data(r, Head(hs).len)]
           /\ Content(r2, Tail(hs)) = Tail(Content(r, hs))
<1> HIDE DEF SumLen
<1> DEFINE h == Head(hs)
           ts == Tail(hs)
<1>0. r \in Rings /\ hs \in Seq(Headers) /\ UsedSize(r) = SumLen[hs] BY DEF Paired
<1>1. /\ h \in Headers /\ ts \in Seq(Headers) /\ h = hs[1] /\ Len(hs) = Len(ts) + 1
      /\ Len(ts) \in Nat /\ 1 \in 1 .. Len(hs)
      /\ \A i \in 1 .. Len(ts) : ts[i] = hs[i + 1] /\ i + 1 \in 1 .. Len(hs)
  BY <1>0
<1>2. SumLen[hs] = h.len + SumLen[ts] BY <1>0, SumLenRec
<1>3. h.len \in Nat /\ SumLen[ts] \in Nat BY <1>1, LenNat, SumLenNat
<1>4. h.len <= UsedSize(r) BY <1>0, <1>2, <1>3
<1>5. /\ r2 \in Rings /\ UsedSize(r2) = UsedSize(r) - h.len
      /\ \A o \in 0 .. UsedSize(r) - h.len - 1 : At(r2, o) = At(r, h.len + o)
  <2>1. r2 = [r EXCEPT !.head = (r.head + h.len) % BufSize] OBVIOUS
  <2> HIDE DEF h
  <2> QED BY <1>0, <1>3, <1>4, <2>1, Pull
<1>6. \A i \in 1 .. Len(ts) : Off(hs, i + 1) = h.len + Off(ts, i)
  <2>1. ASSUME NEW i \in 1 .. Len(ts) PROVE Off(hs, i + 1) = h.len + Off(ts, i)
    <3>1. i + 1 \in 2 .. Len(hs) + 1 /\ (i + 1) - 1 = i BY <1>1
    <3> QED BY <1>0, <3>1, OffTail
  <2> QED BY <2>1
<1> HIDE DEF h, ts
<1>7. Paired(r2, ts) BY <1>0, <1>1, <1>2, <1>3, <1>5 DEF Paired
<1>8. Content(r, hs)[1] = [hdr |-> h, body |-> tcom_pull_data(r, h.len)]
  <2>1. Content(r, hs)[1] = [hdr |-> hs[1], body |-> Part(r, Off(hs, 1), hs[1].len)]
    BY <1>0, <1>1, ContentSeq
  <2>2. Off(hs, 1) = 0 BY <1>0, OffFirst
  <2>3. r.head + 0 = r.head BY <1>0 DEF Rings, Cells
  <2>4. Part(r, 0, h.len) = tcom_pull_data(r, h.len) BY <2>3, Zenon DEF Part, tcom_pull_data
  <2> QED BY <1>1, <2>1, <2>2, <2>4
<1>9. ASSUME NEW i \in 1 .. Len(ts) PROVE Content(r2, ts)[i] = Content(r, hs)[i + 1]
  <2>1. Content(r2, ts)[i] = [hdr |-> ts[i], body |-> Part(r2, Off(ts, i), ts[i].len)]
    BY <1>1, ContentSeq
  <2>2. Content(r, hs)[i + 1] = [hdr |-> hs[i + 1], body |-> Part(r, Off(hs, i + 1), hs[i + 1].len)]
    BY <1>0, <1>1, ContentSeq
  <2>3. hs[i + 1] = ts[i] /\ Off(hs, i + 1) = h.len + Off(ts, i) BY <1>1, <1>6
  <2>4. /\ ts[i].len \in Nat /\ Off(ts, i) \in Nat
        /\ \A j \in 1 .. ts[i].len : Off(ts, i) + j - 1 \in 0 .. UsedSize(r2) - 1
    BY <1>7, Within
  <2>5. \A j \in 1 .. ts[i].len :
          At(r2, Off(ts, i) + j - 1) = At(r, (h.len + Off(ts, i)) + j - 1)
    <3> SUFFICES ASSUME NEW j \in 1 .. ts[i].len
                 PROVE  At(r2, Off(ts, i) + j - 1) = At(r, (h.len + Off(ts, i)) + j - 1)
      OBVIOUS
    <3>1. Off(ts, i) + j - 1 \in 0 .. UsedSize(r) - h.len - 1 BY <1>5, <2>4
    <3>2. At(r2, Off(ts, i) + j - 1) = At(r, h.len + (Off(ts, i) + j - 1)) BY <1>5, <3>1
    <3>3. ASSUME NEW a \in Int, NEW b \in Int, NEW c \in Int
          PROVE  a + (b + c - 1) = (a + b) + c - 1
      OBVIOUS
    <3>4. j \in Int BY <2>4
    <3>5. h.len + (Off(ts, i) + j - 1) = (h.len + Off(ts, i)) + j - 1
      <4>1. h.len \in Int /\ Off(ts, i) \in Int BY <1>3, <2>4
      <4> QED BY <3>3, <3>4, <4>1, Zenon
    <3> QED BY <3>2, <3>5, Zenon
  <2>6. h.len + Off(ts, i) \in Nat BY <1>3, <2>4
  <2>7. Part(r2, Off(ts, i), ts[i].len) = Part(r, h.len + Off(ts, i), ts[i].len)
    <3> DEFINE o == Off(ts, i)
               k == h.len + Off(ts, i)
               n == ts[i].len
    <3>1. /\ r \in Rings /\ r2 \in Rings /\ o \in Nat /\ k \in Nat /\ n \in Nat
          /\ \A j \in 1 .. n : At(r2, o + j - 1) = At(r, k + j - 1)
      BY <1>0, <1>5, <2>4, <2>5, <2>6
    <3> HIDE DEF o, k, n
    <3>2. Part(r2, o, n) = [j \in 1 .. n |-> At(r2, o + j - 1)] BY <3>1, PartAt
    <3>3. Part(r, k, n) = [j \in 1 .. n |-> At(r, k + j - 1)] BY <3>1, PartAt
    <3>4. Part(r2, o, n) = Part(r, k, n) BY <3>1, <3>2, <3>3, Zenon
    <3> QED BY <3>4 DEF o, k, n
  <2> QED BY <2>1, <2>2, <2>3, <2>7
<1>10. /\ Content(r, hs) # <<>> /\ Head(Content(r, hs)) = Content(r, hs)[1]
       /\ Content(r2, ts) = Tail(Content(r, hs))
  <2> DEFINE c == Content(r, hs)
             d == Content(r2, ts)
  <2>1. PICK X : c \in Seq(X) /\ Len(c) = Len(ts) + 1 BY <1>0, <1>1, ContentSeq
  <2>2. PICK Y : d \in Seq(Y) /\ Len(d) = Len(ts) BY <1>1, ContentSeq
  <2>3. \A i \in 1 .. Len(ts) : d[i] = c[i + 1] BY <1>9
  <2> HIDE DEF c, d
  <2>4. c # <<>> /\ Head(c) = c[1] BY <1>1, <2>1
  <2>5. c \in Seq(X \cup Y) /\ d \in Seq(X \cup Y) BY <2>1, <2>2
  <2>6. d = Tail(c) BY <1>1, <2>1, <2>2, <2>3, <2>4, <2>5
  <2> QED BY <2>4, <2>6 DEF c, d
<1>11. ~(UsedSize(r) < h.len) BY <1>0, <1>3, <1>4, SumLenNat
<1> QED BY <1>1, <1>7, <1>8, <1>10, <1>11 DEF h, ts

-----------------------------------------------------------------------------
(* The threads.  The invariant: every queue's ring holds exactly the       *)
(* bodies of the headers in its pipe, and the message in the TCOM thread's *)
(* hand has the length its header says.                                    *)

HandOk == hand # None => /\ hand = [hdr |-> hand.hdr, body |-> hand.body]
                         /\ Message(hand.hdr, hand.body)

TcomInv ==
    /\ ring \in [Queues -> Rings]
    /\ pipe \in [Queues -> Seq(Headers)]
    /\ \A q \in Queues : Paired(ring[q], pipe[q])
    /\ HandOk
    /\ inbox = [q \in Modules |-> inbox[q]]

Chan == [q \in Queues |-> Queued(q)]

\* One queue changes: the others stay paired, and only its content changes.
OneQueue(q, r, hs) ==
    /\ ring' = [ring EXCEPT ![q] = r]
    /\ pipe' = [pipe EXCEPT ![q] = hs]

LEMMA QueuedIs == \A q : Queued(q) = Content(ring[q], pipe[q])
BY Zenon DEF Queued, Content, Part, Off

LEMMA QueuedIsNext == \A q : Queued(q)' = Content(ring'[q], pipe'[q])
BY Zenon DEF Queued, Content, Part, Off

LEMMA OneQueueStep ==
    ASSUME TcomInv, NEW q \in Queues, NEW r, NEW hs, Paired(r, hs), OneQueue(q, r, hs)
    PROVE  /\ ring' \in [Queues -> Rings] /\ pipe' \in [Queues -> Seq(Headers)]
           /\ \A p \in Queues : Paired(ring'[p], pipe'[p])
           /\ Chan' = [Chan EXCEPT ![q] = Content(r, hs)]
<1> HIDE DEF SumLen
<1>1. ring \in [Queues -> Rings] /\ pipe \in [Queues -> Seq(Headers)] BY DEF TcomInv
<1>2. r \in Rings /\ hs \in Seq(Headers) BY DEF Paired
<1>3. ring' \in [Queues -> Rings] /\ pipe' \in [Queues -> Seq(Headers)]
  BY <1>1, <1>2 DEF OneQueue
<1>4. ring'[q] = r /\ pipe'[q] = hs BY <1>1 DEF OneQueue
<1>5. ASSUME NEW p \in Queues, p # q PROVE ring'[p] = ring[p] /\ pipe'[p] = pipe[p]
  BY <1>1, <1>5 DEF OneQueue
<1>6. ASSUME NEW p \in Queues PROVE Paired(ring'[p], pipe'[p])
  <2>1. CASE p = q BY <1>4, <2>1
  <2>2. CASE p # q
    <3>1. Paired(ring[p], pipe[p]) BY DEF TcomInv
    <3> QED BY <1>5, <2>2, <3>1
  <2> QED BY <2>1, <2>2
<1>7. Chan' = [p \in Queues |-> Content(ring'[p], pipe'[p])]
  BY QueuedIsNext, Zenon DEF Chan
<1>8. Chan = [p \in Queues |-> Content(ring[p], pipe[p])]
  BY QueuedIs, Zenon DEF Chan
<1>9. ASSUME NEW p \in Queues
      PROVE  Content(ring'[p], pipe'[p]) = [Chan EXCEPT ![q] = Content(r, hs)][p]
  <2>1. CASE p = q BY <1>4, <1>8, <2>1
  <2>2. CASE p # q BY <1>5, <1>8, <2>2
  <2> QED BY <2>1, <2>2
<1>10. Chan' = [Chan EXCEPT ![q] = Content(r, hs)]
  BY <1>7, <1>8, <1>9
<1> QED BY <1>3, <1>6, <1>10

\* tcom_forward queues the message, or leaves the queue as it was.
LEMMA ForwardStep ==
    ASSUME TcomInv, NEW q \in Queues, NEW h, NEW b, Message(h, b), tcom_forward(q, h, b)
    PROVE  /\ ring' \in [Queues -> Rings] /\ pipe' \in [Queues -> Seq(Headers)]
           /\ \A p \in Queues : Paired(ring'[p], pipe'[p])
           /\ \/ Chan' = [Chan EXCEPT ![q] = Append(@, [hdr |-> h, body |-> b])]
              \/ Chan' = Chan
<1> HIDE DEF SumLen
<1>1. /\ ring \in [Queues -> Rings] /\ pipe \in [Queues -> Seq(Headers)]
      /\ Paired(ring[q], pipe[q]) /\ h \in Headers
  BY DEF TcomInv, Message
<1>2. Chan = [p \in Queues |-> Content(ring[p], pipe[p])]
  BY QueuedIs, Zenon DEF Chan
<1>3. h.len \in Nat /\ IdleSize(ring[q]) \in Int
  <2>1. ring[q] \in Rings BY <1>1
  <2>2. /\ IdleSize(ring[q]) = BufSize - 1 - UsedSize(ring[q])
        /\ UsedSize(ring[q]) \in 0 .. BufSize - 1
    BY <2>1, Sizes DEF Cells
  <2> QED BY <1>1, <2>2, LenNat, TcomAssumption
<1>4. \/ ForwardResult(q, h) = 0 /\ h.len <= IdleSize(ring[q])
      \/ ForwardResult(q, h) = 2 /\ h.len <= IdleSize(ring[q])
      \/ ForwardResult(q, h) # 0 /\ ForwardResult(q, h) # 2
  BY <1>3 DEF ForwardResult
<1> DEFINE full == tcom_enqueue_msg(ring[q], b)
<1>5. CASE ForwardResult(q, h) = 0 /\ h.len <= IdleSize(ring[q])
  <2>1. OneQueue(q, full, Append(pipe[q], h))
    BY <1>5 DEF tcom_forward, OneQueue
  <2>2. /\ Paired(full, Append(pipe[q], h))
        /\ Content(full, Append(pipe[q], h))
             = Append(Content(ring[q], pipe[q]), [hdr |-> h, body |-> b])
    BY <1>1, <1>5, PushQueue
  <2> HIDE DEF full
  <2>3. /\ ring' \in [Queues -> Rings] /\ pipe' \in [Queues -> Seq(Headers)]
        /\ \A p \in Queues : Paired(ring'[p], pipe'[p])
        /\ Chan' = [Chan EXCEPT ![q] = Content(full, Append(pipe[q], h))]
    BY <2>1, <2>2, OneQueueStep
  <2>4. Chan[q] = Content(ring[q], pipe[q]) BY <1>2
  <2>5. Chan' = [Chan EXCEPT ![q] = Append(@, [hdr |-> h, body |-> b])]
    BY <2>2, <2>3, <2>4, Zenon
  <2> QED BY <2>3, <2>5
<1>6. CASE ForwardResult(q, h) = 2 /\ h.len <= IdleSize(ring[q])
  <2> DEFINE back == Rollback(full, h.len)
  <2>1. OneQueue(q, back, pipe[q])
    <3>1. ring' = [ring EXCEPT ![q] = back] /\ pipe' = pipe
      BY <1>6 DEF tcom_forward
    <3>2. pipe = [pipe EXCEPT ![q] = pipe[q]] BY <1>1
    <3> QED BY <3>1, <3>2 DEF OneQueue
  <2>2. Paired(back, pipe[q]) /\ Content(back, pipe[q]) = Content(ring[q], pipe[q])
    BY <1>1, <1>6, TakeBackQueue
  <2> HIDE DEF full, back
  <2>3. /\ ring' \in [Queues -> Rings] /\ pipe' \in [Queues -> Seq(Headers)]
        /\ \A p \in Queues : Paired(ring'[p], pipe'[p])
        /\ Chan' = [Chan EXCEPT ![q] = Content(back, pipe[q])]
    BY <2>1, <2>2, OneQueueStep
  <2>4. Chan' = Chan BY <1>2, <2>2, <2>3
  <2> QED BY <2>3, <2>4
<1>7. CASE ForwardResult(q, h) # 0 /\ ForwardResult(q, h) # 2
  <2>1. ring' = ring /\ pipe' = pipe BY <1>7 DEF tcom_forward
  <2>2. Chan' = Chan
    <3>1. Chan' = [p \in Queues |-> Content(ring'[p], pipe'[p])]
      BY QueuedIsNext, Zenon DEF Chan
    <3> QED BY <1>2, <2>1, <3>1
  <2>3. \A p \in Queues : Paired(ring[p], pipe[p]) BY DEF TcomInv
  <2> QED BY <1>1, <2>1, <2>2, <2>3
<1> QED BY <1>4, <1>5, <1>6, <1>7

\* tcom_recv_msg takes the head of the queue, with its own body.
LEMMA RecvStep ==
    ASSUME TcomInv, NEW q \in Queues, pipe[q] # <<>>, tcom_recv_msg(q)
    PROVE  /\ ring' \in [Queues -> Rings] /\ pipe' \in [Queues -> Seq(Headers)]
           /\ \A p \in Queues : Paired(ring'[p], pipe'[p])
           /\ Chan[q] # <<>> /\ Received(q) = Head(Chan[q])
           /\ Chan' = [Chan EXCEPT ![q] = Tail(@)]
           /\ \E h, b : Message(h, b) /\ Received(q) = [hdr |-> h, body |-> b]
<1> HIDE DEF SumLen
<1> DEFINE r == ring[q]
           hs == pipe[q]
           h == Head(hs)
           r2 == [r EXCEPT !.head = (r.head + h.len) % BufSize]
           b == tcom_pull_data(r, h.len)
<1>1. /\ ring \in [Queues -> Rings] /\ pipe \in [Queues -> Seq(Headers)]
      /\ Paired(r, hs)
  BY DEF TcomInv
<1>2. Chan = [p \in Queues |-> Content(ring[p], pipe[p])]
  BY QueuedIs, Zenon DEF Chan
<1>3. /\ ~(UsedSize(r) < h.len) /\ h \in Headers
      /\ Paired(r2, Tail(hs)) /\ Content(r, hs) # <<>>
      /\ Head(Content(r, hs)) = [hdr |-> h, body |-> b]
      /\ Content(r2, Tail(hs)) = Tail(Content(r, hs))
  BY <1>1, PullQueue
<1>4. Received(q) = [hdr |-> h, body |-> b] BY <1>3 DEF Received
<1>5. OneQueue(q, r2, Tail(hs)) BY <1>3 DEF tcom_recv_msg, OneQueue
<1>6. Message(h, b)
  <2>1. h.len \in Nat /\ r \in Rings /\ UsedSize(r) \in Cells BY <1>1, <1>3, LenNat, Sizes
  <2>2. BufSize \in Nat \ {0} BY TcomAssumption
  <2>3. ASSUME NEW j \in 1 .. h.len PROVE r.buf[Slot(r.head, j)] \in Octets
    <3>1. j - 1 \in Cells BY <1>3, <2>1, <2>2 DEF Cells
    <3>2. (r.head + (j - 1)) % BufSize \in Cells BY <2>1, <3>1, CellAt
    <3>3. Slot(r.head, j) \in Cells BY <3>2, Zenon DEF Slot
    <3> QED BY <2>1, <3>3 DEF Rings
  <2> HIDE DEF h, r
  <2>4. b \in Seq(Octets) /\ Len(b) = h.len BY <2>1, <2>3 DEF tcom_pull_data
  <2> QED BY <1>3, <2>4 DEF Message
<1> HIDE DEF r, hs, h, r2, b
<1>7. /\ ring' \in [Queues -> Rings] /\ pipe' \in [Queues -> Seq(Headers)]
      /\ \A p \in Queues : Paired(ring'[p], pipe'[p])
      /\ Chan' = [Chan EXCEPT ![q] = Content(r2, Tail(hs))]
  BY <1>3, <1>5, OneQueueStep
<1>8. Chan[q] = Content(r, hs) BY <1>2 DEF r, hs
<1>9. Chan' = [Chan EXCEPT ![q] = Tail(@)] BY <1>3, <1>7, <1>8, Zenon
<1> QED BY <1>3, <1>4, <1>6, <1>7, <1>8, <1>9

-----------------------------------------------------------------------------
LEMMA TcomInitInv == TcomInit => TcomInv
<1> HIDE DEF SumLen
<1> SUFFICES ASSUME TcomInit PROVE TcomInv OBVIOUS
<1> DEFINE r == [head |-> 0, tail |-> 0, buf |-> [p \in 0 .. BufSize - 1 |-> <<>>]]
<1>1. r \in Rings BY TcomAssumption DEF Rings, Cells, Octets
<1>2. UsedSize(r) = SumLen[<<>>]
  <2>1. UsedSize(r) = 0
    <3>1. r.head = 0 /\ r.tail = 0 OBVIOUS
    <3> HIDE DEF r
    <3> QED BY <1>1, <3>1, Sizes
  <2> QED BY <2>1, SumLenRec
<1>3. Paired(r, <<>>) BY <1>1, <1>2 DEF Paired
<1>4. ring = [q \in Queues |-> r] /\ pipe = [q \in Queues |-> <<>>] BY DEF TcomInit
<1> HIDE DEF r
<1>5. ring \in [Queues -> Rings] /\ pipe \in [Queues -> Seq(Headers)] BY <1>1, <1>4
<1>6. \A q \in Queues : Paired(ring[q], pipe[q]) BY <1>3, <1>4
<1>7. HandOk BY DEF TcomInit, HandOk
<1>8. inbox = [q \in Modules |-> inbox[q]] BY DEF TcomInit
<1> QED BY <1>5, <1>6, <1>7, <1>8 DEF TcomInv

LEMMA BodyIsMessage ==
    ASSUME NEW h \in Headers
    PROVE  Message(h, Body(h))
<1>1. h.len \in Nat BY LenNat
<1>2. \A i \in 1 .. h.len : <<h.id, i>> \in Octets BY DEF Octets
<1>3. Body(h) \in Seq(Octets) /\ Len(Body(h)) = h.len BY <1>1, <1>2 DEF Body
<1> QED BY <1>3 DEF Message

\* Every step keeps the invariant and is a step of the queue of whole messages.
LEMMA TcomStep ==
    TcomInv /\ [TcomNext]_tcomVars => TcomInv' /\ [MQ!MQNext]_<<Chan, hand, inbox>>
<1> HIDE DEF SumLen
<1> SUFFICES ASSUME TcomInv, [TcomNext]_tcomVars
             PROVE  TcomInv' /\ [MQ!MQNext]_<<Chan, hand, inbox>>
  OBVIOUS
<1> DEFINE Abs == <<Chan, hand, inbox>>
<1>0. /\ ring \in [Queues -> Rings] /\ pipe \in [Queues -> Seq(Headers)]
      /\ \A q \in Queues : Paired(ring[q], pipe[q])
      /\ HandOk
      /\ inbox = [q \in Modules |-> inbox[q]]
  BY DEF TcomInv
<1>a. ASSUME UNCHANGED <<ring, pipe>> PROVE Chan' = Chan
  BY <1>a, QueuedIs, QueuedIsNext, Zenon DEF Chan
<1>b. ASSUME /\ ring' \in [Queues -> Rings] /\ pipe' \in [Queues -> Seq(Headers)]
             /\ \A q \in Queues : Paired(ring'[q], pipe'[q])
             /\ HandOk' /\ inbox' = [q \in Modules |-> inbox'[q]]
      PROVE  TcomInv'
  BY <1>b, Zenon DEF TcomInv
<1>c. ASSUME UNCHANGED hand PROVE HandOk'
  BY <1>0, <1>c DEF HandOk, Message
<1>1. ASSUME NEW h \in Headers, tcom_send_msg(h)
      PROVE  TcomInv' /\ [MQ!MQNext]_Abs
  <2>1. UNCHANGED <<hand, inbox>> /\ HandOk'
    BY <1>1, <1>c DEF tcom_send_msg
  <2>2. CASE Refused(h)
    <3>1. UNCHANGED <<ring, pipe>> BY <1>1, <2>2 DEF tcom_send_msg
    <3>2. Chan' = Chan BY <1>a, <3>1
    <3>3. TcomInv' BY <1>0, <1>b, <2>1, <3>1
    <3> QED BY <2>1, <3>2, <3>3
  <2>3. CASE ~Refused(h)
    <3>1. tcom_forward(TCOM, h, Body(h)) BY <1>1, <2>3 DEF tcom_send_msg
    <3>2. Message(h, Body(h)) /\ TCOM \in Queues BY BodyIsMessage DEF Queues
    <3>3. /\ ring' \in [Queues -> Rings] /\ pipe' \in [Queues -> Seq(Headers)]
          /\ \A p \in Queues : Paired(ring'[p], pipe'[p])
          /\ \/ Chan' = [Chan EXCEPT ![TCOM] = Append(@, [hdr |-> h, body |-> Body(h)])]
             \/ Chan' = Chan
      BY <3>1, <3>2, ForwardStep
    <3>4. TcomInv' BY <1>0, <1>b, <2>1, <3>3
    <3>5. CASE Chan' = Chan BY <2>1, <3>4, <3>5
    <3>6. CASE Chan' = [Chan EXCEPT ![TCOM] = Append(@, [hdr |-> h, body |-> Body(h)])]
      <4> DEFINE m == [hdr |-> h, body |-> Body(h)]
      <4>1. m \in {[hdr |-> hh, body |-> Body(hh)] : hh \in Headers} OBVIOUS
      <4>2. MQ!Send(m) BY <2>1, <3>6, Zenon DEF MQ!Send, MQ!Enqueue, Chan
      <4> HIDE DEF m
      <4>3. MQ!MQNext BY <4>1, <4>2, Zenon DEF MQ!MQNext
      <4> QED BY <3>4, <4>3
    <3> QED BY <3>3, <3>5, <3>6
  <2> QED BY <2>2, <2>3
<1>2. ASSUME ProcRecv PROVE TcomInv' /\ [MQ!MQNext]_Abs
  <2>1. TCOM \in Queues /\ pipe[TCOM] # <<>> /\ tcom_recv_msg(TCOM) /\ hand = None
        /\ hand' = Received(TCOM) /\ UNCHANGED inbox
    BY <1>2 DEF ProcRecv, Queues
  <2>2. /\ ring' \in [Queues -> Rings] /\ pipe' \in [Queues -> Seq(Headers)]
        /\ \A p \in Queues : Paired(ring'[p], pipe'[p])
        /\ Chan[TCOM] # <<>> /\ Received(TCOM) = Head(Chan[TCOM])
        /\ Chan' = [Chan EXCEPT ![TCOM] = Tail(@)]
        /\ \E h, b : Message(h, b) /\ Received(TCOM) = [hdr |-> h, body |-> b]
    BY <2>1, RecvStep
  <2>3. HandOk'
    <3>1. PICK h, b : Message(h, b) /\ hand' = [hdr |-> h, body |-> b] BY <2>1, <2>2
    <3>2. hand'.hdr = h /\ hand'.body = b BY <3>1
    <3> QED BY <3>1, <3>2 DEF HandOk, Message
  <2>4. TcomInv' BY <1>0, <1>b, <2>1, <2>2, <2>3
  <2>5. MQ!Take BY <2>1, <2>2, Zenon DEF MQ!Take, Chan
  <2> QED BY <2>4, <2>5 DEF MQ!MQNext
<1>3. ASSUME ProcForward PROVE TcomInv' /\ [MQ!MQNext]_Abs
  <2>1. hand # None /\ hand' = None /\ UNCHANGED inbox BY <1>3 DEF ProcForward
  <2>2. /\ hand = [hdr |-> hand.hdr, body |-> hand.body]
        /\ Message(hand.hdr, hand.body)
    BY <1>0, <2>1 DEF HandOk
  <2>3. HandOk' BY <2>1 DEF HandOk
  <2>4. ASSUME Chan' = Chan PROVE MQ!MQNext
    <3>1. MQ!Drop BY <2>1, <2>4, Zenon DEF MQ!Drop, Chan
    <3> QED BY <3>1 DEF MQ!MQNext
  <2>5. CASE hand.hdr.to = TCOM
    <3>1. UNCHANGED <<ring, pipe>> BY <1>3, <2>5 DEF ProcForward
    <3>2. TcomInv' BY <1>0, <1>b, <2>1, <2>3, <3>1
    <3> QED BY <1>a, <2>4, <3>1, <3>2
  <2>6. CASE hand.hdr.to # TCOM
    <3> DEFINE q == hand.hdr.to
    <3>1. hand.hdr \in Headers BY <2>2 DEF Message
    <3>2. q \in Modules /\ q \in Queues BY <2>6, <3>1, TcomAssumption DEF Queues
    <3>3. tcom_forward(q, hand.hdr, hand.body) BY <1>3, <2>6 DEF ProcForward
    <3>4. /\ ring' \in [Queues -> Rings] /\ pipe' \in [Queues -> Seq(Headers)]
          /\ \A p \in Queues : Paired(ring'[p], pipe'[p])
          /\ \/ Chan' = [Chan EXCEPT ![q] = Append(@, [hdr |-> hand.hdr, body |-> hand.body])]
             \/ Chan' = Chan
      BY <2>2, <3>2, <3>3, ForwardStep
    <3>5. TcomInv' BY <1>0, <1>b, <2>1, <2>3, <3>4
    <3>6. CASE Chan' = Chan BY <2>4, <3>5, <3>6
    <3>7. CASE Chan' = [Chan EXCEPT ![q] = Append(@, [hdr |-> hand.hdr, body |-> hand.body])]
      <4>1. Chan' = [Chan EXCEPT ![q] = Append(@, hand)] BY <2>2, <3>7
      <4>2. MQ!Pass BY <2>1, <3>2, <4>1, Zenon DEF MQ!Pass, MQ!Enqueue, Chan
      <4> QED BY <3>5, <4>2 DEF MQ!MQNext
    <3> QED BY <3>4, <3>6, <3>7
  <2> QED BY <2>5, <2>6
<1>4. ASSUME NEW q \in Modules, ModuleRecv(q) PROVE TcomInv' /\ [MQ!MQNext]_Abs
  <2>1. q \in Queues /\ pipe[q] # <<>> /\ tcom_recv_msg(q) /\ inbox[q] = None
        /\ inbox' = [inbox EXCEPT ![q] = Received(q)] /\ UNCHANGED hand
    BY <1>4 DEF ModuleRecv, Queues
  <2>2. /\ ring' \in [Queues -> Rings] /\ pipe' \in [Queues -> Seq(Headers)]
        /\ \A p \in Queues : Paired(ring'[p], pipe'[p])
        /\ Chan[q] # <<>> /\ Received(q) = Head(Chan[q])
        /\ Chan' = [Chan EXCEPT ![q] = Tail(@)]
    BY <2>1, RecvStep
  <2>3. HandOk' BY <1>c, <2>1
  <2>4. inbox' = [p \in Modules |-> inbox'[p]] BY <1>0, <2>1
  <2>5. TcomInv' BY <1>0, <1>b, <2>2, <2>3, <2>4
  <2>6. MQ!Receive(q) BY <2>1, <2>2, Zenon DEF MQ!Receive, Chan
  <2> QED BY <2>5, <2>6 DEF MQ!MQNext
<1>5. ASSUME NEW q \in Modules, ModuleDone(q) PROVE TcomInv' /\ [MQ!MQNext]_Abs
  <2>1. /\ inbox[q] # None /\ inbox' = [inbox EXCEPT ![q] = None]
        /\ UNCHANGED <<ring, pipe, hand>>
    BY <1>5 DEF ModuleDone
  <2>2. Chan' = Chan BY <1>a, <2>1
  <2>3. HandOk' BY <1>c, <2>1
  <2>4. inbox' = [p \in Modules |-> inbox'[p]] BY <1>0, <2>1
  <2>5. TcomInv' BY <1>0, <1>b, <2>1, <2>3, <2>4
  <2>6. MQ!Handled(q) BY <2>1, <2>2, Zenon DEF MQ!Handled, Chan
  <2> QED BY <2>5, <2>6 DEF MQ!MQNext
<1>6. ASSUME UNCHANGED tcomVars PROVE TcomInv' /\ [MQ!MQNext]_Abs
  <2>1. UNCHANGED <<ring, pipe>> /\ UNCHANGED <<hand, inbox>> BY <1>6 DEF tcomVars
  <2>2. Chan' = Chan BY <1>a, <2>1
  <2>3. HandOk' BY <1>c, <2>1
  <2>4. TcomInv' BY <1>0, <1>b, <2>1, <2>3
  <2> QED BY <2>1, <2>2, <2>4
<1> QED BY <1>1, <1>2, <1>3, <1>4, <1>5, <1>6 DEF TcomNext

-----------------------------------------------------------------------------
\* The ring of every queue holds exactly the bodies of the headers in its pipe,
\* whatever the sizes and the interleaving (tcom_forward, tcom_recv_msg).
THEOREM RingAlwaysMatches == TcomSpec => []RingMatchesPipe
<1> HIDE DEF SumLen
<1>1. TcomInv /\ [TcomNext]_tcomVars => TcomInv' BY TcomStep
<1>2. TcomInv => RingMatchesPipe BY DEF TcomInv, RingMatchesPipe, Paired
<1> QED BY TcomInitInv, <1>1, <1>2, PTL DEF TcomSpec

\* The pipe of headers and the ring of bytes implement a FIFO queue of whole
\* messages: every step of a sender, of the TCOM thread or of a receiver is a
\* step of the abstract queue or changes nothing in it.
THEOREM TcomImplementsQueue == TcomSpec => IsMsgQueue
<1> HIDE DEF SumLen
<1>1. TcomInit => MQ!MQInit
  <2> SUFFICES ASSUME TcomInit PROVE MQ!MQInit OBVIOUS
  <2>1. pipe = [q \in Queues |-> <<>>] /\ hand = None /\ inbox = [q \in Modules |-> None]
    BY DEF TcomInit
  <2>2. ASSUME NEW q \in Queues PROVE Queued(q) = <<>>
    <3>1. pipe[q] = <<>> BY <2>1
    <3>2. Content(ring[q], <<>>) = <<>> BY DEF Content
    <3> QED BY <3>1, <3>2, QueuedIs, Zenon
  <2>3. Chan = [q \in Queues |-> <<>>] BY <2>2, Zenon DEF Chan
  <2> QED BY <2>1, <2>3, Zenon DEF MQ!MQInit, Chan, Queues
<1>2. TcomInv /\ [TcomNext]_tcomVars => TcomInv' BY TcomStep
<1>3. TcomInv /\ [TcomNext]_tcomVars => [MQ!MQNext]_(MQ!mqVars)
  BY TcomStep, Zenon DEF MQ!mqVars, Chan
<1> QED BY TcomInitInv, <1>1, <1>2, <1>3, PTL DEF TcomSpec, IsMsgQueue, MQ!MQSpec

-----------------------------------------------------------------------------
\* What the queue promises, read off the abstract specification: only messages
\* that were sent, each with the body it was sent with.
Sent == {[hdr |-> h, body |-> Body(h)] : h \in Headers}
Whole(ch, hd, ib) ==
    /\ ch \in [Queues -> Seq(Sent)]
    /\ hd \in Sent \cup {None}
    /\ ib \in [Modules -> Sent \cup {None}]
MessagesIntact == Whole(Chan, hand, inbox)

LEMMA WholeStep ==
    ASSUME MessagesIntact, [MQ!MQNext]_<<Chan, hand, inbox>>
    PROVE  MessagesIntact'
<1>0. /\ Chan \in [Queues -> Seq(Sent)] /\ hand \in Sent \cup {None}
      /\ inbox \in [Modules -> Sent \cup {None}]
  BY DEF MessagesIntact, Whole
<1>a. ASSUME NEW q \in Queues, NEW m \in Sent, Chan' = [Chan EXCEPT ![q] = Append(@, m)]
      PROVE  Chan' \in [Queues -> Seq(Sent)]
  <2>1. Append(Chan[q], m) \in Seq(Sent) BY <1>0
  <2> QED BY <1>0, <1>a, <2>1
<1>b. ASSUME NEW q \in Queues, Chan[q] # <<>>, Chan' = [Chan EXCEPT ![q] = Tail(@)]
      PROVE  Chan' \in [Queues -> Seq(Sent)] /\ Head(Chan[q]) \in Sent
  <2>1. Tail(Chan[q]) \in Seq(Sent) /\ Head(Chan[q]) \in Sent BY <1>0, <1>b
  <2> QED BY <1>0, <1>b, <2>1
<1>c. ASSUME Chan' \in [Queues -> Seq(Sent)], hand' \in Sent \cup {None},
             inbox' \in [Modules -> Sent \cup {None}]
      PROVE  MessagesIntact'
  BY <1>c, Zenon DEF MessagesIntact, Whole
<1>1. ASSUME NEW m \in Sent, MQ!Send(m) PROVE MessagesIntact'
  <2>1. Chan' = [Chan EXCEPT ![TCOM] = Append(@, m)] /\ hand' = hand /\ inbox' = inbox
    BY <1>1, Zenon DEF MQ!Send, MQ!Enqueue, Chan
  <2>2. TCOM \in Queues BY DEF Queues
  <2>3. Chan' \in [Queues -> Seq(Sent)] BY <1>a, <2>1, <2>2
  <2> QED BY <1>0, <1>c, <2>1, <2>3
<1>2. ASSUME MQ!Take PROVE MessagesIntact'
  <2>1. /\ Chan[TCOM] # <<>> /\ Chan' = [Chan EXCEPT ![TCOM] = Tail(@)]
        /\ hand' = Head(Chan[TCOM]) /\ inbox' = inbox
    BY <1>2, Zenon DEF MQ!Take, Chan
  <2>2. TCOM \in Queues BY DEF Queues
  <2>3. Chan' \in [Queues -> Seq(Sent)] /\ Head(Chan[TCOM]) \in Sent BY <1>b, <2>1, <2>2
  <2> QED BY <1>0, <1>c, <2>1, <2>3
<1>3. ASSUME MQ!Pass PROVE MessagesIntact'
  <2> DEFINE q == hand.hdr.to
  <2>1. /\ hand # None /\ q \in Modules /\ Chan' = [Chan EXCEPT ![q] = Append(@, hand)]
        /\ hand' = None /\ inbox' = inbox
    BY <1>3, Zenon DEF MQ!Pass, MQ!Enqueue, Chan
  <2>2. hand \in Sent /\ q \in Queues BY <1>0, <2>1 DEF Queues
  <2> HIDE DEF q
  <2>3. Chan' \in [Queues -> Seq(Sent)] BY <1>a, <2>1, <2>2
  <2> QED BY <1>0, <1>c, <2>1, <2>3
<1>4. ASSUME MQ!Drop PROVE MessagesIntact'
  <2>1. Chan' = Chan /\ hand' = None /\ inbox' = inbox
    BY <1>4, Zenon DEF MQ!Drop, Chan
  <2> QED BY <1>0, <1>c, <2>1
<1>5. ASSUME NEW q \in Modules, MQ!Receive(q) PROVE MessagesIntact'
  <2>1. /\ Chan[q] # <<>> /\ Chan' = [Chan EXCEPT ![q] = Tail(@)]
        /\ inbox' = [inbox EXCEPT ![q] = Head(Chan[q])] /\ hand' = hand
    BY <1>5, Zenon DEF MQ!Receive, Chan
  <2>2. q \in Queues BY DEF Queues
  <2>3. Chan' \in [Queues -> Seq(Sent)] /\ Head(Chan[q]) \in Sent BY <1>b, <2>1, <2>2
  <2>4. inbox' \in [Modules -> Sent \cup {None}] BY <1>0, <2>1, <2>3
  <2> QED BY <1>0, <1>c, <2>1, <2>3, <2>4
<1>6. ASSUME NEW q \in Modules, MQ!Handled(q) PROVE MessagesIntact'
  <2>1. /\ inbox' = [inbox EXCEPT ![q] = None] /\ Chan' = Chan /\ hand' = hand
    BY <1>6, Zenon DEF MQ!Handled, Chan
  <2>2. inbox' \in [Modules -> Sent \cup {None}] BY <1>0, <2>1
  <2> QED BY <1>0, <1>c, <2>1, <2>2
<1>7. CASE UNCHANGED <<Chan, hand, inbox>>
  <2>1. Chan' = Chan /\ hand' = hand /\ inbox' = inbox BY <1>7
  <2> QED BY <1>0, <1>c, <2>1
<1>8. CASE MQ!MQNext BY <1>1, <1>2, <1>3, <1>4, <1>5, <1>6, <1>8 DEF MQ!MQNext, Sent
<1> QED BY <1>7, <1>8

\* Every message in a queue, in the TCOM thread's hand or at its receiver is one
\* that was sent, header and body together: no body is ever read at the wrong
\* place of the ring, whatever was wrapped, refused or taken back before it.
THEOREM MessagesStayIntact == TcomSpec => []MessagesIntact
<1> HIDE DEF SumLen
<1>1. TcomInit => MessagesIntact
  <2> SUFFICES ASSUME TcomInit PROVE MessagesIntact OBVIOUS
  <2>1. pipe = [q \in Queues |-> <<>>] /\ hand = None /\ inbox = [q \in Modules |-> None]
    BY DEF TcomInit
  <2>2. ASSUME NEW q \in Queues PROVE Queued(q) = <<>>
    <3>1. pipe[q] = <<>> BY <2>1
    <3>2. Content(ring[q], <<>>) = <<>> BY DEF Content
    <3> QED BY <3>1, <3>2, QueuedIs, Zenon
  <2>3. Chan = [q \in Queues |-> <<>>] BY <2>2, Zenon DEF Chan
  <2>4. Chan \in [Queues -> Seq(Sent)] BY <2>3
  <2> QED BY <2>1, <2>4 DEF MessagesIntact, Whole
<1>2. TcomInv /\ [TcomNext]_tcomVars => TcomInv' BY TcomStep
<1>3. TcomInv /\ MessagesIntact /\ [TcomNext]_tcomVars => MessagesIntact'
  BY TcomStep, WholeStep
<1> QED BY TcomInitInv, <1>1, <1>2, <1>3, PTL DEF TcomSpec
=============================================================================
