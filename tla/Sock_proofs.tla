----------------------------- MODULE Sock_proofs -----------------------------
(* Proofs about Sock for every number of sync entries, every send buffer    *)
(* and all frame lengths: types, the arithmetic of sock_sync, and the lists  *)
(* of sync entries.                                                         *)
EXTENDS Sock, FiniteSetTheorems, FunctionTheorems, TLAPS

\* What sock_finish relies on when it opens the socket: until then the
\* counters of the connection are those sock_cleanup left.
Connecting ==
    /\ conn # "none" => stat = INPROG
    /\ stat = INPROG => sendsz = 0 /\ used = <<>>

\* The inductive invariant behind ReleasedWereAcked and AccountExact.
SockInv == SockTypeOK /\ Connecting /\ AccountExact /\ ReleasedWereAcked

-----------------------------------------------------------------------------

\* The empty list, appending an entry, and removing the oldest one, leave a list of entries.
LEMMA UsedSeq ==
    /\ <<>> \in Seq(SyncEntry)
    /\ \A s \in Seq(SyncEntry), e \in SyncEntry : Append(s, e) \in Seq(SyncEntry)
    /\ \A s \in Seq(SyncEntry) :
          s # <<>> => Head(s) \in SyncEntry /\ Tail(s) \in Seq(SyncEntry)
OBVIOUS

\* An acknowledged oldest frame is no longer than what the peer has
\* acknowledged beyond the abandoned halves.
LEMMA HeadWithinLag ==
    ASSUME SockInv, stat = OPENED, HeadAcked
    PROVE  /\ Head(used).len \in Nat \ {0}
           /\ Head(used).len <= sendsz
           /\ Head(used).len <= lag - frag
  <1>1. Head(used) \in SyncEntry
    BY UsedSeq DEF SockInv, SockTypeOK, HeadAcked
  <1>2. Head(used).len \in Nat \ {0}
    BY <1>1 DEF SyncEntry
  <1>3. sendsz + frag = outq + lag
    BY DEF SockInv, AccountExact
  <1>4. sendsz \in Nat /\ outq \in Nat /\ frag \in Nat /\ lag \in Int
    BY DEF SockInv, SockTypeOK
  <1> QED
    BY <1>2, <1>3, <1>4 DEF HeadAcked

\* A socket just created satisfies the invariant.
LEMMA InitSockInv == SockInit => SockInv
  <1> SUFFICES ASSUME SockInit PROVE SockInv
    OBVIOUS
  <1> USE DEF SockInit, CLOSED, INPROG, OPENED
  <1>1. down \in BOOLEAN
    BY Zenon
  <1>2. SockTypeOK
    BY <1>1, UsedSeq DEF SockTypeOK
  <1>3. Connecting /\ AccountExact /\ ReleasedWereAcked
    BY DEF Connecting, AccountExact, ReleasedWereAcked
  <1> QED BY <1>2, <1>3 DEF SockInv

\* sock_open starts a connection with nothing outstanding.
LEMMA OpenKeepsInv ==
    ASSUME SockInv, NEW a \in Addrs, sock_open(a)
    PROVE  SockInv'
  <1> USE SockAssumption DEF sock_open, sock_cleanup, kernel, CLOSED, INPROG, OPENED
  <1>1. SockTypeOK'
    BY UsedSeq DEF SockInv, SockTypeOK
  <1>2. Connecting'
    BY DEF Connecting
  <1>3. AccountExact' /\ ReleasedWereAcked'
    BY DEF AccountExact, ReleasedWereAcked
  <1> QED BY <1>1, <1>2, <1>3 DEF SockInv

\* sock_close, whether or not the socket is open.
LEMMA CloseKeepsInv ==
    ASSUME SockInv, sock_close
    PROVE  SockInv'
  <1> USE DEF sock_close, kernel, CLOSED, INPROG, OPENED
  <1>0. down' \in BOOLEAN
    BY Zenon DEF SockInv, SockTypeOK
  <1>1. SockTypeOK'
    BY <1>0 DEF SockInv, SockTypeOK
  <1>2. Connecting'
    BY DEF SockInv, Connecting
  <1>3. AccountExact' /\ ReleasedWereAcked'
    BY DEF SockInv, AccountExact, ReleasedWereAcked
  <1> QED BY <1>1, <1>2, <1>3 DEF SockInv

\* The connect thread before its last step.
LEMMA ProcKeepsInv ==
    ASSUME SockInv, sock_open_proc
    PROVE  SockInv'
  BY DEF SockInv, SockTypeOK, Connecting, AccountExact, ReleasedWereAcked,
         sock_open_proc, kernel

\* The connection opens with every counter at zero, on both sides.
LEMMA FinishKeepsInv ==
    ASSUME SockInv, sock_finish
    PROVE  SockInv'
  <1> USE DEF sock_finish, CLOSED, INPROG, OPENED
  <1>0. down' \in BOOLEAN
    BY Zenon
  <1>1. SockTypeOK'
    BY <1>0 DEF SockInv, SockTypeOK
  <1>2. Connecting'
    BY DEF SockInv, Connecting
  <1>3. sendsz' = 0
    BY DEF SockInv, Connecting
  <1>4. AccountExact' /\ ReleasedWereAcked'
    BY <1>3 DEF AccountExact, ReleasedWereAcked
  <1> QED BY <1>1, <1>2, <1>4 DEF SockInv

\* A frame handed to the kernel whole is counted on both sides.
LEMMA WholeKeepsInv ==
    ASSUME SockInv, NEW len \in Nat \ {0}, NEW cb \in BOOLEAN,
           stat = OPENED, ~SyncFull(cb), SendWhole(len, cb)
    PROVE  SockInv'
  <1> USE DEF CLOSED, INPROG, OPENED
  <1> DEFINE owner == IF ~cb /\ back > 0 THEN "back" ELSE "free"
             e == [len |-> len, cb |-> cb, owner |-> owner]
  <1>1. e \in SyncEntry
    BY DEF SyncEntry
  <1>2. used' \in Seq(SyncEntry)
    BY <1>1, UsedSeq DEF SockInv, SockTypeOK, SendWhole
  <1>3. free' \in Nat /\ back' \in Nat
    BY DEF SockInv, SockTypeOK, SendWhole, SyncFull
  <1>4. SockTypeOK'
    BY <1>2, <1>3 DEF SockInv, SockTypeOK, SendWhole
  <1>5. Connecting'
    BY DEF SockInv, Connecting, SendWhole
  <1>6. AccountExact' /\ ReleasedWereAcked'
    BY DEF SockInv, SockTypeOK, AccountExact, ReleasedWereAcked, SendWhole
  <1> QED BY <1>4, <1>5, <1>6 DEF SockInv

\* The bytes of an abandoned frame are counted by the kernel alone.
LEMMA PartKeepsInv ==
    ASSUME SockInv, NEW len \in Nat \ {0}, stat = OPENED, SendPart(len)
    PROVE  SockInv'
  <1> USE DEF CLOSED, INPROG, OPENED
  <1>1. PICK k \in 0 .. len - 1 : outq' = outq + k /\ frag' = frag + k
    BY DEF SendPart
  <1>2. SockTypeOK'
    BY <1>1 DEF SockInv, SockTypeOK, SendPart
  <1>3. Connecting'
    BY DEF SockInv, Connecting, SendPart
  <1>4. AccountExact' /\ ReleasedWereAcked'
    BY <1>1 DEF SockInv, SockTypeOK, AccountExact, ReleasedWereAcked, SendPart
  <1> QED BY <1>2, <1>3, <1>4 DEF SockInv

\* sock_send in all its outcomes.
LEMMA SendKeepsInv ==
    ASSUME SockInv, NEW len \in Lens, NEW cb \in BOOLEAN, NEW res,
           sock_send(len, cb, res)
    PROVE  SockInv'
  <1>1. len \in Nat \ {0}
    BY SockAssumption
  <1>2. CASE UNCHANGED sockVars
    BY <1>2 DEF SockInv, SockTypeOK, Connecting, AccountExact, ReleasedWereAcked, sockVars
  <1>3. CASE stat = OPENED /\ ~SyncFull(cb) /\ SendPart(len)
    BY <1>1, <1>3, PartKeepsInv
  <1>4. CASE stat = OPENED /\ ~SyncFull(cb) /\ SendWhole(len, cb)
    BY <1>1, <1>4, WholeKeepsInv
  <1> QED BY <1>2, <1>3, <1>4 DEF sock_send

\* The release of a frame: the part of the argument that needs both the exact
\* account and the bound on what has been acknowledged.
LEMMA SyncKeepsInv ==
    ASSUME SockInv, sock_sync
    PROVE  SockInv'
  <1> USE DEF CLOSED, INPROG, OPENED
  <1>1. CASE ~HeadAcked
    BY <1>1 DEF SockInv, SockTypeOK, Connecting, AccountExact, ReleasedWereAcked, sock_sync
  <1>2. CASE HeadAcked
    <2>1. /\ Head(used).len \in Nat \ {0}
          /\ Head(used).len <= sendsz
          /\ Head(used).len <= lag - frag
      BY <1>2, HeadWithinLag DEF sock_sync
    <2>2. Tail(used) \in Seq(SyncEntry)
      BY <1>2, UsedSeq DEF SockInv, SockTypeOK, HeadAcked
    <2>3. free' \in Nat /\ back' \in Nat
      BY <1>2 DEF SockInv, SockTypeOK, sock_sync
    <2> DEFINE n == Head(used).len
    <2>4. sendsz' = sendsz - n /\ lag' = lag - n /\ used' = Tail(used)
      BY <1>2 DEF sock_sync
    <2>5. n \in Nat /\ n <= sendsz /\ n <= lag - frag
      BY <2>1
    <2> HIDE DEF n
    <2>6. sendsz' \in Nat /\ lag' \in Int
      BY <2>4, <2>5 DEF SockInv, SockTypeOK
    <2>7. SockTypeOK'
      BY <2>2, <2>3, <2>4, <2>6 DEF SockInv, SockTypeOK, sock_sync
    <2>8. Connecting'
      BY DEF SockInv, Connecting, sock_sync
    <2>9. AccountExact' /\ ReleasedWereAcked'
      BY <2>4, <2>5 DEF SockInv, SockTypeOK, AccountExact, ReleasedWereAcked, sock_sync
    <2> QED BY <2>7, <2>8, <2>9 DEF SockInv
  <1> QED BY <1>1, <1>2

\* The peer acknowledges bytes, or the connection breaks.
LEMMA KernelKeepsInv ==
    ASSUME SockInv, TcpBreak \/ \E k \in 1 .. SndBuf : TcpAck(k)
    PROVE  SockInv'
  <1>1. CASE TcpBreak
    BY <1>1 DEF SockInv, SockTypeOK, Connecting, AccountExact, ReleasedWereAcked, TcpBreak
  <1>2. CASE \E k \in 1 .. SndBuf : TcpAck(k)
    <2>1. PICK k \in 1 .. SndBuf : TcpAck(k)
      BY <1>2
    <2>2. k \in Nat
      BY SockAssumption
    <2>3. SockTypeOK'
      BY <2>1, <2>2 DEF SockInv, SockTypeOK, TcpAck
    <2>4. Connecting'
      BY <2>1 DEF SockInv, Connecting, TcpAck
    <2>5. AccountExact' /\ ReleasedWereAcked'
      BY <2>1, <2>2 DEF SockInv, SockTypeOK, AccountExact, ReleasedWereAcked, TcpAck
    <2> QED BY <2>3, <2>4, <2>5 DEF SockInv
  <1> QED BY <1>1, <1>2

\* Every step of the socket, its user and the network keeps the invariant.
THEOREM SockInvInductive == SockInv /\ [SockNext]_sockVars => SockInv'
  <1> SUFFICES ASSUME SockInv, [SockNext]_sockVars PROVE SockInv'
    OBVIOUS
  <1>1. CASE UNCHANGED sockVars
    BY <1>1 DEF SockInv, SockTypeOK, Connecting, AccountExact, ReleasedWereAcked, sockVars
  <1>2. CASE SockUser
    <2>1. CASE \E a \in Addrs : sock_open(a)
      BY <2>1, OpenKeepsInv
    <2>2. CASE sock_close
      BY <2>2, CloseKeepsInv
    <2>3. CASE \E len \in Lens, cb \in BOOLEAN :
                  \E res \in {-1, 0, len} : sock_send(len, cb, res) /\ frag' <= MaxFrag
      BY <2>3, SendKeepsInv
    <2>4. CASE sock_sync
      BY <2>4, SyncKeepsInv
    <2> QED BY <1>2, <2>1, <2>2, <2>3, <2>4 DEF SockUser
  <1>3. CASE SockEnv
    BY <1>3, ProcKeepsInv, FinishKeepsInv, KernelKeepsInv DEF SockEnv
  <1> QED BY <1>1, <1>2, <1>3 DEF SockNext

\* The invariant holds of every behaviour of the socket.
THEOREM SockInvHolds == SockSpec => []SockInv
  BY InitSockInv, SockInvInductive, PTL DEF SockSpec

\* The types of the socket hold in every reachable state; in particular no
\* list of sync entries is taken from when it is empty, and sendsz does not
\* go below zero.
THEOREM SockTypes == SockSpec => []SockTypeOK
  <1>1. SockInv => SockTypeOK
    BY DEF SockInv
  <1> QED BY <1>1, SockInvHolds, PTL

\* sock_sync never reports a frame as delivered before the peer has
\* acknowledged all of it.
THEOREM NeverReleasedEarly == SockSpec => []ReleasedWereAcked
  <1>1. SockInv => ReleasedWereAcked
    BY DEF SockInv
  <1> QED BY <1>1, SockInvHolds, PTL

\* What the socket counts and what the kernel holds agree at all times.
THEOREM AccountIsExact == SockSpec => []AccountExact
  <1>1. SockInv => AccountExact
    BY DEF SockInv
  <1> QED BY <1>1, SockInvHolds, PTL

-----------------------------------------------------------------------------
(* The frames outstanding: sendsz is the sum of their lengths.  The sum is  *)
(* stated by the function of its partial sums, which a send extends by one  *)
(* and a release shifts; no induction over the list is needed.              *)

\* S is the function of the partial sums of the lengths of the frames in u.
PartialSums(S, u) ==
    /\ S \in [0 .. Len(u) -> Nat]
    /\ S[0] = 0
    /\ \A i \in 1 .. Len(u) : S[i] = S[i - 1] + u[i].len
    /\ \A i, j \in 0 .. Len(u) : i <= j => S[i] <= S[j]

\* The frames in u have z bytes.
BytesOf(u, z) == \E S : PartialSums(S, u) /\ S[Len(u)] = z

\* The empty list has no bytes.
LEMMA EmptySum == BytesOf(<<>>, 0)
  <1> DEFINE S == [i \in 0 .. 0 |-> 0]
  <1>1. PartialSums(S, <<>>) /\ S[Len(<<>>)] = 0
    BY DEF PartialSums
  <1> QED BY <1>1 DEF BytesOf

\* A frame that is sent adds its length.
LEMMA SentSum ==
    ASSUME NEW u \in Seq(SyncEntry), NEW z \in Nat, BytesOf(u, z), NEW e \in SyncEntry
    PROVE  BytesOf(Append(u, e), z + e.len)
  <1> DEFINE n == Len(u)
             v == Append(u, e)
  <1>1. PICK S : PartialSums(S, u) /\ S[n] = z
    BY DEF BytesOf
  <1> DEFINE T == [i \in 0 .. n + 1 |-> IF i = n + 1 THEN z + e.len ELSE S[i]]
  <1>2. /\ n \in Nat /\ Len(v) = n + 1 /\ e.len \in Nat /\ z \in Nat
        /\ \A i \in 1 .. n : v[i] = u[i]
        /\ v[n + 1] = e
    BY DEF SyncEntry
  <1> HIDE DEF n, v
  <1>3. /\ S \in [0 .. n -> Nat] /\ S[0] = 0
        /\ \A i \in 1 .. n : S[i] = S[i - 1] + u[i].len
        /\ \A i, j \in 0 .. n : i <= j => S[i] <= S[j]
    BY <1>1 DEF PartialSums, n
  <1>4. T \in [0 .. n + 1 -> Nat] /\ T[0] = 0
    BY <1>2, <1>3
  <1>5. \A i \in 1 .. n + 1 : T[i] = T[i - 1] + v[i].len
    <2> TAKE i \in 1 .. n + 1
    <2>1. CASE i = n + 1
      BY <1>1, <1>2, <2>1
    <2>2. CASE i \in 1 .. n
      <3>1. T[i] = S[i] /\ T[i - 1] = S[i - 1]
        BY <1>2, <2>2
      <3> QED BY <1>2, <1>3, <2>2, <3>1
    <2> QED BY <1>2, <2>1, <2>2
  <1>6. \A i, j \in 0 .. n + 1 : i <= j => T[i] <= T[j]
    <2> SUFFICES ASSUME NEW i \in 0 .. n + 1, NEW j \in 0 .. n + 1, i <= j
                 PROVE  T[i] <= T[j]
      OBVIOUS
    <2>1. CASE j \in 0 .. n
      BY <1>2, <1>3, <2>1
    <2>2. CASE j = n + 1 /\ i = n + 1
      BY <1>4, <2>2
    <2>3. CASE j = n + 1 /\ i \in 0 .. n
      <3>1. T[i] = S[i] /\ S[i] <= S[n] /\ S[i] \in Nat
        BY <1>2, <1>3, <2>3
      <3> QED BY <1>1, <1>2, <2>3, <3>1
    <2> QED BY <1>2, <2>1, <2>2, <2>3
  <1>7. T[n + 1] = z + e.len
    BY <1>2
  <1> HIDE DEF T
  <1>8. PartialSums(T, v)
    BY <1>2, <1>4, <1>5, <1>6 DEF PartialSums
  <1> QED BY <1>2, <1>7, <1>8 DEF BytesOf, v

\* A frame that is released takes its length away.
LEMMA ReleasedSum ==
    ASSUME NEW u \in Seq(SyncEntry), NEW z \in Nat, BytesOf(u, z), u # <<>>
    PROVE  /\ Head(u).len <= z
           /\ BytesOf(Tail(u), z - Head(u).len)
  <1> DEFINE n == Len(u)
             h == Head(u).len
             v == Tail(u)
  <1>1. PICK S : PartialSums(S, u) /\ S[n] = z
    BY DEF BytesOf
  <1> DEFINE T == [i \in 0 .. n - 1 |-> S[i + 1] - h]
  <1>2. /\ n \in Nat \ {0} /\ Len(v) = n - 1
        /\ \A i \in 1 .. n - 1 : v[i] = u[i + 1]
        /\ u[1].len = h
    OBVIOUS
  <1>3. /\ S \in [0 .. n -> Nat] /\ S[0] = 0
        /\ \A i \in 1 .. n : S[i] = S[i - 1] + u[i].len
        /\ \A i, j \in 0 .. n : i <= j => S[i] <= S[j]
    BY <1>1 DEF PartialSums
  <1>4. h \in Nat
    BY UsedSeq DEF SyncEntry
  <1> HIDE DEF n, h, v
  <1>5. S[1] = h
    BY <1>2, <1>3, <1>4
  <1>6. \A i \in 0 .. n - 1 : i + 1 \in 1 .. n /\ S[i + 1] \in Nat /\ h <= S[i + 1]
    BY <1>2, <1>3, <1>5
  <1>7. T \in [0 .. n - 1 -> Nat] /\ T[0] = 0
    BY <1>2, <1>4, <1>5, <1>6
  <1>8. ASSUME NEW i \in 1 .. n - 1 PROVE T[i] = T[i - 1] + v[i].len
    <2>1. T[i] = S[i + 1] - h /\ T[i - 1] = S[i] - h
      BY <1>2
    <2>2. i + 1 \in 1 .. n /\ i \in 0 .. n /\ (i + 1) - 1 = i
      BY <1>2
    <2>3. S[i + 1] = S[i] + u[i + 1].len /\ S[i] \in Nat /\ S[i + 1] \in Nat
      BY <1>3, <2>2
    <2>4. u[i + 1] \in SyncEntry
      BY <2>2 DEF n
    <2>5. v[i] = u[i + 1]
      BY <1>2
    <2> DEFINE a == u[i + 1].len
               b == S[i]
    <2>6. a \in Nat /\ b \in Nat
      BY <2>3, <2>4 DEF SyncEntry
    <2>7. T[i] = (b + a) - h /\ T[i - 1] = b - h /\ v[i].len = a
      BY <2>1, <2>3, <2>5
    <2> HIDE DEF a, b, T
    <2> QED BY <1>4, <2>6, <2>7
  <1>9. \A i, j \in 0 .. n - 1 : i <= j => T[i] <= T[j]
    <2> SUFFICES ASSUME NEW i \in 0 .. n - 1, NEW j \in 0 .. n - 1, i <= j
                 PROVE  T[i] <= T[j]
      OBVIOUS
    <2>1. S[i + 1] <= S[j + 1] /\ S[i + 1] \in Nat /\ S[j + 1] \in Nat
      BY <1>2, <1>3
    <2> QED BY <1>4, <2>1
  <1>10. T[n - 1] = z - h
    BY <1>1, <1>2
  <1> HIDE DEF T
  <1>11. PartialSums(T, v)
    BY <1>2, <1>7, <1>8, <1>9 DEF PartialSums
  <1>12. h <= z
    BY <1>1, <1>2, <1>6
  <1>13. BytesOf(v, z - h)
    BY <1>2, <1>10, <1>11 DEF BytesOf
  <1> QED BY <1>12, <1>13 DEF v, h

\* sendsz is the length of all frames that are not released.
SendszIsSum == BytesOf(used, sendsz)

\* No step of the socket or the network changes the sum but a send and a release.
LEMMA SumKept ==
    ASSUME SockInv, SendszIsSum, [SockNext]_sockVars
    PROVE  SendszIsSum'
  <1>0. used \in Seq(SyncEntry) /\ sendsz \in Nat
    BY DEF SockInv, SockTypeOK
  <1>1. CASE UNCHANGED <<used, sendsz>>
    BY <1>1 DEF SendszIsSum
  <1>2. CASE \E a \in Addrs : sock_open(a)
    BY <1>2, EmptySum DEF SendszIsSum, sock_open, sock_cleanup
  <1>3. ASSUME NEW len \in Lens, NEW cb \in BOOLEAN, SendWhole(len, cb)
        PROVE  SendszIsSum'
    <2> DEFINE e == [len |-> len, cb |-> cb, owner |-> IF ~cb /\ back > 0 THEN "back" ELSE "free"]
    <2>1. e \in SyncEntry /\ e.len = len
      BY SockAssumption DEF SyncEntry
    <2>2. used' = Append(used, e) /\ sendsz' = sendsz + e.len
      BY <1>3 DEF SendWhole
    <2> HIDE DEF e
    <2> QED BY <1>0, <2>1, <2>2, SentSum DEF SendszIsSum
  <1>4. CASE sock_sync /\ HeadAcked
    <2>1. used # <<>> /\ used' = Tail(used) /\ sendsz' = sendsz - Head(used).len
      BY <1>4 DEF sock_sync, HeadAcked
    <2> QED BY <1>0, <2>1, ReleasedSum DEF SendszIsSum
  <1>5. CASE \E len \in Lens, cb \in BOOLEAN :
                \E res \in {-1, 0, len} : sock_send(len, cb, res)
    <2>1. PICK len \in Lens, cb \in BOOLEAN : \E res \in {-1, 0, len} : sock_send(len, cb, res)
      BY <1>5
    <2>2. UNCHANGED <<used, sendsz>> \/ SendWhole(len, cb)
      BY <2>1 DEF sock_send, sockVars, SendPart
    <2> QED BY <1>1, <1>3, <2>2
  <1>6. CASE UNCHANGED sockVars \/ sock_close \/ sock_sync \/ SockEnv
    BY <1>1, <1>4, <1>6 DEF sockVars, sock_close, sock_sync, SockEnv, sock_open_proc,
                            sock_finish, TcpAck, TcpBreak
  <1> QED BY <1>2, <1>5, <1>6 DEF SockNext, SockUser

\* sendsz is at all times the number of bytes of the frames not released.
THEOREM SendszExact == SockSpec => []SendszIsSum
  <1>1. SockInit => SendszIsSum
    BY EmptySum DEF SockInit, SendszIsSum
  <1>2. SockInv /\ SendszIsSum /\ [SockNext]_sockVars => SendszIsSum'
    BY SumKept
  <1> QED BY <1>1, <1>2, SockInvHolds, PTL DEF SockSpec

\* Once the peer has acknowledged every byte, sock_sync finds the oldest frame
\* acknowledged: no abandoned frame and no earlier connection leaves an entry that
\* is never given back.
THEOREM AckedIsAlwaysReleasable == SockSpec => []AckedFrameIsReleasable
  <1>1. SockInv /\ SendszIsSum => AckedFrameIsReleasable
    <2> SUFFICES ASSUME SockInv, SendszIsSum, used # <<>>, outq = 0 PROVE HeadAcked
      BY DEF AckedFrameIsReleasable
    <2>1. used \in Seq(SyncEntry) /\ sendsz \in Nat
      BY DEF SockInv, SockTypeOK
    <2>2. Head(used).len <= sendsz
      BY <2>1, ReleasedSum DEF SendszIsSum
    <2> QED BY <2>1, <2>2 DEF HeadAcked
  <1> QED BY <1>1, SockInvHolds, SendszExact, PTL

-----------------------------------------------------------------------------
(* The lists of sync entries.                                              *)

\* The places in u of the entries that return to a list.
PlacesOf(u, list) == {i \in 1 .. Len(u) : u[i].owner = list}

LEMMA PlacesFinite ==
    ASSUME NEW u \in Seq(SyncEntry), NEW list
    PROVE  /\ IsFiniteSet(PlacesOf(u, list))
           /\ Cardinality(PlacesOf(u, list)) \in Nat
  <1>1. IsFiniteSet(1 .. Len(u)) /\ PlacesOf(u, list) \in SUBSET (1 .. Len(u))
    BY FS_Interval DEF PlacesOf
  <1> QED BY <1>1, FS_Subset, FS_CardinalityType

\* An entry that is put on the list is one place more of its owner's.
LEMMA PlacesSent ==
    ASSUME NEW u \in Seq(SyncEntry), NEW e \in SyncEntry, NEW list
    PROVE  Cardinality(PlacesOf(Append(u, e), list)) =
               Cardinality(PlacesOf(u, list)) + IF e.owner = list THEN 1 ELSE 0
  <1> DEFINE n == Len(u) + 1
             v == Append(u, e)
  <1>1. /\ n \in Nat /\ Len(v) = n /\ v[n] = e /\ n \notin 1 .. Len(u)
        /\ 1 .. n = 1 .. Len(u) \cup {n}
        /\ \A i \in 1 .. Len(u) : v[i] = u[i]
    OBVIOUS
  <1> HIDE DEF n, v
  <1>2. PlacesOf(v, list) = IF e.owner = list THEN PlacesOf(u, list) \cup {n} ELSE PlacesOf(u, list)
    BY <1>1 DEF PlacesOf
  <1>3. n \notin PlacesOf(u, list)
    BY <1>1 DEF PlacesOf
  <1>4. IsFiniteSet(PlacesOf(u, list)) /\ Cardinality(PlacesOf(u, list)) \in Nat
    BY PlacesFinite
  <1>5. CASE e.owner = list
    BY <1>2, <1>3, <1>4, <1>5, FS_AddElement DEF v
  <1>6. CASE e.owner # list
    BY <1>2, <1>4, <1>6 DEF v
  <1> QED BY <1>5, <1>6

\* The oldest entry that is taken off the list is one place less of its owner's: the
\* others move up by one.
LEMMA PlacesReleased ==
    ASSUME NEW u \in Seq(SyncEntry), u # <<>>, NEW list
    PROVE  Cardinality(PlacesOf(u, list)) =
               Cardinality(PlacesOf(Tail(u), list)) + IF Head(u).owner = list THEN 1 ELSE 0
  <1> DEFINE A == PlacesOf(Tail(u), list)
             B == PlacesOf(u, list) \ {1}
             f == [i \in A |-> i + 1]
  <1>1. /\ Len(u) \in Nat \ {0} /\ Len(Tail(u)) = Len(u) - 1 /\ Head(u) = u[1]
        /\ \A i \in 1 .. Len(u) - 1 : Tail(u)[i] = u[i + 1]
        /\ Tail(u) \in Seq(SyncEntry)
    OBVIOUS
  <1>2. A \subseteq Nat /\ \A i \in A : i + 1 \in B
    BY <1>1 DEF PlacesOf
  <1>3. \A j \in B : j - 1 \in A /\ (j - 1) + 1 = j
    BY <1>1 DEF PlacesOf
  <1> HIDE DEF A, B
  <1>4. f \in Bijection(A, B)
    <2>1. f \in [A -> B] /\ \A a, b \in A : f[a] = f[b] => a = b
      BY <1>2
    <2>2. \A j \in B : \E i \in A : f[i] = j
      BY <1>3
    <2> HIDE DEF f
    <2> QED BY <2>1, <2>2, Fun_IsBij
  <1>5. Cardinality(A) = Cardinality(B)
    BY <1>1, <1>4, PlacesFinite, FS_Bijection DEF ExistsBijection, A
  <1>6. 1 \in PlacesOf(u, list) <=> Head(u).owner = list
    BY <1>1 DEF PlacesOf
  <1>7. /\ IsFiniteSet(PlacesOf(u, list)) /\ Cardinality(PlacesOf(u, list)) \in Nat
        /\ Cardinality(A) \in Nat
    BY <1>1, PlacesFinite DEF A
  <1>8. Cardinality(B) = IF Head(u).owner = list THEN Cardinality(PlacesOf(u, list)) - 1
                                                 ELSE Cardinality(PlacesOf(u, list))
    BY <1>6, <1>7, FS_RemoveElement DEF B
  <1> QED BY <1>5, <1>7, <1>8 DEF A

\* What every entry of sync_used satisfies: it goes back to sync_free or sync_back, to
\* the first if it is a report's.
ReportsFree == stat = OPENED => \A i \in 1 .. Len(used) : used[i].cb => used[i].owner = "free"

\* EntriesConserved, in terms of PlacesOf.
Conserved ==
    stat # CLOSED =>
        /\ free + Cardinality(PlacesOf(used, "free")) = NFree
        /\ back + Cardinality(PlacesOf(used, "back")) = NBack

ListsInv == Conserved /\ ReportsFree

\* sock_cleanup's lists: every entry is unused.
LEMMA CleanLists ==
    ASSUME used' = <<>>, free' = NFree, back' = NBack
    PROVE  ListsInv'
  <1>1. PlacesOf(used', "free") = {} /\ PlacesOf(used', "back") = {}
    BY DEF PlacesOf
  <1>2. \A list : PlacesOf(used', list) = {} => Cardinality(PlacesOf(used', list)) = 0
    BY FS_EmptySet
  <1>3. Conserved'
    BY <1>1, <1>2, SockAssumption DEF Conserved
  <1>4. ReportsFree'
    BY DEF ReportsFree
  <1> QED BY <1>3, <1>4 DEF ListsInv

\* A frame takes its entry from sync_free or, if it has no callback, from sync_back.
LEMMA SentLists ==
    ASSUME SockInv, ListsInv, stat = OPENED,
           NEW len \in Nat \ {0}, NEW cb \in BOOLEAN, ~SyncFull(cb), SendWhole(len, cb)
    PROVE  ListsInv'
  <1> DEFINE owner == IF ~cb /\ back > 0 THEN "back" ELSE "free"
             e == [len |-> len, cb |-> cb, owner |-> owner]
  <1>1. used \in Seq(SyncEntry) /\ free \in Nat /\ back \in Nat
    BY DEF SockInv, SockTypeOK
  <1>2. e \in SyncEntry /\ e.owner = owner /\ e.cb = cb
    BY DEF SyncEntry
  <1>3. /\ used' = Append(used, e) /\ stat' = OPENED
        /\ back' = IF owner = "back" THEN back - 1 ELSE back
        /\ free' = IF owner = "free" THEN free - 1 ELSE free
    BY DEF SendWhole
  <1>4. /\ Cardinality(PlacesOf(used', "free")) =
              Cardinality(PlacesOf(used, "free")) + IF owner = "free" THEN 1 ELSE 0
        /\ Cardinality(PlacesOf(used', "back")) =
              Cardinality(PlacesOf(used, "back")) + IF owner = "back" THEN 1 ELSE 0
    BY <1>1, <1>2, <1>3, PlacesSent
  <1>5. Cardinality(PlacesOf(used, "free")) \in Nat /\ Cardinality(PlacesOf(used, "back")) \in Nat
    BY <1>1, PlacesFinite
  <1>6. owner \in {"free", "back"} /\ (cb => owner = "free")
    OBVIOUS
  <1> HIDE DEF owner, e
  <1>7. Conserved'
    <2>1. /\ free + Cardinality(PlacesOf(used, "free")) = NFree
          /\ back + Cardinality(PlacesOf(used, "back")) = NBack
      BY DEF ListsInv, Conserved, OPENED, CLOSED
    <2>2. CASE owner = "free"
      BY <1>1, <1>3, <1>4, <1>5, <2>1, <2>2 DEF Conserved
    <2>3. CASE owner = "back"
      BY <1>1, <1>3, <1>4, <1>5, <2>1, <2>3 DEF Conserved
    <2> QED BY <1>6, <2>2, <2>3
  <1>8. ReportsFree'
    <2>1. /\ Len(used') = Len(used) + 1 /\ used'[Len(used) + 1] = e
          /\ \A i \in 1 .. Len(used) : used'[i] = used[i]
      BY <1>1, <1>2, <1>3
    <2>2. \A i \in 1 .. Len(used) + 1 : i \in 1 .. Len(used) \/ i = Len(used) + 1
      BY <1>1
    <2> QED BY <1>2, <1>6, <2>1, <2>2 DEF ListsInv, ReportsFree
  <1> QED BY <1>7, <1>8 DEF ListsInv

\* A released entry goes back to the list it came from.
LEMMA ReleasedLists ==
    ASSUME SockInv, ListsInv, sock_sync, HeadAcked
    PROVE  ListsInv'
  <1>1. used \in Seq(SyncEntry) /\ free \in Nat /\ back \in Nat /\ used # <<>>
    BY DEF SockInv, SockTypeOK, HeadAcked
  <1> DEFINE owner == Head(used).owner
  <1>2. /\ stat = OPENED /\ stat' = OPENED /\ used' = Tail(used)
        /\ back' = IF owner = "back" THEN back + 1 ELSE back
        /\ free' = IF owner = "free" THEN free + 1 ELSE free
    BY DEF sock_sync
  <1>3. owner \in {"free", "back"}
    BY <1>1, UsedSeq DEF SyncEntry
  <1>4. /\ Cardinality(PlacesOf(used, "free")) =
              Cardinality(PlacesOf(used', "free")) + IF owner = "free" THEN 1 ELSE 0
        /\ Cardinality(PlacesOf(used, "back")) =
              Cardinality(PlacesOf(used', "back")) + IF owner = "back" THEN 1 ELSE 0
    BY <1>1, <1>2, PlacesReleased
  <1>5. Cardinality(PlacesOf(used', "free")) \in Nat /\ Cardinality(PlacesOf(used', "back")) \in Nat
    BY <1>1, <1>2, UsedSeq, PlacesFinite
  <1> HIDE DEF owner
  <1>6. Conserved'
    <2>1. /\ free + Cardinality(PlacesOf(used, "free")) = NFree
          /\ back + Cardinality(PlacesOf(used, "back")) = NBack
      BY <1>2 DEF ListsInv, Conserved, OPENED, CLOSED
    <2>2. CASE owner = "free"
      BY <1>1, <1>2, <1>4, <1>5, <2>1, <2>2 DEF Conserved
    <2>3. CASE owner = "back"
      BY <1>1, <1>2, <1>4, <1>5, <2>1, <2>3 DEF Conserved
    <2> QED BY <1>3, <2>2, <2>3
  <1>7. ReportsFree'
    <2>1. /\ Len(used') = Len(used) - 1 /\ Len(used) \in Nat
          /\ \A i \in 1 .. Len(used) - 1 : used'[i] = used[i + 1]
      BY <1>1, <1>2
    <2>2. \A i \in 1 .. Len(used) - 1 : i + 1 \in 1 .. Len(used)
      BY <2>1
    <2> QED BY <1>2, <2>1, <2>2 DEF ListsInv, ReportsFree
  <1> QED BY <1>6, <1>7 DEF ListsInv

\* Every step keeps the lists sound.
LEMMA ListsKept ==
    ASSUME SockInv, ListsInv, [SockNext]_sockVars
    PROVE  ListsInv'
  <1> USE DEF CLOSED, INPROG, OPENED
  <1>1. CASE UNCHANGED <<stat, used, free, back>>
    BY <1>1 DEF ListsInv, Conserved, ReportsFree
  <1>2. CASE \E a \in Addrs : sock_open(a)
    BY <1>2, CleanLists DEF sock_open, sock_cleanup
  <1>3. CASE \E len \in Lens, cb \in BOOLEAN :
                \E res \in {-1, 0, len} : sock_send(len, cb, res)
    <2>1. PICK len \in Lens, cb \in BOOLEAN : \E res \in {-1, 0, len} : sock_send(len, cb, res)
      BY <1>3
    <2>2. \/ UNCHANGED <<stat, used, free, back>>
          \/ stat = OPENED /\ ~SyncFull(cb) /\ SendWhole(len, cb)
      BY <2>1 DEF sock_send, sockVars, SendPart
    <2>3. len \in Nat \ {0}
      BY SockAssumption
    <2> QED BY <1>1, <2>2, <2>3, SentLists
  <1>4. CASE sock_sync
    BY <1>1, <1>4, ReleasedLists DEF sock_sync
  <1>5. CASE sock_close
    BY <1>5 DEF sock_close, ListsInv, Conserved, ReportsFree
  <1>6. CASE sock_finish
    <2>1. used = <<>> /\ stat = INPROG /\ UNCHANGED <<used, free, back>>
      BY <1>6 DEF SockInv, Connecting, sock_finish
    <2>2. ReportsFree'
      BY <2>1 DEF ReportsFree
    <2> QED BY <2>1, <2>2 DEF ListsInv, Conserved
  <1>7. CASE sock_open_proc \/ TcpBreak \/ \E k \in 1 .. SndBuf : TcpAck(k)
    BY <1>1, <1>7 DEF sock_open_proc, TcpBreak, TcpAck
  <1> QED BY <1>1, <1>2, <1>3, <1>4, <1>5, <1>6, <1>7 DEF SockNext, SockUser, SockEnv, sockVars

\* What ListsInv says of the lists is what the run checks; that reports leave the
\* reserve alone follows from the conservation of entries.
LEMMA ListsSound ==
    ASSUME SockTypeOK, ListsInv
    PROVE  SyncEntriesSound
  <1>1. used \in Seq(SyncEntry) /\ back \in Nat
    BY DEF SockTypeOK
  <1>2. DOMAIN used = 1 .. Len(used)
    BY <1>1
  <1>3. \A list : EntriesOf(list) = PlacesOf(used, list)
    BY <1>2 DEF EntriesOf, PlacesOf
  <1>4. EntriesConserved
    BY <1>3 DEF ListsInv, Conserved, EntriesConserved
  <1>5. ReportsLeaveReserve
    <2> SUFFICES ASSUME stat = OPENED, \A i \in DOMAIN used : used[i].cb
                 PROVE  back = NBack
      BY <1>2 DEF ListsInv, ReportsFree, ReportsLeaveReserve
    <2>1. PlacesOf(used, "back") = {}
      BY <1>2 DEF PlacesOf, ListsInv, ReportsFree
    <2>2. Cardinality(PlacesOf(used, "back")) = 0
      BY <2>1, FS_EmptySet
    <2>3. back + Cardinality(PlacesOf(used, "back")) = NBack
      BY DEF ListsInv, Conserved, OPENED, CLOSED
    <2> QED BY <1>1, <2>2, <2>3
  <1> QED BY <1>4, <1>5 DEF SyncEntriesSound

\* Every sync entry is on exactly one list, the right one, and reports never take the
\* reserve, whatever sends, failures, releases and reconnections come.
THEOREM SyncEntriesAlwaysSound == SockSpec => []SyncEntriesSound
  <1>1. SockInit => ListsInv
    BY DEF SockInit, ListsInv, Conserved, ReportsFree, CLOSED, OPENED
  <1>2. SockInv /\ ListsInv /\ [SockNext]_sockVars => ListsInv'
    BY ListsKept
  <1>3. SockInv /\ ListsInv => SyncEntriesSound
    BY ListsSound DEF SockInv
  <1> QED BY <1>1, <1>2, <1>3, SockInvHolds, PTL DEF SockSpec
=============================================================================
