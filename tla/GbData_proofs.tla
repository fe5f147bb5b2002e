---------------------------- MODULE GbData_proofs ----------------------------
(* Proofs about GbData for every size of the pool, of a recording and of the *)
(* history: the lists stay disjoint.  First what the list operations do to  *)
(* the elements of a list, then what moving packs does to disjoint lists,   *)
(* then each critical section of the two threads.  The second half is about *)
(* the types of the reports and their order.                                *)
EXTENDS GbData, SequenceTheorems, TLAPS

\* What appending does to the elements of a list, and when it keeps them distinct.
LEMMA AppendElems ==
    ASSUME NEW S, NEW s \in Seq(S), NEW e \in S
    PROVE  /\ Append(s, e) \in Seq(S)
           /\ Elems(Append(s, e)) = Elems(s) \cup {e}
           /\ Injective(s) /\ e \notin Elems(s) => Injective(Append(s, e))
  <1>1. /\ Append(s, e) \in Seq(S)
        /\ Len(Append(s, e)) = Len(s) + 1
        /\ Append(s, e)[Len(s) + 1] = e
        /\ \A i \in 1 .. Len(s) : Append(s, e)[i] = s[i]
    OBVIOUS
  <1>2. Len(s) \in Nat
    OBVIOUS
  <1>3. Elems(Append(s, e)) = Elems(s) \cup {e}
    BY <1>1, <1>2 DEF Elems
  <1>4. Injective(s) /\ e \notin Elems(s) => Injective(Append(s, e))
    BY <1>1, <1>2 DEF Injective, Elems
  <1> QED BY <1>1, <1>3, <1>4

\* What removing the first element of a list does.
LEMMA TailElems ==
    ASSUME NEW S, NEW s \in Seq(S), s # <<>>
    PROVE  /\ Tail(s) \in Seq(S)
           /\ Head(s) \in S
           /\ Head(s) \in Elems(s)
           /\ Elems(Tail(s)) \subseteq Elems(s)
           /\ Injective(s) => /\ Injective(Tail(s))
                              /\ Elems(Tail(s)) = Elems(s) \ {Head(s)}
  <1>1. /\ Tail(s) \in Seq(S) /\ Head(s) \in S
        /\ Len(s) \in Nat \ {0}
        /\ Len(Tail(s)) = Len(s) - 1
        /\ Head(s) = s[1]
        /\ \A i \in 1 .. Len(s) - 1 : Tail(s)[i] = s[i + 1]
    OBVIOUS
  <1>2. Head(s) \in Elems(s)
    BY <1>1 DEF Elems
  <1>3. Elems(Tail(s)) \subseteq Elems(s)
    BY <1>1 DEF Elems
  <1>4. ASSUME Injective(s) PROVE Injective(Tail(s))
    BY <1>1, <1>4 DEF Injective
  <1>5. ASSUME Injective(s) PROVE Elems(Tail(s)) = Elems(s) \ {Head(s)}
    <2>1. ASSUME NEW x \in Elems(Tail(s)) PROVE x # Head(s)
      BY <1>1, <1>5, <2>1 DEF Injective, Elems
    <2>2. ASSUME NEW x \in Elems(s), x # Head(s) PROVE x \in Elems(Tail(s))
      <3>1. PICK i \in 1 .. Len(s) : x = s[i]
        BY DEF Elems
      <3>2. i # 1 /\ i - 1 \in 1 .. Len(s) - 1 /\ (i - 1) + 1 = i
        BY <1>1, <2>2, <3>1
      <3>3. x = Tail(s)[i - 1]
        BY <1>1, <3>1, <3>2
      <3> QED BY <1>1, <3>2, <3>3 DEF Elems
    <2> QED BY <1>3, <2>1, <2>2
  <1> QED BY <1>1, <1>2, <1>3, <1>4, <1>5

\* The list without its last element.
LEMMA FrontProps ==
    ASSUME NEW S, NEW s \in Seq(S), s # <<>>
    PROVE  /\ Len(s) \in Nat \ {0}
           /\ Last(s) = s[Len(s)] /\ Last(s) \in S
           /\ Front(s) \in Seq(S)
           /\ Len(Front(s)) = Len(s) - 1
           /\ \A i \in 1 .. Len(s) - 1 : Front(s)[i] = s[i]
  <1>1. Len(s) \in Nat \ {0} /\ \A i \in 1 .. Len(s) : s[i] \in S
    OBVIOUS
  <1>2. Last(s) = s[Len(s)] /\ Last(s) \in S
    BY <1>1 DEF Last
  <1>3. Len(s) - 1 \in Int /\ \A i \in 1 .. Len(s) - 1 : s[i] \in S
    BY <1>1
  <1>4. /\ SubSeq(s, 1, Len(s) - 1) \in Seq(S)
        /\ Len(SubSeq(s, 1, Len(s) - 1)) = IF 1 <= Len(s) - 1 THEN Len(s) - 1 - 1 + 1 ELSE 0
        /\ \A i \in 1 .. Len(s) - 1 - 1 + 1 : SubSeq(s, 1, Len(s) - 1)[i] = s[1 + i - 1]
    BY <1>3, SubSeqProperties
  <1>5. Front(s) \in Seq(S)
    BY <1>4 DEF Front
  <1>6. Len(Front(s)) = Len(s) - 1
    <2>1. Len(Front(s)) = IF 1 <= Len(s) - 1 THEN Len(s) - 1 - 1 + 1 ELSE 0
      BY <1>4 DEF Front
    <2> DEFINE n == Len(s)
               k == Len(Front(s))
    <2>2. n \in Nat \ {0} /\ k = IF 1 <= n - 1 THEN n - 1 - 1 + 1 ELSE 0
      BY <1>1, <2>1
    <2> HIDE DEF n, k
    <2>3. k = n - 1
      BY <2>2
    <2> QED BY <2>3 DEF n, k
  <1>7. ASSUME NEW i \in 1 .. Len(s) - 1 PROVE Front(s)[i] = s[i]
    <2>1. i \in 1 .. Len(s) - 1 - 1 + 1 /\ 1 + i - 1 = i
      BY <1>1
    <2>2. SubSeq(s, 1, Len(s) - 1)[i] = s[1 + i - 1]
      BY <1>4, <2>1
    <2> QED BY <2>1, <2>2 DEF Front
  <1> QED BY <1>1, <1>2, <1>5, <1>6, <1>7

\* What removing the last element of a list does.
LEMMA FrontElems ==
    ASSUME NEW S, NEW s \in Seq(S), s # <<>>
    PROVE  /\ Front(s) \in Seq(S)
           /\ Last(s) \in S
           /\ Last(s) \in Elems(s)
           /\ Elems(Front(s)) \subseteq Elems(s)
           /\ Injective(s) => /\ Injective(Front(s))
                              /\ Elems(Front(s)) = Elems(s) \ {Last(s)}
  <1>1. /\ Len(s) \in Nat \ {0}
        /\ Last(s) = s[Len(s)] /\ Last(s) \in S
        /\ Front(s) \in Seq(S)
        /\ Len(Front(s)) = Len(s) - 1
        /\ \A i \in 1 .. Len(s) - 1 : Front(s)[i] = s[i]
    BY FrontProps
  <1>2. Last(s) \in Elems(s)
    BY <1>1 DEF Elems
  <1>3. Elems(Front(s)) \subseteq Elems(s)
    BY <1>1 DEF Elems
  <1>4. ASSUME Injective(s) PROVE Injective(Front(s))
    BY <1>1, <1>4 DEF Injective
  <1>5. ASSUME Injective(s) PROVE Elems(Front(s)) = Elems(s) \ {Last(s)}
    <2>1. ASSUME NEW x \in Elems(Front(s)) PROVE x # Last(s)
      BY <1>1, <1>5, <2>1 DEF Injective, Elems
    <2>2. ASSUME NEW x \in Elems(s), x # Last(s) PROVE x \in Elems(Front(s))
      <3>1. PICK i \in 1 .. Len(s) : x = s[i]
        BY DEF Elems
      <3>2. i \in 1 .. Len(s) - 1
        BY <1>1, <2>2, <3>1
      <3> QED BY <1>1, <3>1, <3>2 DEF Elems
    <2> QED BY <1>3, <2>1, <2>2
  <1> QED BY <1>1, <1>2, <1>3, <1>4, <1>5

\* Two disjoint lists without repetition make one.
LEMMA ConcatElems ==
    ASSUME NEW S, NEW s \in Seq(S), NEW t \in Seq(S)
    PROVE  /\ s \o t \in Seq(S)
           /\ Elems(s \o t) = Elems(s) \cup Elems(t)
           /\ Injective(s) /\ Injective(t) /\ Elems(s) \cap Elems(t) = {}
                => Injective(s \o t)
  <1>1. /\ s \o t \in Seq(S)
        /\ Len(s) \in Nat /\ Len(t) \in Nat
        /\ Len(s \o t) = Len(s) + Len(t)
        /\ \A i \in 1 .. Len(s) : (s \o t)[i] = s[i]
        /\ \A i \in 1 .. Len(t) : (s \o t)[Len(s) + i] = t[i]
        /\ \A i \in Len(s) + 1 .. Len(s) + Len(t) : (s \o t)[i] = t[i - Len(s)]
    OBVIOUS
  <1> DEFINE u == s \o t
             m == Len(s)
             n == Len(t)
  <1>2. /\ m \in Nat /\ n \in Nat /\ Len(u) = m + n
        /\ \A i \in 1 .. m : u[i] = s[i]
        /\ \A i \in 1 .. n : u[m + i] = t[i]
        /\ \A i \in m + 1 .. m + n : u[i] = t[i - m]
    BY <1>1
  <1>3. Elems(u) = {u[i] : i \in 1 .. m + n} /\ Elems(s) = {s[i] : i \in 1 .. m}
        /\ Elems(t) = {t[i] : i \in 1 .. n}
    BY <1>2 DEF Elems
  <1> HIDE DEF u, m, n
  <1>4. Elems(u) = Elems(s) \cup Elems(t)
    <2>1. ASSUME NEW x \in Elems(u) PROVE x \in Elems(s) \cup Elems(t)
      <3>1. PICK i \in 1 .. m + n : x = u[i]
        BY <1>3
      <3>2. CASE i <= m
        BY <1>2, <1>3, <3>1, <3>2
      <3>3. CASE i > m
        <4>1. i \in m + 1 .. m + n /\ i - m \in 1 .. n
          BY <1>2, <3>3
        <4> QED BY <1>2, <1>3, <3>1, <4>1
      <3> QED BY <1>2, <3>2, <3>3
    <2>2. ASSUME NEW x \in Elems(s) PROVE x \in Elems(u)
      BY <1>2, <1>3
    <2>3. ASSUME NEW x \in Elems(t) PROVE x \in Elems(u)
      <3>1. PICK i \in 1 .. n : x = t[i]
        BY <1>3
      <3>2. m + i \in 1 .. m + n
        BY <1>2
      <3> QED BY <1>2, <1>3, <3>1, <3>2
    <2> QED BY <2>1, <2>2, <2>3
  <1>5. ASSUME Injective(s), Injective(t), Elems(s) \cap Elems(t) = {}
        PROVE  Injective(u)
    <2> SUFFICES ASSUME NEW i \in 1 .. m + n, NEW j \in 1 .. m + n, u[i] = u[j]
                 PROVE  i = j
      BY <1>2 DEF Injective
    <2>1. CASE i <= m /\ j <= m
      BY <1>2, <1>5, <2>1 DEF Injective, m
    <2>2. CASE i > m /\ j > m
      <3>1. /\ i - m \in 1 .. n /\ j - m \in 1 .. n
            /\ u[i] = t[i - m] /\ u[j] = t[j - m]
        BY <1>2, <2>2
      <3>2. i - m = j - m
        BY <1>5, <3>1 DEF Injective, n
      <3> QED BY <1>2, <3>2
    <2>3. CASE i <= m /\ j > m
      <3>1. u[i] \in Elems(s)
        BY <1>2, <1>3, <2>3
      <3>2. j - m \in 1 .. n /\ u[j] = t[j - m]
        BY <1>2, <2>3
      <3>3. u[j] \in Elems(t)
        BY <1>3, <3>2
      <3> QED BY <1>5, <3>1, <3>3
    <2>4. CASE i > m /\ j <= m
      <3>1. u[j] \in Elems(s)
        BY <1>2, <1>3, <2>4
      <3>2. i - m \in 1 .. n /\ u[i] = t[i - m]
        BY <1>2, <2>4
      <3>3. u[i] \in Elems(t)
        BY <1>3, <3>2
      <3> QED BY <1>5, <3>1, <3>3
    <2> QED BY <1>2, <2>1, <2>2, <2>3, <2>4
  <1> QED BY <1>1, <1>4, <1>5 DEF u

\* What inserting at the front of a list does.
LEMMA PrependElems ==
    ASSUME NEW S, NEW s \in Seq(S), NEW e \in S
    PROVE  /\ <<e>> \o s \in Seq(S)
           /\ Elems(<<e>> \o s) = Elems(s) \cup {e}
           /\ Injective(s) /\ e \notin Elems(s) => Injective(<<e>> \o s)
  <1>1. <<e>> \in Seq(S) /\ Elems(<<e>>) = {e} /\ Injective(<<e>>)
    BY DEF Elems, Injective
  <1>2. /\ <<e>> \o s \in Seq(S)
        /\ Elems(<<e>> \o s) = Elems(<<e>>) \cup Elems(s)
        /\ Injective(<<e>>) /\ Injective(s) /\ Elems(<<e>>) \cap Elems(s) = {}
             => Injective(<<e>> \o s)
    BY <1>1, ConcatElems
  <1> QED BY <1>1, <1>2

-----------------------------------------------------------------------------
(* Moving packs between lists.                                             *)

\* No pack is in two of the lists f, twice in one of them, or on a list while
\* it is h, the pack being sent.
Clean(f, h) ==
    /\ \A l \in Lists : Injective(f[l])
    /\ \A l, m \in Lists : l # m => Elems(f[l]) \cap Elems(f[m]) = {}
    /\ \A l \in Lists : h \notin Elems(f[l])

\* Clean is OnePlace without its history variable.
LEMMA OnePlaceIsClean == OnePlace <=> (~torn => Clean(lst, hold))
  BY DEF OnePlace, Clean

\* One pack moves from a list to another.
LEMMA MoveClean ==
    ASSUME NEW f, NEW g, NEW h, Clean(f, h),
           NEW a \in Lists, NEW b \in Lists, a # b, NEW x \in Elems(f[a]),
           Injective(g[a]), Elems(g[a]) = Elems(f[a]) \ {x},
           Injective(g[b]), Elems(g[b]) = Elems(f[b]) \cup {x},
           \A l \in Lists \ {a, b} : g[l] = f[l]
    PROVE  Clean(g, h)
  <1>1. \A l \in Lists : Injective(g[l])
    BY DEF Clean
  <1>2. \A l, m \in Lists : l # m => Elems(g[l]) \cap Elems(g[m]) = {}
    <2> SUFFICES ASSUME NEW l \in Lists, NEW m \in Lists, l # m,
                        NEW y, y \in Elems(g[l]), y \in Elems(g[m])
                 PROVE  FALSE
      OBVIOUS
    <2>1. \A k \in Lists : k # b => Elems(g[k]) \subseteq Elems(f[k])
      OBVIOUS
    <2>2. \A k \in Lists : k # b => x \notin Elems(g[k])
      BY DEF Clean
    <2> QED BY <2>1, <2>2 DEF Clean
  <1>3. \A l \in Lists : h \notin Elems(g[l])
    BY DEF Clean
  <1> QED BY <1>1, <1>2, <1>3 DEF Clean

\* A list is rearranged.
LEMMA SameClean ==
    ASSUME NEW f, NEW g, NEW h, Clean(f, h), NEW a \in Lists,
           Injective(g[a]), Elems(g[a]) = Elems(f[a]),
           \A l \in Lists \ {a} : g[l] = f[l]
    PROVE  Clean(g, h)
  <1>1. \A l \in Lists : Elems(g[l]) = Elems(f[l]) /\ Injective(g[l])
    BY DEF Clean
  <1> QED BY <1>1 DEF Clean

\* The protocol thread takes a pack.
LEMMA TakeClean ==
    ASSUME NEW f, NEW g, NEW h, Clean(f, h),
           NEW a \in Lists, NEW x \in Elems(f[a]),
           Injective(g[a]), Elems(g[a]) = Elems(f[a]) \ {x},
           \A l \in Lists \ {a} : g[l] = f[l]
    PROVE  Clean(g, x)
  <1>1. \A l \in Lists : Injective(g[l])
    BY DEF Clean
  <1>2. \A l \in Lists : Elems(g[l]) \subseteq Elems(f[l]) /\ x \notin Elems(g[l])
    BY DEF Clean
  <1> QED BY <1>1, <1>2 DEF Clean

\* The protocol thread disposes of the pack it holds.
LEMMA PutClean ==
    ASSUME NEW f, NEW g, NEW h, NEW k, Clean(f, h), NEW b \in Lists,
           Injective(g[b]), Elems(g[b]) = Elems(f[b]) \cup {h},
           \A l \in Lists \ {b} : g[l] = f[l],
           \A l \in Lists : k \notin Elems(g[l])
    PROVE  Clean(g, k)
  <1>1. \A l \in Lists : Injective(g[l])
    BY DEF Clean
  <1>2. \A l, m \in Lists : l # m => Elems(g[l]) \cap Elems(g[m]) = {}
    <2> SUFFICES ASSUME NEW l \in Lists, NEW m \in Lists, l # m,
                        NEW y, y \in Elems(g[l]), y \in Elems(g[m])
                 PROVE  FALSE
      OBVIOUS
    <2>1. \A n \in Lists : n # b => Elems(g[n]) = Elems(f[n]) /\ h \notin Elems(g[n])
      BY DEF Clean
    <2> QED BY <2>1 DEF Clean
  <1> QED BY <1>1, <1>2 DEF Clean

\* A list is emptied into another.
LEMMA PourClean ==
    ASSUME NEW f, NEW g, NEW h, Clean(f, h),
           NEW a \in Lists, NEW b \in Lists, a # b,
           Injective(g[a]), Elems(g[a]) = {},
           Injective(g[b]), Elems(g[b]) = Elems(f[b]) \cup Elems(f[a]),
           \A l \in Lists \ {a, b} : g[l] = f[l]
    PROVE  Clean(g, h)
  <1>1. \A l \in Lists : Injective(g[l])
    BY DEF Clean
  <1>2. \A l, m \in Lists : l # m => Elems(g[l]) \cap Elems(g[m]) = {}
    <2> SUFFICES ASSUME NEW l \in Lists, NEW m \in Lists, l # m,
                        NEW y, y \in Elems(g[l]), y \in Elems(g[m])
                 PROVE  FALSE
      OBVIOUS
    <2>1. \A n \in Lists : n # b => Elems(g[n]) \subseteq Elems(f[n])
      OBVIOUS
    <2> QED BY <2>1 DEF Clean
  <1>3. \A l \in Lists : h \notin Elems(g[l])
    BY DEF Clean
  <1> QED BY <1>1, <1>2, <1>3 DEF Clean

\* An emptied list has no elements.
LEMMA EmptyElems == Injective(<<>>) /\ Elems(<<>>) = {}
  BY DEF Injective, Elems

-----------------------------------------------------------------------------
(* The operations on the lists.                                            *)

\* The part of the types that the lists need.
PoolType ==
    /\ lst \in [Lists -> Seq(Packs)]
    /\ home \in [Packs -> {"realtm", "delay"}]
    /\ hold \in Packs \cup {NoPack}

\* The inductive invariant of the lists.
PoolInv == PoolType /\ OnePlace

\* NoPack is not the number of a pack.
LEMMA NoPackIsNone == NoPack \notin Packs
  BY DataAssumption DEF NoPack, Packs

\* Nothing is sent, or what is sent is on no list.
LEMMA NoPackClean ==
    ASSUME NEW f \in [Lists -> Seq(Packs)]
    PROVE  \A l \in Lists : NoPack \notin Elems(f[l])
  <1> SUFFICES ASSUME NEW l \in Lists PROVE Elems(f[l]) \subseteq Packs
    BY NoPackIsNone
  <1>1. f[l] \in Seq(Packs)
    OBVIOUS
  <1> QED BY <1>1 DEF Elems

\* Steps that leave the lists and the pack being sent alone.
LEMMA PoolUnchanged ==
    ASSUME PoolInv, UNCHANGED <<lst, home, hold, torn>>
    PROVE  PoolInv'
  BY DEF PoolInv, PoolType, OnePlace

\* gb_data_clear_report puts every pack on the free list; a pack outside the
\* lists at that moment makes the pool torn.
LEMMA ClearKeepsPool ==
    ASSUME PoolInv, ~torn, ClearReport, UNCHANGED <<home, hold>>
    PROVE  PoolInv'
  <1> DEFINE all == [i \in 1 .. NPack |-> i]
  <1>1. /\ all \in Seq(Packs)
        /\ Injective(all)
    BY DataAssumption DEF Packs, Injective
  <1>2. <<>> \in Seq(Packs)
    OBVIOUS
  <1>3. lst["tmp"] \in Seq(Packs)
    BY DEF PoolInv, PoolType, Lists
  <1>4. PoolType'
    BY <1>1, <1>2, <1>3 DEF ClearReport, PoolInv, PoolType
  <1>5. ASSUME ~torn' PROVE Clean(lst', hold')
    <2>1. lst["tmp"] = <<>> /\ hold = NoPack
      BY <1>5 DEF ClearReport
    <2>2. \A l \in Lists : lst'[l] = IF l = "free" THEN all ELSE <<>>
      BY <2>1 DEF ClearReport
    <2>3. \A l \in Lists : Injective(lst'[l])
      BY <1>1, <2>2, EmptyElems
    <2>4. \A l \in Lists : l # "free" => Elems(lst'[l]) = {}
      BY <2>2, EmptyElems
    <2>5. \A l \in Lists : hold' \notin Elems(lst'[l])
      BY <1>4, <2>1, NoPackClean DEF PoolType
    <2> QED BY <2>3, <2>4, <2>5 DEF Clean
  <1> QED BY <1>4, <1>5 DEF PoolInv, OnePlace, Clean

\* gb_data_flush_realtm, and the end of gb_data_flush_error.
LEMMA PourKeepsPool ==
    ASSUME PoolInv, ~torn, NEW a \in Lists, NEW b \in Lists, a # b,
           lst' \in [Lists -> Seq(Packs)],
           lst'[a] = <<>>, lst'[b] = lst[b] \o lst[a],
           \A l \in Lists \ {a, b} : lst'[l] = lst[l],
           home' \in [Packs -> {"realtm", "delay"}],
           UNCHANGED <<hold, torn>>
    PROVE  PoolInv'
  <1>1. lst \in [Lists -> Seq(Packs)] /\ Clean(lst, hold)
    BY OnePlaceIsClean DEF PoolInv, PoolType
  <1>2. lst[a] \in Seq(Packs) /\ lst[b] \in Seq(Packs)
    BY <1>1
  <1>3. /\ Injective(lst[a]) /\ Injective(lst[b])
        /\ Elems(lst[b]) \cap Elems(lst[a]) = {}
    BY <1>1 DEF Clean
  <1>4. /\ Elems(lst[b] \o lst[a]) = Elems(lst[b]) \cup Elems(lst[a])
        /\ Injective(lst[b] \o lst[a])
    BY <1>2, <1>3, ConcatElems
  <1>5. Injective(lst'[a]) /\ Elems(lst'[a]) = {}
    BY EmptyElems
  <1>6. Injective(lst'[b]) /\ Elems(lst'[b]) = Elems(lst[b]) \cup Elems(lst[a])
    BY <1>4
  <1>7. Clean(lst', hold)
    BY <1>1, <1>5, <1>6, PourClean
  <1> QED BY <1>1, <1>7 DEF PoolInv, PoolType, OnePlace, Clean

\* A buffer is taken from the list that gives way and put on list b.
LEMMA BufferKeepsPool ==
    ASSUME PoolInv, ~torn, NEW a \in Lists, NEW b \in Lists, lst[a] # <<>>,
           lst' \in [Lists -> Seq(Packs)],
           Injective(lst'[b]),
           a # b => /\ lst'[a] = Tail(lst[a])
                    /\ Elems(lst'[b]) = Elems(lst[b]) \cup {Head(lst[a])},
           a = b => Elems(lst'[b]) = Elems(lst[b]),
           \A l \in Lists \ {a, b} : lst'[l] = lst[l],
           home' \in [Packs -> {"realtm", "delay"}],
           UNCHANGED <<hold, torn>>
    PROVE  PoolInv'
  <1>1. lst \in [Lists -> Seq(Packs)] /\ Clean(lst, hold)
    BY OnePlaceIsClean DEF PoolInv, PoolType
  <1>2. lst[a] \in Seq(Packs) /\ Injective(lst[a])
    BY <1>1 DEF Clean
  <1>3. /\ Head(lst[a]) \in Elems(lst[a])
        /\ Injective(Tail(lst[a]))
        /\ Elems(Tail(lst[a])) = Elems(lst[a]) \ {Head(lst[a])}
    BY <1>2, TailElems
  <1>4. ASSUME a # b PROVE Clean(lst', hold)
    <2>1. Injective(lst'[a]) /\ Elems(lst'[a]) = Elems(lst[a]) \ {Head(lst[a])}
      BY <1>3, <1>4
    <2>2. Elems(lst'[b]) = Elems(lst[b]) \cup {Head(lst[a])}
      BY <1>4
    <2> QED BY <1>1, <1>3, <1>4, <2>1, <2>2, MoveClean
  <1>5. ASSUME a = b PROVE Clean(lst', hold)
    BY <1>1, <1>5, SameClean
  <1> QED BY <1>1, <1>4, <1>5 DEF PoolInv, PoolType, OnePlace, Clean

\* The list that gives way, and the pack it gives.
LEMMA BufferFacts ==
    ASSUME PoolInv, ~torn, BufferFrom # "none"
    PROVE  /\ BufferFrom \in Lists \ {"tmp", "trans"}
           /\ lst \in [Lists -> Seq(Packs)] /\ Clean(lst, hold)
           /\ lst[BufferFrom] # <<>> /\ lst[BufferFrom] \in Seq(Packs)
           /\ Head(lst[BufferFrom]) \in Packs
           /\ Head(lst[BufferFrom]) \in Elems(lst[BufferFrom])
           /\ Tail(lst[BufferFrom]) \in Seq(Packs)
           /\ Injective(Tail(lst[BufferFrom]))
           /\ Elems(Tail(lst[BufferFrom])) =
                 Elems(lst[BufferFrom]) \ {Head(lst[BufferFrom])}
  <1>1. BufferFrom \in Lists \ {"tmp", "trans"} /\ lst[BufferFrom] # <<>>
    BY DEF BufferFrom, Lists
  <1>2. lst \in [Lists -> Seq(Packs)] /\ Clean(lst, hold)
    BY OnePlaceIsClean DEF PoolInv, PoolType
  <1>3. lst[BufferFrom] \in Seq(Packs) /\ Injective(lst[BufferFrom])
    BY <1>1, <1>2 DEF Clean
  <1> QED BY <1>1, <1>2, <1>3, TailElems

\* An iteration of gb_data_save_realtm; the buffer may come from the real-time
\* list itself.
LEMMA SaveKeepsPool ==
    ASSUME PoolInv, ~torn, SaveRealtm
    PROVE  PoolInv'
  <1> DEFINE a == BufferFrom
             p == Head(lst[a])
  <1>1. a # "none"
    BY DEF SaveRealtm
  <1>2. /\ a \in Lists \ {"tmp", "trans"}
        /\ lst \in [Lists -> Seq(Packs)] /\ Clean(lst, hold)
        /\ lst[a] # <<>> /\ p \in Packs /\ p \in Elems(lst[a])
        /\ Tail(lst[a]) \in Seq(Packs) /\ Injective(Tail(lst[a]))
        /\ Elems(Tail(lst[a])) = Elems(lst[a]) \ {p}
    BY <1>1, BufferFacts
  <1>3. "realtm" \in Lists
    BY DEF Lists
  <1>4. home' \in [Packs -> {"realtm", "delay"}]
    BY <1>2 DEF SaveRealtm, PoolInv, PoolType
  <1>5. UNCHANGED <<hold, torn>>
    BY DEF SaveRealtm
  <1>6. lst' = [lst EXCEPT ![a] = Tail(@), !["realtm"] = Append(@, p)]
    BY DEF SaveRealtm
  <1> HIDE DEF p, a
  <1> DEFINE s == IF a = "realtm" THEN Tail(lst[a]) ELSE lst["realtm"]
  <1>7. /\ s \in Seq(Packs) /\ Injective(s) /\ p \notin Elems(s)
        /\ a = "realtm" => Elems(s) \cup {p} = Elems(lst["realtm"])
    BY <1>2, <1>3 DEF Clean
  <1>8. /\ lst'["realtm"] = Append(s, p)
        /\ a # "realtm" => lst'[a] = Tail(lst[a])
        /\ \A l \in Lists \ {a, "realtm"} : lst'[l] = lst[l]
    BY <1>2, <1>3, <1>6
  <1>9. a # "realtm" => s = lst["realtm"]
    OBVIOUS
  <1> HIDE DEF s
  <1>10. /\ Append(s, p) \in Seq(Packs) /\ Injective(Append(s, p))
         /\ Elems(Append(s, p)) = Elems(s) \cup {p}
    BY <1>2, <1>7, AppendElems
  <1>11. lst' \in [Lists -> Seq(Packs)]
    <2>1. \A l \in Lists : lst'[l] \in Seq(Packs)
      BY <1>2, <1>8, <1>10
    <2>2. lst' = [l \in Lists |-> lst'[l]]
      BY <1>2, <1>6
    <2> QED BY <2>1, <2>2
  <1>12. /\ Injective(lst'["realtm"])
         /\ a # "realtm" => Elems(lst'["realtm"]) = Elems(lst["realtm"]) \cup {p}
         /\ a = "realtm" => Elems(lst'["realtm"]) = Elems(lst["realtm"])
    BY <1>7, <1>8, <1>9, <1>10
  <1> QED BY <1>2, <1>3, <1>4, <1>5, <1>8, <1>11, <1>12, BufferKeepsPool DEF p

\* An iteration of gb_data_flush_error; the buffer never comes from tmplst.
LEMMA CopyKeepsPool ==
    ASSUME PoolInv, ~torn, FlushErrorCopy
    PROVE  PoolInv'
  <1> DEFINE a == BufferFrom
             p == Head(lst[a])
             s == lst["tmp"]
  <1>1. a # "none"
    BY DEF FlushErrorCopy
  <1>2. /\ a \in Lists /\ a # "tmp"
        /\ lst \in [Lists -> Seq(Packs)] /\ Clean(lst, hold)
        /\ lst[a] # <<>> /\ p \in Packs /\ p \in Elems(lst[a])
        /\ Tail(lst[a]) \in Seq(Packs)
    BY <1>1, BufferFacts
  <1>3. "tmp" \in Lists
    BY DEF Lists
  <1>4. home' \in [Packs -> {"realtm", "delay"}]
    BY <1>2 DEF FlushErrorCopy, PoolInv, PoolType
  <1>5. UNCHANGED <<hold, torn>>
    BY DEF FlushErrorCopy
  <1>6. lst' = [lst EXCEPT ![a] = Tail(@), !["tmp"] = <<p>> \o @]
    BY DEF FlushErrorCopy
  <1> HIDE DEF p, a
  <1>7. s \in Seq(Packs) /\ Injective(s) /\ p \notin Elems(s)
    BY <1>2, <1>3 DEF Clean
  <1>8. /\ lst'["tmp"] = <<p>> \o s
        /\ lst'[a] = Tail(lst[a])
        /\ \A l \in Lists \ {a, "tmp"} : lst'[l] = lst[l]
    BY <1>2, <1>3, <1>6
  <1> HIDE DEF s
  <1>10. /\ <<p>> \o s \in Seq(Packs) /\ Injective(<<p>> \o s)
         /\ Elems(<<p>> \o s) = Elems(s) \cup {p}
    BY <1>2, <1>7, PrependElems
  <1>11. lst' \in [Lists -> Seq(Packs)]
    <2>1. \A l \in Lists : lst'[l] \in Seq(Packs)
      BY <1>2, <1>8, <1>10
    <2>2. lst' = [l \in Lists |-> lst'[l]]
      BY <1>2, <1>6
    <2> QED BY <2>1, <2>2
  <1>12. Injective(lst'["tmp"]) /\ Elems(lst'["tmp"]) = Elems(lst["tmp"]) \cup {p}
    BY <1>8, <1>10 DEF s
  <1> QED BY <1>2, <1>3, <1>4, <1>5, <1>8, <1>11, <1>12, BufferKeepsPool DEF p

\* The end of gb_data_flush_error.
LEMMA SpliceKeepsPool ==
    ASSUME PoolInv, ~torn, FlushErrorSplice
    PROVE  PoolInv'
  <1>1. "tmp" \in Lists /\ "delay" \in Lists /\ lst \in [Lists -> Seq(Packs)]
    BY DEF PoolInv, PoolType, Lists
  <1>2. /\ lst' = [lst EXCEPT !["delay"] = @ \o lst["tmp"], !["tmp"] = <<>>]
        /\ UNCHANGED <<home, hold, torn>>
    BY DEF FlushErrorSplice
  <1>3. /\ lst' \in [Lists -> Seq(Packs)]
        /\ lst'["tmp"] = <<>> /\ lst'["delay"] = lst["delay"] \o lst["tmp"]
        /\ \A l \in Lists \ {"tmp", "delay"} : lst'[l] = lst[l]
    <2>1. /\ lst'["tmp"] = <<>> /\ lst'["delay"] = lst["delay"] \o lst["tmp"]
          /\ \A l \in Lists \ {"tmp", "delay"} : lst'[l] = lst[l]
      BY <1>1, <1>2
    <2>2. lst["delay"] \in Seq(Packs) /\ lst["tmp"] \in Seq(Packs)
      BY <1>1
    <2>3. lst["delay"] \o lst["tmp"] \in Seq(Packs) /\ <<>> \in Seq(Packs)
      BY <2>2
    <2>4. lst' \in [Lists -> Seq(Packs)]
      BY <1>1, <1>2, <2>3
    <2> QED BY <2>1, <2>4
  <1>4. home' \in [Packs -> {"realtm", "delay"}]
    BY <1>2 DEF PoolInv, PoolType
  <1> QED BY <1>1, <1>2, <1>3, <1>4, PourKeepsPool

\* gb_data_flush_realtm, called by either thread.
LEMMA FlushRealtmKeepsPool ==
    ASSUME PoolInv, ~torn, FlushRealtm, UNCHANGED <<hold, torn>>
    PROVE  PoolInv'
  <1>1. "realtm" \in Lists /\ "delay" \in Lists /\ lst \in [Lists -> Seq(Packs)]
    BY DEF PoolInv, PoolType, Lists
  <1>2. lst' = [lst EXCEPT !["delay"] = @ \o lst["realtm"], !["realtm"] = <<>>]
    BY DEF FlushRealtm
  <1>3. /\ lst' \in [Lists -> Seq(Packs)]
        /\ lst'["realtm"] = <<>> /\ lst'["delay"] = lst["delay"] \o lst["realtm"]
        /\ \A l \in Lists \ {"realtm", "delay"} : lst'[l] = lst[l]
    <2>1. /\ lst'["realtm"] = <<>> /\ lst'["delay"] = lst["delay"] \o lst["realtm"]
          /\ \A l \in Lists \ {"realtm", "delay"} : lst'[l] = lst[l]
      BY <1>1, <1>2
    <2>2. lst["delay"] \in Seq(Packs) /\ lst["realtm"] \in Seq(Packs)
      BY <1>1
    <2>3. lst["delay"] \o lst["realtm"] \in Seq(Packs) /\ <<>> \in Seq(Packs)
      BY <2>2
    <2>4. lst' \in [Lists -> Seq(Packs)]
      BY <1>1, <1>2, <2>3
    <2> QED BY <2>1, <2>4
  <1>4. home' \in [Packs -> {"realtm", "delay"}]
    BY DEF FlushRealtm, PoolInv, PoolType
  <1> QED BY <1>1, <1>3, <1>4, PourKeepsPool

\* gb_data_get_pack, from list a.
LEMMA TakeKeepsPool ==
    ASSUME PoolInv, ~torn, NEW a \in Lists, NEW x \in Packs, x \in Elems(lst[a]),
           NEW s \in Seq(Packs), Injective(s), Elems(s) = Elems(lst[a]) \ {x},
           lst' = [lst EXCEPT ![a] = s], hold' = x,
           UNCHANGED <<home, torn>>
    PROVE  PoolInv'
  <1>1. lst \in [Lists -> Seq(Packs)] /\ Clean(lst, hold)
    BY OnePlaceIsClean DEF PoolInv, PoolType
  <1>2. /\ lst' \in [Lists -> Seq(Packs)]
        /\ lst'[a] = s /\ \A l \in Lists \ {a} : lst'[l] = lst[l]
    BY <1>1
  <1>3. Injective(lst'[a]) /\ Elems(lst'[a]) = Elems(lst[a]) \ {x}
    BY <1>2
  <1>4. Clean(lst', x)
    BY <1>1, <1>2, <1>3, TakeClean
  <1> QED BY <1>2, <1>4 DEF PoolInv, PoolType, OnePlace, Clean

\* gb_data_get_pack, from either list and either end.
LEMMA GetKeepsPool ==
    ASSUME PoolInv, ~torn, gb_data_get_pack
    PROVE  PoolInv'
  <1>1. lst \in [Lists -> Seq(Packs)] /\ Clean(lst, hold)
    BY OnePlaceIsClean DEF PoolInv, PoolType
  <1>2. "realtm" \in Lists /\ "delay" \in Lists
    BY DEF Lists
  <1>3. UNCHANGED <<home, torn>>
    BY DEF gb_data_get_pack
  <1>4. ASSUME NEW a \in Lists, lst[a] # <<>>,
               hold' = Head(lst[a]), lst' = [lst EXCEPT ![a] = Tail(@)]
        PROVE  PoolInv'
    <2>1. lst[a] \in Seq(Packs) /\ Injective(lst[a])
      BY <1>1 DEF Clean
    <2>2. /\ Tail(lst[a]) \in Seq(Packs) /\ Head(lst[a]) \in Packs
          /\ Head(lst[a]) \in Elems(lst[a]) /\ Injective(Tail(lst[a]))
          /\ Elems(Tail(lst[a])) = Elems(lst[a]) \ {Head(lst[a])}
      BY <1>4, <2>1, TailElems
    <2>3. lst' = [lst EXCEPT ![a] = Tail(lst[a])]
      BY <1>4
    <2> QED BY <1>3, <1>4, <2>2, <2>3, TakeKeepsPool
  <1>5. ASSUME NEW a \in Lists, lst[a] # <<>>,
               hold' = Last(lst[a]), lst' = [lst EXCEPT ![a] = Front(@)]
        PROVE  PoolInv'
    <2>1. lst[a] \in Seq(Packs) /\ Injective(lst[a])
      BY <1>1 DEF Clean
    <2>2. /\ Front(lst[a]) \in Seq(Packs) /\ Last(lst[a]) \in Packs
          /\ Last(lst[a]) \in Elems(lst[a]) /\ Injective(Front(lst[a]))
          /\ Elems(Front(lst[a])) = Elems(lst[a]) \ {Last(lst[a])}
      BY <1>5, <2>1, FrontElems
    <2>3. lst' = [lst EXCEPT ![a] = Front(lst[a])]
      BY <1>5
    <2> QED BY <1>3, <1>5, <2>2, <2>3, TakeKeepsPool
  <1> QED BY <1>2, <1>4, <1>5 DEF gb_data_get_pack

\* gb_data_put_back and gb_data_put_send, on list b.
LEMMA PutKeepsPool ==
    ASSUME PoolInv, ~torn, NEW b \in Lists, NEW s \in Seq(Packs), Injective(s),
           Elems(s) = Elems(lst[b]) \cup {hold},
           lst' = [lst EXCEPT ![b] = s], hold' = NoPack,
           UNCHANGED <<home, torn>>
    PROVE  PoolInv'
  <1>1. lst \in [Lists -> Seq(Packs)] /\ Clean(lst, hold)
    BY OnePlaceIsClean DEF PoolInv, PoolType
  <1>2. /\ lst' \in [Lists -> Seq(Packs)]
        /\ lst'[b] = s /\ \A l \in Lists \ {b} : lst'[l] = lst[l]
    BY <1>1
  <1>3. Injective(lst'[b]) /\ Elems(lst'[b]) = Elems(lst[b]) \cup {hold}
    BY <1>2
  <1>4. \A l \in Lists : NoPack \notin Elems(lst'[l])
    BY <1>2, NoPackClean
  <1>5. Clean(lst', NoPack)
    BY <1>1, <1>2, <1>3, <1>4, PutClean
  <1> QED BY <1>2, <1>5 DEF PoolInv, PoolType, OnePlace, Clean

\* gb_data_put_back returns the pack to the list it came from.
LEMMA PutBackKeepsPool ==
    ASSUME PoolInv, ~torn, hold # NoPack, gb_data_put_back
    PROVE  PoolInv'
  <1> DEFINE b == home[hold]
  <1>1. lst \in [Lists -> Seq(Packs)] /\ Clean(lst, hold)
    BY OnePlaceIsClean DEF PoolInv, PoolType
  <1>2. hold \in Packs /\ b \in Lists
    BY DEF PoolInv, PoolType, Lists
  <1>3. lst' = [lst EXCEPT ![b] = <<hold>> \o lst[b]]
    BY DEF gb_data_put_back
  <1>4. hold' = NoPack /\ UNCHANGED <<home, torn>>
    BY DEF gb_data_put_back
  <1> HIDE DEF b
  <1>5. lst[b] \in Seq(Packs) /\ Injective(lst[b]) /\ hold \notin Elems(lst[b])
    BY <1>1, <1>2 DEF Clean
  <1>6. /\ <<hold>> \o lst[b] \in Seq(Packs) /\ Injective(<<hold>> \o lst[b])
        /\ Elems(<<hold>> \o lst[b]) = Elems(lst[b]) \cup {hold}
    BY <1>2, <1>5, PrependElems
  <1> QED BY <1>2, <1>3, <1>4, <1>6, PutKeepsPool

\* gb_data_put_send.
LEMMA PutSendKeepsPool ==
    ASSUME PoolInv, ~torn, hold # NoPack, gb_data_put_send
    PROVE  PoolInv'
  <1> DEFINE b == "trans"
  <1>1. lst \in [Lists -> Seq(Packs)] /\ Clean(lst, hold)
    BY OnePlaceIsClean DEF PoolInv, PoolType
  <1>2. hold \in Packs /\ b \in Lists
    BY DEF PoolInv, PoolType, Lists
  <1>3. lst' = [lst EXCEPT ![b] = Append(lst[b], hold)]
    BY DEF gb_data_put_send
  <1>4. hold' = NoPack /\ UNCHANGED <<home, torn>>
    BY DEF gb_data_put_send
  <1> HIDE DEF b
  <1>5. lst[b] \in Seq(Packs) /\ Injective(lst[b]) /\ hold \notin Elems(lst[b])
    BY <1>1, <1>2 DEF Clean
  <1>6. /\ Append(lst[b], hold) \in Seq(Packs) /\ Injective(Append(lst[b], hold))
        /\ Elems(Append(lst[b], hold)) = Elems(lst[b]) \cup {hold}
    BY <1>2, <1>5, AppendElems
  <1> QED BY <1>2, <1>3, <1>4, <1>6, PutKeepsPool

\* gb_do_report without room in the socket: the pack is on no list afterwards.
LEMMA ForgetKeepsPool ==
    ASSUME PoolInv, ~torn, ForgetPack
    PROVE  PoolInv'
  <1>1. hold' = NoPack /\ UNCHANGED <<lst, home, torn>>
    BY DEF ForgetPack
  <1>2. lst \in [Lists -> Seq(Packs)] /\ Clean(lst, hold)
    BY OnePlaceIsClean DEF PoolInv, PoolType
  <1>3. \A l \in Lists : NoPack \notin Elems(lst[l])
    BY <1>2, NoPackClean
  <1>4. Clean(lst, NoPack)
    BY <1>2, <1>3 DEF Clean
  <1> QED BY <1>1, <1>4 DEF PoolInv, PoolType, OnePlace, Clean

\* A pack moves from list a to list b, which holds s and t afterwards.
LEMMA MoveKeepsPool ==
    ASSUME PoolInv, ~torn, NEW a \in Lists, NEW b \in Lists, a # b,
           NEW x \in Elems(lst[a]),
           NEW s \in Seq(Packs), Injective(s), Elems(s) = Elems(lst[a]) \ {x},
           NEW t \in Seq(Packs), Injective(t), Elems(t) = Elems(lst[b]) \cup {x},
           lst' = [lst EXCEPT ![a] = s, ![b] = t],
           UNCHANGED <<home, hold, torn>>
    PROVE  PoolInv'
  <1>1. lst \in [Lists -> Seq(Packs)] /\ Clean(lst, hold)
    BY OnePlaceIsClean DEF PoolInv, PoolType
  <1>2. /\ lst' \in [Lists -> Seq(Packs)]
        /\ lst'[a] = s /\ lst'[b] = t
        /\ \A l \in Lists \ {a, b} : lst'[l] = lst[l]
    BY <1>1
  <1>3. /\ Injective(lst'[a]) /\ Elems(lst'[a]) = Elems(lst[a]) \ {x}
        /\ Injective(lst'[b]) /\ Elems(lst'[b]) = Elems(lst[b]) \cup {x}
    BY <1>2
  <1>4. Clean(lst', hold)
    BY <1>1, <1>2, <1>3, MoveClean
  <1> QED BY <1>2, <1>4 DEF PoolInv, PoolType, OnePlace, Clean

\* gb_data_ack_pack moves the oldest pack sent to the free list.
LEMMA AckKeepsPool ==
    ASSUME PoolInv, ~torn, gb_data_ack_pack
    PROVE  PoolInv'
  <1> DEFINE a == "trans"
             b == "free"
             x == Head(lst[a])
  <1>1. lst \in [Lists -> Seq(Packs)] /\ Clean(lst, hold)
    BY OnePlaceIsClean DEF PoolInv, PoolType
  <1>2. a \in Lists /\ b \in Lists /\ a # b
    BY DEF Lists
  <1>3. UNCHANGED <<home, hold, torn>>
    BY DEF gb_data_ack_pack
  <1>4. CASE lst[a] = <<>>
    BY <1>3, <1>4, PoolUnchanged DEF gb_data_ack_pack
  <1>5. CASE lst[a] # <<>>
    <2>1. lst' = [lst EXCEPT ![a] = Tail(lst[a]), ![b] = Append(lst[b], x)]
      BY <1>5 DEF gb_data_ack_pack
    <2> HIDE DEF a, b
    <2>2. /\ lst[a] \in Seq(Packs) /\ Injective(lst[a])
          /\ lst[b] \in Seq(Packs) /\ Injective(lst[b])
      BY <1>1, <1>2 DEF Clean
    <2>3. /\ Tail(lst[a]) \in Seq(Packs) /\ x \in Packs /\ x \in Elems(lst[a])
          /\ Injective(Tail(lst[a])) /\ Elems(Tail(lst[a])) = Elems(lst[a]) \ {x}
      BY <1>5, <2>2, TailElems
    <2> HIDE DEF x
    <2>4. x \notin Elems(lst[b])
      BY <1>1, <1>2, <2>3 DEF Clean
    <2>5. /\ Append(lst[b], x) \in Seq(Packs) /\ Injective(Append(lst[b], x))
          /\ Elems(Append(lst[b], x)) = Elems(lst[b]) \cup {x}
      BY <2>2, <2>3, <2>4, AppendElems
    <2> QED BY <1>2, <1>3, <2>1, <2>3, <2>5, MoveKeepsPool
  <1> QED BY <1>4, <1>5

\* An iteration of gb_data_flush_sending.
LEMMA FlushSendingKeepsPool ==
    ASSUME PoolInv, ~torn, FlushSendingOne
    PROVE  PoolInv'
  <1> DEFINE a == "trans"
             x == Last(lst[a])
             b == home[x]
  <1>1. lst \in [Lists -> Seq(Packs)] /\ Clean(lst, hold)
    BY OnePlaceIsClean DEF PoolInv, PoolType
  <1>2. a \in Lists
    BY DEF Lists
  <1>3. UNCHANGED <<home, hold, torn>> /\ lst[a] # <<>>
    BY DEF FlushSendingOne
  <1>4. lst[a] \in Seq(Packs) /\ Injective(lst[a])
    BY <1>1, <1>2 DEF Clean
  <1>5. /\ Front(lst[a]) \in Seq(Packs) /\ x \in Packs /\ x \in Elems(lst[a])
        /\ Injective(Front(lst[a])) /\ Elems(Front(lst[a])) = Elems(lst[a]) \ {x}
    BY <1>3, <1>4, FrontElems
  <1>6. b \in Lists /\ a # b
    BY <1>5 DEF PoolInv, PoolType, Lists
  <1>7. lst' = [lst EXCEPT ![a] = Front(lst[a]), ![b] = <<x>> \o lst[b]]
    BY <1>6 DEF FlushSendingOne
  <1> HIDE DEF a, b, x
  <1>8. lst[b] \in Seq(Packs) /\ Injective(lst[b]) /\ x \notin Elems(lst[b])
    BY <1>1, <1>2, <1>5, <1>6 DEF Clean
  <1>9. /\ <<x>> \o lst[b] \in Seq(Packs) /\ Injective(<<x>> \o lst[b])
        /\ Elems(<<x>> \o lst[b]) = Elems(lst[b]) \cup {x}
    BY <1>5, <1>8, PrependElems
  <1> QED BY <1>2, <1>3, <1>5, <1>6, <1>7, <1>9, MoveKeepsPool

-----------------------------------------------------------------------------
(* The theorems.                                                           *)

\* Every step of the CAN thread keeps the invariant.
LEMMA CanKeepsPool ==
    ASSUME PoolInv, ~torn, CanThread
    PROVE  PoolInv'
  <1>1. CASE CanActive
    BY <1>1, PoolUnchanged DEF CanActive
  <1>2. CASE CanSleep
    BY <1>2, PoolUnchanged DEF CanSleep
  <1>3. CASE DbcFinished
    BY <1>3, ClearKeepsPool DEF DbcFinished
  <1>4. CASE Warning
    BY <1>4, PoolUnchanged DEF Warning
  <1>5. CASE PeriodicWarn
    <2>1. UNCHANGED <<hold, torn>>
      BY <1>5 DEF PeriodicWarn
    <2>2. FlushRealtm \/ UNCHANGED <<lst, home>>
      BY <1>5 DEF PeriodicWarn
    <2> QED BY <2>1, <2>2, FlushRealtmKeepsPool, PoolUnchanged
  <1>6. CASE Periodic
    BY <1>6, PoolUnchanged DEF Periodic
  <1>7. CASE SaveRealtm
    BY <1>7, SaveKeepsPool
  <1>8. CASE BigError
    BY <1>8, PoolUnchanged DEF BigError
  <1>9. CASE FlushErrorCopy
    BY <1>9, CopyKeepsPool
  <1>10. CASE FlushErrorSplice
    BY <1>10, SpliceKeepsPool
  <1> QED BY <1>1, <1>2, <1>3, <1>4, <1>5, <1>6, <1>7, <1>8, <1>9, <1>10 DEF CanThread

\* Every call of the protocol thread keeps the invariant.
LEMMA GbKeepsPool ==
    ASSUME PoolInv, ~torn, GbUser
    PROVE  PoolInv'
  <1>1. CASE gb_data_get_pack
    BY <1>1, GetKeepsPool
  <1>2. CASE gb_data_ack_pack
    BY <1>2, AckKeepsPool
  <1>3. CASE gb_data_flush_realtm
    BY <1>3, FlushRealtmKeepsPool DEF gb_data_flush_realtm
  <1>4. CASE FlushSendingOne
    BY <1>4, FlushSendingKeepsPool
  <1>5. CASE hold # NoPack /\ gb_data_put_back
    BY <1>5, PutBackKeepsPool
  <1>6. CASE hold # NoPack /\ gb_data_put_send
    BY <1>6, PutSendKeepsPool
  <1>7. CASE ForgetPack
    BY <1>7, ForgetKeepsPool
  <1>8. CASE gb_data_clear_report
    BY <1>8, ClearKeepsPool DEF gb_data_clear_report
  <1>9. CASE gb_data_clear_error
    BY <1>9, PoolUnchanged DEF gb_data_clear_error
  <1>10. CASE \E b \in BOOLEAN : gb_data_emergence(b)
    BY <1>10, PoolUnchanged DEF gb_data_emergence
  <1>11. CASE \E b \in BOOLEAN : gb_data_set_pendflag(b)
    BY <1>11, PoolUnchanged DEF gb_data_set_pendflag
  <1> QED BY <1>1, <1>2, <1>3, <1>4, <1>5, <1>6, <1>7, <1>8, <1>9, <1>10, <1>11
          DEF GbUser

\* PoolInv is inductive: it holds when the module is loaded, and no step of
\* either thread breaks it.
THEOREM PoolInvInductive ==
    /\ DataInit => PoolInv
    /\ PoolInv /\ [DataNext]_dataVars => PoolInv'
  <1>1. DataInit => PoolInv
    <2> SUFFICES ASSUME DataInit PROVE PoolInv
      OBVIOUS
    <2>1. PoolType
      BY DEF DataInit, PoolType
    <2>2. \A l \in Lists : lst[l] = <<>>
      BY DEF DataInit
    <2>3. \A l \in Lists : Injective(lst[l]) /\ Elems(lst[l]) = {}
      BY <2>2, EmptyElems
    <2> QED BY <2>1, <2>3 DEF PoolInv, OnePlace
  <1>2. PoolInv /\ DataNext => PoolInv'
    BY CanKeepsPool, GbKeepsPool DEF DataNext
  <1>3. PoolInv /\ UNCHANGED dataVars => PoolInv'
    BY PoolUnchanged DEF dataVars
  <1> QED BY <1>1, <1>2, <1>3

\* For every size of the pool, of a recording and of the history, and in every
\* interleaving of the CAN thread's iterations with the protocol thread's
\* calls, no pack is ever in two places: gb_free_lst, gb_realtm_lst,
\* gb_delay_lst, gb_trans_lst, tmplst and the pack gb_do_report is sending are
\* disjoint, until the pool is cleared under a pack that is outside it.
THEOREM PacksInOnePlace == DataSpec => []OnePlace
  <1>1. PoolInv => OnePlace
    BY DEF PoolInv
  <1> QED BY <1>1, PoolInvInductive, PTL DEF DataSpec

-----------------------------------------------------------------------------
(* The order of a list.                                                    *)

\* a comes before b in the list s.
Prec(s, a, b) == \E i, j \in 1 .. Len(s) : i < j /\ s[i] = a /\ s[j] = b

LEMMA EmptyPrec == \A a, b : ~Prec(<<>>, a, b)
  BY DEF Prec

LEMMA PrecElems ==
    ASSUME NEW s, NEW a, NEW b, Prec(s, a, b)
    PROVE  a \in Elems(s) /\ b \in Elems(s)
  BY DEF Prec, Elems

\* The first element comes before the others, whose order stays.
LEMMA TailPrec ==
    ASSUME NEW S, NEW s \in Seq(S), s # <<>>, NEW a, NEW b
    PROVE  /\ Prec(Tail(s), a, b) => Prec(s, a, b)
           /\ b \in Elems(Tail(s)) => Prec(s, Head(s), b)
  <1>1. /\ Len(s) \in Nat \ {0} /\ Len(Tail(s)) = Len(s) - 1 /\ Head(s) = s[1]
        /\ \A i \in 1 .. Len(s) - 1 : Tail(s)[i] = s[i + 1]
    OBVIOUS
  <1> DEFINE n == Len(s)
             t == Tail(s)
  <1>2. /\ n \in Nat \ {0} /\ Len(t) = n - 1 /\ 1 \in 1 .. n
        /\ \A i \in 1 .. n - 1 : t[i] = s[i + 1] /\ i + 1 \in 1 .. n /\ 1 < i + 1
    BY <1>1
  <1> HIDE DEF t
  <1>3. ASSUME Prec(t, a, b) PROVE Prec(s, a, b)
    <2>1. PICK i \in 1 .. n - 1, j \in 1 .. n - 1 : i < j /\ t[i] = a /\ t[j] = b
      BY <1>2, <1>3 DEF Prec
    <2>2. i + 1 < j + 1
      BY <1>2, <2>1
    <2> QED BY <1>2, <2>1, <2>2 DEF Prec
  <1>4. ASSUME b \in Elems(t) PROVE Prec(s, Head(s), b)
    <2>1. PICK j \in 1 .. n - 1 : t[j] = b
      BY <1>2, <1>4 DEF Elems
    <2> QED BY <1>1, <1>2, <2>1 DEF Prec
  <1> QED BY <1>3, <1>4 DEF t

\* The last element comes after the others, whose order stays.
LEMMA FrontPrec ==
    ASSUME NEW S, NEW s \in Seq(S), s # <<>>, NEW a, NEW b
    PROVE  /\ Prec(Front(s), a, b) => Prec(s, a, b)
           /\ a \in Elems(Front(s)) => Prec(s, a, Last(s))
  <1> DEFINE n == Len(s)
             t == Front(s)
  <1>1. n \in Nat \ {0} /\ Last(s) = s[n]
    BY DEF Last
  <1>2. Len(t) = n - 1 /\ \A i \in 1 .. n - 1 : t[i] = s[i] /\ i \in 1 .. n /\ i < n
    BY FrontProps, <1>1
  <1> HIDE DEF n, t
  <1>3. ASSUME Prec(t, a, b) PROVE Prec(s, a, b)
    <2>1. PICK i \in 1 .. n - 1, j \in 1 .. n - 1 : i < j /\ t[i] = a /\ t[j] = b
      BY <1>2, <1>3 DEF Prec
    <2> QED BY <1>2, <2>1 DEF Prec, n
  <1>4. ASSUME a \in Elems(t) PROVE Prec(s, a, Last(s))
    <2>1. PICK i \in 1 .. n - 1 : t[i] = a
      BY <1>2, <1>4 DEF Elems
    <2>2. n \in 1 .. n
      BY <1>1
    <2> QED BY <1>1, <1>2, <2>1, <2>2 DEF Prec, n
  <1> QED BY <1>3, <1>4 DEF t

\* The order of two lists, one after the other.
LEMMA ConcatPrec ==
    ASSUME NEW S, NEW s \in Seq(S), NEW t \in Seq(S), NEW a, NEW b, Prec(s \o t, a, b)
    PROVE  Prec(s, a, b) \/ Prec(t, a, b) \/ (a \in Elems(s) /\ b \in Elems(t))
  <1> DEFINE u == s \o t
             m == Len(s)
             n == Len(t)
  <1>1. /\ m \in Nat /\ n \in Nat /\ Len(u) = m + n
        /\ \A i \in 1 .. m : u[i] = s[i]
        /\ \A i \in m + 1 .. m + n : u[i] = t[i - m] /\ i - m \in 1 .. n
    OBVIOUS
  <1>2. Prec(u, a, b)
    OBVIOUS
  <1> HIDE DEF u, m, n
  <1>3. PICK i \in 1 .. m + n, j \in 1 .. m + n : i < j /\ u[i] = a /\ u[j] = b
    BY <1>1, <1>2 DEF Prec
  <1>4. CASE j <= m
    <2>1. i \in 1 .. m /\ j \in 1 .. m
      BY <1>1, <1>3, <1>4
    <2> QED BY <1>1, <1>3, <2>1 DEF Prec, m
  <1>5. CASE i <= m /\ j > m
    <2>1. i \in 1 .. m /\ j \in m + 1 .. m + n
      BY <1>1, <1>3, <1>5
    <2> QED BY <1>1, <1>3, <2>1 DEF Elems, m, n
  <1>6. CASE i > m
    <2>1. i \in m + 1 .. m + n /\ j \in m + 1 .. m + n /\ i - m < j - m
      BY <1>1, <1>3, <1>6
    <2> QED BY <1>1, <1>3, <2>1 DEF Prec, n
  <1> QED BY <1>1, <1>3, <1>4, <1>5, <1>6

\* An element is put at the end of a list.
LEMMA AppendPrec ==
    ASSUME NEW S, NEW s \in Seq(S), NEW e \in S, NEW a, NEW b, Prec(Append(s, e), a, b)
    PROVE  Prec(s, a, b) \/ (a \in Elems(s) /\ b = e)
  <1> DEFINE u == Append(s, e)
             m == Len(s)
  <1>1. m \in Nat /\ Len(u) = m + 1 /\ u[m + 1] = e /\ \A i \in 1 .. m : u[i] = s[i]
    OBVIOUS
  <1>2. Prec(u, a, b)
    OBVIOUS
  <1> HIDE DEF u, m
  <1>3. PICK i \in 1 .. m + 1, j \in 1 .. m + 1 : i < j /\ u[i] = a /\ u[j] = b
    BY <1>1, <1>2 DEF Prec
  <1>4. i \in 1 .. m
    BY <1>1, <1>3
  <1>5. CASE j \in 1 .. m
    BY <1>1, <1>3, <1>4, <1>5 DEF Prec, m
  <1>6. CASE j = m + 1
    BY <1>1, <1>3, <1>4, <1>6 DEF Elems, m
  <1> QED BY <1>1, <1>3, <1>5, <1>6

\* An element is put at the front of a list.
LEMMA PrependPrec ==
    ASSUME NEW S, NEW s \in Seq(S), NEW e \in S, NEW a, NEW b, Prec(<<e>> \o s, a, b)
    PROVE  Prec(s, a, b) \/ (a = e /\ b \in Elems(s))
  <1>1. <<e>> \in Seq(S) /\ Elems(<<e>>) = {e} /\ ~Prec(<<e>>, a, b)
    BY DEF Elems, Prec
  <1> QED BY <1>1, ConcatPrec

-----------------------------------------------------------------------------
(* Reports keep their type, and their order.                               *)

\* The packs that transmission in real time takes before b, if it takes b: those sent
\* (which may come back), the one being sent (x), and those before b on the list.
Chain(f, x, a, b) ==
    \/ Prec(f["realtm"], a, b) \/ Prec(f["trans"], a, b)
    \/ a \in Elems(f["trans"]) /\ b \in Elems(f["realtm"]) \cup {x}
    \/ a = x /\ b \in Elems(f["realtm"])

\* Real-time reports are in the order of their recording, wherever they are.
RealSorted(f, x, h, st) ==
    \A a, b \in Packs : Chain(f, x, a, b) /\ h[a] = "realtm" /\ h[b] = "realtm" => st[a] <= st[b]

\* The lists have reports of their type; the history is copied into delayed reports.
Homed(f, h) ==
    /\ \A p \in Elems(f["realtm"]) : h[p] = "realtm"
    /\ \A p \in Elems(f["delay"]) \cup Elems(f["tmp"]) : h[p] = "delay"

\* The ring of the history is in order, older than what was copied from it, and that is
\* in order.
HistSorted(f, st, e) ==
    /\ \A i, j \in 1 .. Len(e) : i < j => e[i] <= e[j]
    /\ \A i \in 1 .. Len(e), p \in Elems(f["tmp"]) : e[i] <= st[p]
    /\ \A a, b \in Packs : Prec(f["tmp"], a, b) => st[a] <= st[b]

Ordered == Homed(lst, home) /\ RealSorted(lst, hold, home, stamp) /\ HistSorted(lst, stamp, err)

\* What the lemmas below assume of the state before a step.
Before == PoolInv /\ ~torn /\ Ordered

\* The lists before a step.
LEMMA BeforeFacts ==
    ASSUME Before
    PROVE  /\ lst \in [Lists -> Seq(Packs)] /\ Clean(lst, hold)
           /\ home \in [Packs -> {"realtm", "delay"}] /\ hold \in Packs \cup {NoPack}
           /\ \A l \in Lists : lst[l] \in Seq(Packs) /\ Injective(lst[l]) /\ Elems(lst[l]) \subseteq Packs
           /\ NoPack \notin Packs
  <1>1. lst \in [Lists -> Seq(Packs)] /\ Clean(lst, hold)
    BY OnePlaceIsClean DEF Before, PoolInv, PoolType
  <1>2. \A s \in Seq(Packs) : Elems(s) \subseteq Packs
    BY DEF Elems
  <1> QED BY <1>1, <1>2, NoPackIsNone DEF Before, PoolInv, PoolType, Clean

\* An iteration of gb_data_flush_sending: the last pack sent comes before everything on
\* its list.
LEMMA FlushSendingOrdered ==
    ASSUME Before, hold = NoPack, FlushSendingOne
    PROVE  Ordered'
  <1> DEFINE x == Last(lst["trans"])
             b == home[x]
  <1>1. /\ lst \in [Lists -> Seq(Packs)] /\ Clean(lst, hold)
        /\ lst["trans"] \in Seq(Packs) /\ lst["trans"] # <<>>
        /\ UNCHANGED <<home, stamp, err, hold>>
    BY BeforeFacts DEF Lists, FlushSendingOne
  <1>2. /\ x \in Packs /\ x \in Elems(lst["trans"])
        /\ Elems(Front(lst["trans"])) \subseteq Elems(lst["trans"])
        /\ \A p, q : Prec(Front(lst["trans"]), p, q) => Prec(lst["trans"], p, q)
        /\ \A p \in Elems(Front(lst["trans"])) : Prec(lst["trans"], p, x)
    BY <1>1, FrontElems, FrontPrec
  <1>3. b \in {"realtm", "delay"} /\ lst[b] \in Seq(Packs)
    BY <1>1, <1>2, BeforeFacts DEF Lists
  <1>4. /\ Elems(<<x>> \o lst[b]) = Elems(lst[b]) \cup {x}
        /\ \A p, q : Prec(<<x>> \o lst[b], p, q) => Prec(lst[b], p, q) \/ (p = x /\ q \in Elems(lst[b]))
    BY <1>2, <1>3, PrependElems, PrependPrec
  <1>5. /\ lst'["trans"] = Front(lst["trans"]) /\ lst'[b] = <<x>> \o lst[b]
        /\ \A l \in Lists \ {"trans", b} : lst'[l] = lst[l]
    BY <1>1, <1>3 DEF FlushSendingOne, Lists
  <1>6. home[x] = b
    OBVIOUS
  <1> HIDE DEF x, b
  <1>7. Homed(lst', home')
    <2>1. Homed(lst, home) /\ home' = home
      BY <1>1 DEF Before, Ordered
    <2>2. CASE b = "realtm"
      <3>1. lst'["delay"] = lst["delay"] /\ lst'["tmp"] = lst["tmp"]
        BY <1>5, <2>2 DEF Lists
      <3> QED BY <1>4, <1>5, <1>6, <2>1, <2>2, <3>1 DEF Homed
    <2>3. CASE b = "delay"
      <3>1. lst'["realtm"] = lst["realtm"] /\ lst'["tmp"] = lst["tmp"]
        BY <1>5, <2>3 DEF Lists
      <3> QED BY <1>4, <1>5, <1>6, <2>1, <2>3, <3>1 DEF Homed
    <2> QED BY <1>3, <2>2, <2>3
  <1>8. RealSorted(lst', hold', home', stamp')
    <2> SUFFICES ASSUME NEW p \in Packs, NEW q \in Packs, Chain(lst', hold, p, q),
                        home[p] = "realtm", home[q] = "realtm"
                 PROVE  Chain(lst, hold, p, q)
      BY <1>1 DEF RealSorted, Before, Ordered
    <2>1. hold = NoPack /\ p # hold /\ q # hold
      BY BeforeFacts
    <2>2. CASE b = "realtm"
      BY <1>2, <1>4, <1>5, <2>1, <2>2 DEF Chain
    <2>3. CASE b = "delay"
      <3>1. lst'["realtm"] = lst["realtm"]
        BY <1>5, <2>3 DEF Lists
      <3> QED BY <1>2, <1>5, <2>1, <3>1 DEF Chain
    <2> QED BY <1>3, <2>2, <2>3
  <1>9. HistSorted(lst', stamp', err')
    <2>1. lst'["tmp"] = lst["tmp"]
      BY <1>3, <1>5 DEF Lists
    <2> QED BY <1>1, <2>1 DEF HistSorted, Before, Ordered
  <1> QED BY <1>7, <1>8, <1>9 DEF Ordered

\* gb_data_get_pack: from either list; the first of the real-time list comes before the
\* others.
LEMMA GetOrdered ==
    ASSUME Before, gb_data_get_pack
    PROVE  Ordered'
  <1>1. /\ lst \in [Lists -> Seq(Packs)] /\ UNCHANGED <<home, stamp, err>>
        /\ lst["realtm"] \in Seq(Packs) /\ lst["delay"] \in Seq(Packs)
        /\ Homed(lst, home) /\ RealSorted(lst, hold, home, stamp) /\ HistSorted(lst, stamp, err)
    BY BeforeFacts DEF Lists, gb_data_get_pack, Before, Ordered
  <1>2. CASE lst["realtm"] # <<>> /\ hold' = Head(lst["realtm"])
             /\ lst' = [lst EXCEPT !["realtm"] = Tail(@)]
    <2> DEFINE s == lst["realtm"]
               x == Head(s)
    <2>1. /\ x \in Elems(s) /\ Elems(Tail(s)) \subseteq Elems(s)
          /\ \A p, q : Prec(Tail(s), p, q) => Prec(s, p, q)
          /\ \A q \in Elems(Tail(s)) : Prec(s, x, q)
      BY <1>1, <1>2, TailElems, TailPrec
    <2>2. /\ lst'["realtm"] = Tail(s) /\ lst'["delay"] = lst["delay"] /\ lst'["tmp"] = lst["tmp"]
          /\ lst'["trans"] = lst["trans"] /\ hold' = x
      BY <1>1, <1>2 DEF Lists
    <2>3. Homed(lst', home')
      BY <1>1, <2>1, <2>2 DEF Homed
    <2>4. RealSorted(lst', hold', home', stamp')
      <3> SUFFICES ASSUME NEW p, NEW q, Chain(lst', hold', p, q)
                   PROVE  Chain(lst, hold, p, q)
        BY <1>1 DEF RealSorted
      <3> HIDE DEF x
      <3> QED BY <2>1, <2>2 DEF Chain
    <2>5. HistSorted(lst', stamp', err')
      BY <1>1, <2>2 DEF HistSorted
    <2> QED BY <2>3, <2>4, <2>5 DEF Ordered
  <1>3. ASSUME NEW s \in Seq(Packs), lst' = [lst EXCEPT !["delay"] = s],
               Elems(s) \subseteq Elems(lst["delay"]), hold' \in Elems(lst["delay"])
        PROVE  Ordered'
    <2>1. /\ lst'["realtm"] = lst["realtm"] /\ lst'["delay"] = s /\ lst'["tmp"] = lst["tmp"]
          /\ lst'["trans"] = lst["trans"] /\ home[hold'] = "delay"
      BY <1>1, <1>3 DEF Lists, Homed
    <2>2. Homed(lst', home')
      BY <1>1, <1>3, <2>1 DEF Homed
    <2>3. RealSorted(lst', hold', home', stamp')
      <3> SUFFICES ASSUME NEW p, NEW q, Chain(lst', hold', p, q), p # hold', q # hold'
                   PROVE  Chain(lst, hold, p, q)
        BY <1>1, <2>1 DEF RealSorted
      <3> QED BY <2>1 DEF Chain
    <2>4. HistSorted(lst', stamp', err')
      BY <1>1, <2>1 DEF HistSorted
    <2> QED BY <2>2, <2>3, <2>4 DEF Ordered
  <1>4. CASE lst["delay"] # <<>> /\ hold' = Head(lst["delay"])
             /\ lst' = [lst EXCEPT !["delay"] = Tail(@)]
    <2>1. /\ Tail(lst["delay"]) \in Seq(Packs) /\ Head(lst["delay"]) \in Elems(lst["delay"])
          /\ Elems(Tail(lst["delay"])) \subseteq Elems(lst["delay"])
      BY <1>1, <1>4, TailElems
    <2> QED BY <1>3, <1>4, <2>1
  <1>5. CASE lst["delay"] # <<>> /\ hold' = Last(lst["delay"])
             /\ lst' = [lst EXCEPT !["delay"] = Front(@)]
    <2>1. /\ Front(lst["delay"]) \in Seq(Packs) /\ Last(lst["delay"]) \in Elems(lst["delay"])
          /\ Elems(Front(lst["delay"])) \subseteq Elems(lst["delay"])
      BY <1>1, <1>5, FrontElems
    <2> QED BY <1>3, <1>5, <2>1
  <1> QED BY <1>2, <1>4, <1>5 DEF gb_data_get_pack

\* gb_data_put_back: the pack comes before everything on its list.
LEMMA PutBackOrdered ==
    ASSUME Before, hold # NoPack, gb_data_put_back
    PROVE  Ordered'
  <1> DEFINE b == home[hold]
             s == lst[b]
  <1>1. /\ lst \in [Lists -> Seq(Packs)] /\ UNCHANGED <<home, stamp, err>>
        /\ Homed(lst, home) /\ RealSorted(lst, hold, home, stamp) /\ HistSorted(lst, stamp, err)
        /\ hold \in Packs /\ hold' \notin Packs
    BY BeforeFacts DEF gb_data_put_back, Before, Ordered
  <1>2. b \in {"realtm", "delay"} /\ s \in Seq(Packs)
    BY <1>1, BeforeFacts DEF Lists
  <1>3. /\ Elems(<<hold>> \o s) = Elems(s) \cup {hold}
        /\ \A p, q : Prec(<<hold>> \o s, p, q) => Prec(s, p, q) \/ (p = hold /\ q \in Elems(s))
    BY <1>1, <1>2, PrependElems, PrependPrec
  <1>4. lst'[b] = <<hold>> \o s /\ \A l \in Lists \ {b} : lst'[l] = lst[l]
    BY <1>1, <1>2 DEF gb_data_put_back, Lists
  <1>5. home[hold] = b /\ s = lst[b]
    OBVIOUS
  <1> HIDE DEF b, s
  <1>6. CASE b = "realtm"
    <2>1. lst'["delay"] = lst["delay"] /\ lst'["tmp"] = lst["tmp"] /\ lst'["trans"] = lst["trans"]
      BY <1>4, <1>6 DEF Lists
    <2>2. Homed(lst', home')
      <3>1. Elems(lst'["realtm"]) = Elems(lst["realtm"]) \cup {hold} /\ home[hold] = "realtm"
        BY <1>3, <1>4, <1>5, <1>6
      <3>2. Homed(lst, home) /\ home' = home
        BY <1>1
      <3> QED BY <2>1, <3>1, <3>2 DEF Homed
    <2>3. RealSorted(lst', hold', home', stamp')
      <3> SUFFICES ASSUME NEW p \in Packs, NEW q \in Packs, Chain(lst', hold', p, q)
                   PROVE  Chain(lst, hold, p, q)
        BY <1>1 DEF RealSorted
      <3> QED BY <1>1, <1>3, <1>4, <1>5, <1>6, <2>1 DEF Chain
    <2> QED BY <1>1, <2>1, <2>2, <2>3 DEF HistSorted, Ordered
  <1>7. CASE b = "delay"
    <2>1. lst'["realtm"] = lst["realtm"] /\ lst'["tmp"] = lst["tmp"] /\ lst'["trans"] = lst["trans"]
      BY <1>4, <1>7 DEF Lists
    <2>2. Homed(lst', home')
      <3>1. Elems(lst'["delay"]) = Elems(lst["delay"]) \cup {hold} /\ home[hold] = "delay"
        BY <1>3, <1>4, <1>5, <1>7
      <3>2. Homed(lst, home) /\ home' = home
        BY <1>1
      <3> QED BY <2>1, <3>1, <3>2 DEF Homed
    <2>3. RealSorted(lst', hold', home', stamp')
      <3> SUFFICES ASSUME NEW p \in Packs, NEW q \in Packs, Chain(lst', hold', p, q)
                   PROVE  Chain(lst, hold, p, q)
        BY <1>1 DEF RealSorted
      <3> QED BY <1>1, <2>1 DEF Chain
    <2> QED BY <1>1, <2>1, <2>2, <2>3 DEF HistSorted, Ordered
  <1> QED BY <1>2, <1>6, <1>7

\* gb_data_put_send, and gb_do_report without room in the socket.
LEMMA PutSendOrdered ==
    ASSUME Before, hold # NoPack, gb_data_put_send \/ ForgetPack
    PROVE  Ordered'
  <1>1. /\ lst \in [Lists -> Seq(Packs)] /\ UNCHANGED <<home, stamp, err>>
        /\ Homed(lst, home) /\ RealSorted(lst, hold, home, stamp) /\ HistSorted(lst, stamp, err)
        /\ hold \in Packs /\ hold' \notin Packs /\ lst["trans"] \in Seq(Packs)
    BY BeforeFacts DEF gb_data_put_send, ForgetPack, Before, Ordered, Lists
  <1>2. /\ Elems(Append(lst["trans"], hold)) = Elems(lst["trans"]) \cup {hold}
        /\ \A p, q : Prec(Append(lst["trans"], hold), p, q)
              => Prec(lst["trans"], p, q) \/ (p \in Elems(lst["trans"]) /\ q = hold)
    BY <1>1, AppendElems, AppendPrec
  <1>3. /\ lst'["trans"] \in {Append(lst["trans"], hold), lst["trans"]}
        /\ lst'["realtm"] = lst["realtm"] /\ lst'["delay"] = lst["delay"] /\ lst'["tmp"] = lst["tmp"]
    BY <1>1 DEF gb_data_put_send, ForgetPack, Lists
  <1>4. Homed(lst', home') /\ HistSorted(lst', stamp', err')
    BY <1>1, <1>3 DEF Homed, HistSorted
  <1>5. RealSorted(lst', hold', home', stamp')
    <2> SUFFICES ASSUME NEW p \in Packs, NEW q \in Packs, Chain(lst', hold', p, q)
                 PROVE  Chain(lst, hold, p, q)
      BY <1>1 DEF RealSorted
    <2>1. CASE lst'["trans"] = lst["trans"]
      BY <1>1, <1>3, <2>1 DEF Chain
    <2>2. CASE lst'["trans"] = Append(lst["trans"], hold)
      <3>1. /\ Elems(lst'["trans"]) = Elems(lst["trans"]) \cup {hold}
            /\ Prec(lst'["trans"], p, q) => Prec(lst["trans"], p, q) \/ (p \in Elems(lst["trans"]) /\ q = hold)
        BY <1>2, <2>2
      <3>2. q # hold' /\ p # hold' /\ lst'["realtm"] = lst["realtm"]
        BY <1>1, <1>3
      <3> QED BY <3>1, <3>2 DEF Chain
    <2> QED BY <1>3, <2>1, <2>2
  <1> QED BY <1>4, <1>5 DEF Ordered

\* gb_data_ack_pack: the oldest pack sent leaves the trans list.
LEMMA AckOrdered ==
    ASSUME Before, gb_data_ack_pack
    PROVE  Ordered'
  <1>1. /\ lst \in [Lists -> Seq(Packs)] /\ UNCHANGED <<home, stamp, err, hold>>
        /\ Homed(lst, home) /\ RealSorted(lst, hold, home, stamp) /\ HistSorted(lst, stamp, err)
        /\ lst["trans"] \in Seq(Packs)
    BY BeforeFacts DEF gb_data_ack_pack, Before, Ordered, Lists
  <1>2. /\ lst'["realtm"] = lst["realtm"] /\ lst'["delay"] = lst["delay"] /\ lst'["tmp"] = lst["tmp"]
        /\ lst'["trans"] = lst["trans"] \/ (lst["trans"] # <<>> /\ lst'["trans"] = Tail(lst["trans"]))
    BY <1>1 DEF gb_data_ack_pack, Lists
  <1>3. /\ Elems(lst'["trans"]) \subseteq Elems(lst["trans"])
        /\ \A p, q : Prec(lst'["trans"], p, q) => Prec(lst["trans"], p, q)
    BY <1>1, <1>2, TailElems, TailPrec
  <1>4. Homed(lst', home') /\ HistSorted(lst', stamp', err')
    BY <1>1, <1>2 DEF Homed, HistSorted
  <1>5. RealSorted(lst', hold', home', stamp')
    <2> SUFFICES ASSUME NEW p, NEW q, Chain(lst', hold', p, q)
                 PROVE  Chain(lst, hold, p, q)
      BY <1>1 DEF RealSorted
    <2> QED BY <1>1, <1>2, <1>3 DEF Chain
  <1> QED BY <1>4, <1>5 DEF Ordered

\* gb_data_flush_realtm: the real-time list is empty, what was on it is delayed.
LEMMA FlushRealtmOrdered ==
    ASSUME Before, FlushRealtm, UNCHANGED <<stamp, err, hold>>
    PROVE  Ordered'
  <1>1. /\ lst \in [Lists -> Seq(Packs)] /\ UNCHANGED <<stamp, err, hold>>
        /\ Homed(lst, home) /\ RealSorted(lst, hold, home, stamp) /\ HistSorted(lst, stamp, err)
        /\ lst["realtm"] \in Seq(Packs) /\ lst["delay"] \in Seq(Packs)
        /\ \A l \in Lists : Elems(lst[l]) \subseteq Packs
        /\ home \in [Packs -> {"realtm", "delay"}]
    BY BeforeFacts DEF Before, Ordered, Lists
  <1>2. /\ lst'["realtm"] = <<>> /\ lst'["delay"] = lst["delay"] \o lst["realtm"]
        /\ lst'["tmp"] = lst["tmp"] /\ lst'["trans"] = lst["trans"]
        /\ \A p \in Packs : home'[p] = IF p \in Elems(lst["realtm"]) THEN "delay" ELSE home[p]
    BY <1>1 DEF FlushRealtm, Lists
  <1>3. /\ Elems(lst'["delay"]) = Elems(lst["delay"]) \cup Elems(lst["realtm"])
        /\ Elems(lst'["realtm"]) = {} /\ \A p, q : ~Prec(lst'["realtm"], p, q)
    BY <1>1, <1>2, ConcatElems, EmptyElems, EmptyPrec
  <1>4. Homed(lst', home')
    <2>1. "realtm" \in Lists /\ "delay" \in Lists /\ "tmp" \in Lists
      BY DEF Lists
    <2> QED BY <1>1, <1>2, <1>3, <2>1 DEF Homed
  <1>5. RealSorted(lst', hold', home', stamp')
    <2> SUFFICES ASSUME NEW p \in Packs, NEW q \in Packs, Chain(lst', hold', p, q)
                 PROVE  Chain(lst, hold, p, q)
      BY <1>1, <1>2 DEF RealSorted
    <2> QED BY <1>1, <1>2, <1>3 DEF Chain
  <1>6. HistSorted(lst', stamp', err')
    BY <1>1, <1>2 DEF HistSorted
  <1> QED BY <1>4, <1>5, <1>6 DEF Ordered

\* The end of gb_data_flush_error.
LEMMA SpliceOrdered ==
    ASSUME Before, FlushErrorSplice
    PROVE  Ordered'
  <1>1. /\ lst \in [Lists -> Seq(Packs)] /\ UNCHANGED <<home, stamp, err, hold>>
        /\ Homed(lst, home) /\ RealSorted(lst, hold, home, stamp) /\ HistSorted(lst, stamp, err)
        /\ lst["tmp"] \in Seq(Packs) /\ lst["delay"] \in Seq(Packs)
    BY BeforeFacts DEF Before, Ordered, Lists, FlushErrorSplice
  <1>2. /\ lst'["tmp"] = <<>> /\ lst'["delay"] = lst["delay"] \o lst["tmp"]
        /\ lst'["realtm"] = lst["realtm"] /\ lst'["trans"] = lst["trans"]
    BY <1>1 DEF FlushErrorSplice, Lists
  <1>3. /\ Elems(lst'["delay"]) = Elems(lst["delay"]) \cup Elems(lst["tmp"])
        /\ Elems(lst'["tmp"]) = {} /\ \A p, q : ~Prec(lst'["tmp"], p, q)
    BY <1>1, <1>2, ConcatElems, EmptyElems, EmptyPrec
  <1>4. Homed(lst', home')
    BY <1>1, <1>2, <1>3 DEF Homed
  <1>5. RealSorted(lst', hold', home', stamp')
    BY <1>1, <1>2 DEF RealSorted, Chain
  <1>6. HistSorted(lst', stamp', err')
    BY <1>1, <1>3 DEF HistSorted
  <1> QED BY <1>4, <1>5, <1>6 DEF Ordered

\* No recording is later than the clock.
PastOnly ==
    /\ \A p \in Packs : stamp[p] <= clock
    /\ \A i \in 1 .. Len(err) : err[i] <= clock

\* tmplst is used by gb_data_flush_error only.
TmpInFlush == canpc \in {"flush", "stuck"} \/ lst["tmp"] = <<>>

\* An iteration of gb_data_save_realtm: the pack, wherever it comes from, is the latest
\* recording, and nothing comes after it.
LEMMA SaveOrdered ==
    ASSUME Before, DataTypeOK, PastOnly, TmpInFlush, SaveRealtm
    PROVE  Ordered'
  <1> DEFINE a == BufferFrom
             p == Head(lst[a])
             s == IF a = "realtm" THEN Tail(lst[a]) ELSE lst["realtm"]
  <1>1. /\ a \in {"free", "delay", "realtm"}
        /\ lst \in [Lists -> Seq(Packs)] /\ Clean(lst, hold)
        /\ lst[a] # <<>> /\ p \in Packs /\ p \in Elems(lst[a]) /\ lst[a] \in Seq(Packs)
        /\ Tail(lst[a]) \in Seq(Packs) /\ Injective(Tail(lst[a]))
        /\ Elems(Tail(lst[a])) = Elems(lst[a]) \ {p}
    BY BufferFacts DEF Before, SaveRealtm, Lists
  <1>2. lst' = [lst EXCEPT ![a] = Tail(@), !["realtm"] = Append(@, p)]
    BY DEF SaveRealtm
  <1>3. /\ UNCHANGED <<hold, err>> /\ canpc = "save"
        /\ stamp' = [stamp EXCEPT ![p] = clock] /\ home' = [home EXCEPT ![p] = "realtm"]
    BY DEF SaveRealtm
  <1>4. /\ stamp \in [Packs -> Nat] /\ clock \in Nat /\ \A q \in Packs : stamp[q] <= clock
        /\ home \in [Packs -> {"realtm", "delay"}] /\ lst["tmp"] = <<>>
        /\ Homed(lst, home) /\ RealSorted(lst, hold, home, stamp) /\ HistSorted(lst, stamp, err)
        /\ \A l \in Lists : Elems(lst[l]) \subseteq Packs
    BY <1>3, BeforeFacts DEF DataTypeOK, PastOnly, TmpInFlush, Before, Ordered
  <1>5. /\ stamp'[p] = clock /\ home'[p] = "realtm"
        /\ \A q \in Packs : q # p => stamp'[q] = stamp[q] /\ home'[q] = home[q]
    BY <1>1, <1>3, <1>4
  <1>6. /\ s \in Seq(Packs) /\ p \notin Elems(s) /\ Elems(s) \subseteq Elems(lst["realtm"])
        /\ \A q, r : Prec(s, q, r) => Prec(lst["realtm"], q, r)
    <2>1. CASE a = "realtm"
      BY <1>1, <2>1, TailPrec
    <2>2. CASE a # "realtm"
      BY <1>1, <2>2 DEF Clean, Lists
    <2> QED BY <2>1, <2>2
  <1> HIDE DEF a, p
  <1>7. /\ lst'["realtm"] = Append(s, p)
        /\ a = "delay" => lst'["delay"] = Tail(lst["delay"])
        /\ a # "delay" => lst'["delay"] = lst["delay"]
        /\ lst'["tmp"] = lst["tmp"] /\ lst'["trans"] = lst["trans"]
    BY <1>1, <1>2 DEF Lists
  <1> HIDE DEF s
  <1>8. /\ Elems(lst'["realtm"]) = Elems(s) \cup {p}
        /\ \A q, r : Prec(lst'["realtm"], q, r) => Prec(s, q, r) \/ (q \in Elems(s) /\ r = p)
    BY <1>1, <1>6, <1>7, AppendElems, AppendPrec
  <1>9. Elems(lst'["delay"]) \subseteq Elems(lst["delay"]) \ {p}
    <2>1. CASE a = "delay"
      BY <1>1, <1>7, <2>1
    <2>2. CASE a # "delay"
      BY <1>1, <1>7, <2>2 DEF Clean, Lists
    <2> QED BY <2>1, <2>2
  <1>10. /\ p \notin Elems(lst["trans"]) /\ p # hold
         /\ Elems(lst'["tmp"]) = {} /\ \A q, r : ~Prec(lst'["tmp"], q, r)
    <2>1. p \notin Elems(lst["trans"]) /\ p # hold
      BY <1>1 DEF Clean, Lists
    <2>2. Elems(lst'["tmp"]) = {} /\ \A q, r : ~Prec(lst'["tmp"], q, r)
      BY <1>4, <1>7, EmptyElems, EmptyPrec
    <2> QED BY <2>1, <2>2
  <1>11. Homed(lst', home')
    <2>1. \A q \in Elems(lst["realtm"]) \cup Elems(lst["delay"]) : q \in Packs
      BY <1>4 DEF Lists
    <2> QED BY <1>4, <1>5, <1>6, <1>8, <1>9, <1>10, <2>1 DEF Homed
  <1>12. RealSorted(lst', hold', home', stamp')
    <2> SUFFICES ASSUME NEW q \in Packs, NEW r \in Packs, Chain(lst', hold, q, r),
                        home'[q] = "realtm", home'[r] = "realtm"
                 PROVE  stamp'[q] <= stamp'[r]
      BY <1>3 DEF RealSorted
    <2>1. CASE r = p
      BY <1>4, <1>5, <2>1
    <2>2. CASE r # p
      <3>1. Chain(lst, hold, q, r) /\ q # p
        <4>1. \/ Prec(s, q, r)
              \/ Prec(lst["trans"], q, r)
              \/ q \in Elems(lst["trans"]) /\ r \in Elems(s) \cup {hold}
              \/ q = hold /\ r \in Elems(s)
          BY <1>7, <1>8, <2>2 DEF Chain
        <4>2. Prec(s, q, r) => q \in Elems(s)
          BY PrecElems
        <4>3. Prec(lst["trans"], q, r) => q \in Elems(lst["trans"])
          BY PrecElems
        <4> QED BY <1>6, <1>10, <4>1, <4>2, <4>3 DEF Chain
      <3> QED BY <1>4, <1>5, <2>2, <3>1 DEF RealSorted
    <2> QED BY <2>1, <2>2
  <1>13. HistSorted(lst', stamp', err')
    BY <1>3, <1>4, <1>10 DEF HistSorted
  <1> QED BY <1>11, <1>12, <1>13 DEF Ordered

\* An iteration of gb_data_flush_error: the newest recording left in the ring goes
\* before what was copied.
LEMMA CopyOrdered ==
    ASSUME Before, DataTypeOK, FlushErrorCopy
    PROVE  Ordered'
  <1> DEFINE a == BufferFrom
             p == Head(lst[a])
             t == lst["tmp"]
  <1>1. /\ a \in {"free", "delay", "realtm"}
        /\ lst \in [Lists -> Seq(Packs)] /\ Clean(lst, hold)
        /\ lst[a] # <<>> /\ p \in Packs /\ p \in Elems(lst[a]) /\ lst[a] \in Seq(Packs)
        /\ Tail(lst[a]) \in Seq(Packs) /\ Injective(Tail(lst[a]))
        /\ Elems(Tail(lst[a])) = Elems(lst[a]) \ {p}
    BY BufferFacts DEF Before, FlushErrorCopy, Lists
  <1>2. lst' = [lst EXCEPT ![a] = Tail(@), !["tmp"] = <<p>> \o @]
    BY DEF FlushErrorCopy
  <1>3. /\ hold' = hold /\ err # <<>> /\ err' = Front(err)
        /\ stamp' = [stamp EXCEPT ![p] = Last(err)] /\ home' = [home EXCEPT ![p] = "delay"]
    BY DEF FlushErrorCopy
  <1>4. /\ stamp \in [Packs -> Nat] /\ err \in Seq(Nat)
        /\ home \in [Packs -> {"realtm", "delay"}] /\ t \in Seq(Packs)
        /\ Homed(lst, home) /\ RealSorted(lst, hold, home, stamp) /\ HistSorted(lst, stamp, err)
        /\ \A l \in Lists : Elems(lst[l]) \subseteq Packs
    BY BeforeFacts DEF DataTypeOK, Before, Ordered, Lists
  <1>5. /\ stamp'[p] = Last(err) /\ home'[p] = "delay"
        /\ \A q \in Packs : q # p => stamp'[q] = stamp[q] /\ home'[q] = home[q]
    BY <1>1, <1>3, <1>4
  <1> HIDE DEF a, p
  <1>6. /\ lst'["tmp"] = <<p>> \o t /\ lst'["trans"] = lst["trans"]
        /\ a = "delay" => lst'["delay"] = Tail(lst["delay"])
        /\ a # "delay" => lst'["delay"] = lst["delay"]
        /\ a = "realtm" => lst'["realtm"] = Tail(lst["realtm"])
        /\ a # "realtm" => lst'["realtm"] = lst["realtm"]
    BY <1>1, <1>2 DEF Lists
  <1>7. /\ Elems(lst'["tmp"]) = Elems(t) \cup {p}
        /\ \A q, r : Prec(lst'["tmp"], q, r) => Prec(t, q, r) \/ (q = p /\ r \in Elems(t))
    BY <1>1, <1>4, <1>6, PrependElems, PrependPrec
  <1>8. Elems(lst'["delay"]) \subseteq Elems(lst["delay"]) \ {p}
    <2>1. CASE a = "delay"
      BY <1>1, <1>6, <2>1
    <2>2. CASE a # "delay"
      BY <1>1, <1>6, <2>2 DEF Clean, Lists
    <2> QED BY <2>1, <2>2
  <1>9. /\ Elems(lst'["realtm"]) \subseteq Elems(lst["realtm"]) \ {p}
        /\ \A q, r : Prec(lst'["realtm"], q, r) => Prec(lst["realtm"], q, r)
    <2>1. CASE a = "realtm"
      BY <1>1, <1>6, <2>1, TailPrec
    <2>2. CASE a # "realtm"
      BY <1>1, <1>6, <2>2 DEF Clean, Lists
    <2> QED BY <2>1, <2>2
  <1>10. p \notin Elems(t) /\ Elems(t) \subseteq Packs
    BY <1>1, <1>4 DEF Clean, Lists
  <1>11. Homed(lst', home')
    <2>1. \A q \in Elems(lst["realtm"]) \cup Elems(lst["delay"]) : q \in Packs
      BY <1>4 DEF Lists
    <2> QED BY <1>4, <1>5, <1>7, <1>8, <1>9, <1>10, <2>1 DEF Homed
  <1>12. RealSorted(lst', hold', home', stamp')
    <2> SUFFICES ASSUME NEW q \in Packs, NEW r \in Packs, Chain(lst', hold, q, r),
                        q # p, r # p
                 PROVE  Chain(lst, hold, q, r)
      BY <1>3, <1>4, <1>5 DEF RealSorted
    <2> QED BY <1>6, <1>9 DEF Chain
  <1>13. /\ Len(err) \in Nat \ {0} /\ Last(err) = err[Len(err)]
         /\ Len(err') = Len(err) - 1 /\ \A i \in 1 .. Len(err) - 1 : err'[i] = err[i]
    BY <1>3, <1>4, FrontProps
  <1>14. HistSorted(lst', stamp', err')
    <2>0. \A i \in 1 .. Len(err) - 1 : i \in 1 .. Len(err) /\ i < Len(err)
      BY <1>13
    <2>1. \A i, j \in 1 .. Len(err') : i < j => err'[i] <= err'[j]
      BY <1>4, <1>13, <2>0 DEF HistSorted
    <2>2. ASSUME NEW i \in 1 .. Len(err'), NEW q \in Elems(lst'["tmp"])
          PROVE  err'[i] <= stamp'[q]
      <3>1. CASE q = p
        <4>1. Len(err) \in 1 .. Len(err)
          BY <1>13
        <4> QED BY <1>4, <1>5, <1>13, <2>0, <3>1, <4>1 DEF HistSorted
      <3>2. CASE q # p
        BY <1>4, <1>5, <1>7, <1>10, <1>13, <2>0, <3>2 DEF HistSorted
      <3> QED BY <3>1, <3>2
    <2>3. ASSUME NEW q \in Packs, NEW r \in Packs, Prec(lst'["tmp"], q, r)
          PROVE  stamp'[q] <= stamp'[r]
      <3>1. CASE Prec(t, q, r)
        <4>1. q # p /\ r # p
          BY <1>10, <3>1, PrecElems
        <4> QED BY <1>4, <1>5, <3>1, <4>1 DEF HistSorted
      <3>2. CASE q = p /\ r \in Elems(t)
        <4>1. Len(err) \in 1 .. Len(err)
          BY <1>13
        <4>2. stamp'[q] = err[Len(err)] /\ stamp'[r] = stamp[r]
          BY <1>5, <1>10, <1>13, <3>2
        <4> QED BY <1>4, <3>2, <4>1, <4>2 DEF HistSorted
      <3> QED BY <1>7, <2>3, <3>1, <3>2
    <2> QED BY <2>1, <2>2, <2>3 DEF HistSorted
  <1> QED BY <1>11, <1>12, <1>14 DEF Ordered

\* gb_data_clear_report: nothing is on the lists of reports.
LEMMA ClearOrdered ==
    ASSUME Before, ClearReport, ~torn', UNCHANGED hold,
           NEW e, \A i, j \in 1 .. Len(e) : i < j => e[i] <= e[j], err' = e
    PROVE  Ordered'
  <1>1. /\ lst'["realtm"] = <<>> /\ lst'["trans"] = <<>> /\ lst'["delay"] = <<>>
        /\ lst'["tmp"] = <<>> /\ hold' \notin Packs
    BY BeforeFacts DEF ClearReport, Lists
  <1>2. \A l \in {"realtm", "trans", "delay", "tmp"} :
            Elems(lst'[l]) = {} /\ \A p, q : ~Prec(lst'[l], p, q)
    BY <1>1, EmptyElems, EmptyPrec
  <1>3. Homed(lst', home')
    BY <1>2 DEF Homed
  <1>4. RealSorted(lst', hold', home', stamp')
    BY <1>1, <1>2 DEF RealSorted, Chain
  <1>5. HistSorted(lst', stamp', err')
    BY <1>2 DEF HistSorted
  <1> QED BY <1>3, <1>4, <1>5 DEF Ordered

\* Steps that leave the lists alone, and the ring, or that empty it.
LEMMA SameOrdered ==
    ASSUME Before, UNCHANGED <<lst, home, stamp, hold>>, err' \in {err, <<>>}
    PROVE  Ordered'
  <1>1. Homed(lst', home') /\ RealSorted(lst', hold', home', stamp')
    BY DEF Before, Ordered, Homed, RealSorted, Chain
  <1>2. HistSorted(lst', stamp', err')
    BY DEF Before, Ordered, HistSorted
  <1> QED BY <1>1, <1>2 DEF Ordered

\* The ring keeps the latest of what is put into it.
LEMMA NewestProps ==
    ASSUME NEW s \in Seq(Nat), NEW n \in Nat
    PROVE  /\ Newest(s, n) \in Seq(Nat)
           /\ \E k \in Nat : \A i \in 1 .. Len(Newest(s, n)) :
                 i + k \in 1 .. Len(s) /\ Newest(s, n)[i] = s[i + k]
  <1> DEFINE m == Len(s)
             a == IF m > n THEN m - n + 1 ELSE 1
             t == SubSeq(s, a, m)
  <1>1. m \in Nat /\ a \in Nat /\ a >= 1 /\ \A i \in a .. m : i \in 1 .. m /\ s[i] \in Nat
    OBVIOUS
  <1>2. t = Newest(s, n)
    BY DEF Newest
  <1>3. a \in Int /\ m \in Int /\ \A i \in a .. m : s[i] \in Nat
    BY <1>1
  <1> HIDE DEF a, m
  <1>4. /\ t \in Seq(Nat) /\ Len(t) = IF a <= m THEN m - a + 1 ELSE 0
        /\ \A i \in 1 .. m - a + 1 : t[i] = s[a + i - 1]
    BY <1>3, SubSeqProperties
  <1> HIDE DEF t
  <1>5. ASSUME NEW i \in 1 .. Len(t)
        PROVE  i + (a - 1) \in 1 .. m /\ t[i] = s[i + (a - 1)]
    <2>1. i \in 1 .. m - a + 1 /\ i + (a - 1) \in 1 .. m /\ a + i - 1 = i + (a - 1)
      BY <1>1, <1>4
    <2> QED BY <1>4, <2>1
  <1>6. a - 1 \in Nat
    BY <1>1
  <1> QED BY <1>2, <1>4, <1>5, <1>6 DEF m

\* gb_data_save_error: the recordings of this tick are the latest.
LEMMA RecordErr ==
    ASSUME NEW e \in Seq(Nat), NEW c \in Nat, NEW n \in Nat,
           \A i \in 1 .. Len(e) : e[i] <= c,
           \A i, j \in 1 .. Len(e) : i < j => e[i] <= e[j]
    PROVE  LET r == Newest(e \o [i \in 1 .. Group |-> c], n)
           IN  /\ r \in Seq(Nat)
               /\ \A i \in 1 .. Len(r) : r[i] <= c
               /\ \A i, j \in 1 .. Len(r) : i < j => r[i] <= r[j]
  <1> DEFINE g == [i \in 1 .. Group |-> c]
             s == e \o g
             m == Len(e)
             r == Newest(s, n)
  <1>1. g \in Seq(Nat) /\ Len(g) = Group /\ Group \in Nat /\ \A i \in 1 .. Group : g[i] = c
    BY DataAssumption
  <1> HIDE DEF g
  <1>2. /\ m \in Nat /\ s \in Seq(Nat) /\ Len(s) = m + Group
        /\ \A i \in 1 .. m : s[i] = e[i] /\ e[i] \in Nat
        /\ \A i \in m + 1 .. m + Group : s[i] = g[i - m] /\ i - m \in 1 .. Group
    <2>1. m \in Nat /\ s \in Seq(Nat) /\ Len(s) = m + Group
      BY <1>1
    <2>2. \A i \in 1 .. m : s[i] = e[i] /\ e[i] \in Nat
      BY <1>1
    <2>3. \A i \in m + 1 .. m + Group : i - m \in 1 .. Group
      BY <1>1, <2>1
    <2>4. \A i \in m + 1 .. m + Group : s[i] = g[i - m]
      BY <1>1
    <2> QED BY <2>1, <2>2, <2>3, <2>4
  <1> HIDE DEF s
  <1>3. ASSUME NEW i \in 1 .. m + Group
        PROVE  s[i] \in Nat /\ s[i] <= c /\ (i > m => s[i] = c)
    <2>1. CASE i <= m
      <3>1. i \in 1 .. m /\ ~(i > m)
        BY <1>2, <2>1
      <3> QED BY <1>2, <3>1 DEF m
    <2>2. CASE i > m
      <3>1. i \in m + 1 .. m + Group
        BY <1>1, <1>2, <2>2
      <3>2. s[i] = c
        BY <1>1, <1>2, <3>1
      <3> QED BY <3>2
    <2> QED BY <1>2, <2>1, <2>2
  <1>4. ASSUME NEW i \in 1 .. m + Group, NEW j \in 1 .. m + Group, i < j
        PROVE  s[i] <= s[j]
    <2>1. CASE j <= m
      <3>1. i \in 1 .. m /\ j \in 1 .. m
        BY <1>2, <1>4, <2>1
      <3> QED BY <1>2, <1>4, <3>1 DEF m
    <2>2. CASE j > m
      BY <1>3, <2>2
    <2> QED BY <1>2, <2>1, <2>2
  <1>5. PICK k \in Nat : \A i \in 1 .. Len(r) : i + k \in 1 .. Len(s) /\ r[i] = s[i + k]
    BY <1>2, NewestProps
  <1>6. r \in Seq(Nat)
    BY <1>2, NewestProps
  <1> HIDE DEF r
  <1>7. \A i \in 1 .. Len(r) : r[i] <= c
    BY <1>2, <1>3, <1>5
  <1>8. ASSUME NEW i \in 1 .. Len(r), NEW j \in 1 .. Len(r), i < j
        PROVE  r[i] <= r[j]
    <2>1. i + k < j + k
      BY <1>6, <1>8
    <2> QED BY <1>2, <1>4, <1>5, <2>1
  <1> QED BY <1>6, <1>7, <1>8 DEF r, s, g

\* gb_data_periodic's counters.
LEMMA PeriodicOrdered ==
    ASSUME Before, DataTypeOK, PastOnly, TmpInFlush, Periodic
    PROVE  Ordered' /\ PastOnly' /\ err' \in Seq(Nat)
  <1>1. /\ UNCHANGED <<lst, home, stamp, hold>> /\ clock' = clock + 1 /\ lst["tmp"] = <<>>
        /\ err' = IF times = 0 THEN Newest(err \o [i \in 1 .. Group |-> clock'], ErrSize) ELSE err
    BY DEF Periodic, TickDue, TmpInFlush
  <1>2. err \in Seq(Nat) /\ clock \in Nat /\ clock' \in Nat /\ ErrSize \in Nat
        /\ stamp \in [Packs -> Nat]
    BY <1>1, DataAssumption DEF DataTypeOK, ErrSize
  <1>3. /\ \A i \in 1 .. Len(err) : err[i] <= clock'
        /\ \A i, j \in 1 .. Len(err) : i < j => err[i] <= err[j]
        /\ \A p \in Packs : stamp'[p] <= clock'
    <2>1. \A i \in 1 .. Len(err) : err[i] \in Nat
      BY <1>2
    <2> QED BY <1>1, <1>2, <2>1 DEF PastOnly, Before, Ordered, HistSorted
  <1>4. /\ err' \in Seq(Nat)
        /\ \A i \in 1 .. Len(err') : err'[i] <= clock'
        /\ \A i, j \in 1 .. Len(err') : i < j => err'[i] <= err'[j]
    BY <1>1, <1>2, <1>3, RecordErr
  <1>5. Homed(lst', home') /\ RealSorted(lst', hold', home', stamp')
    BY <1>1 DEF Before, Ordered, Homed, RealSorted, Chain
  <1>6. Elems(lst'["tmp"]) = {} /\ \A p, q : ~Prec(lst'["tmp"], p, q)
    BY <1>1, EmptyElems, EmptyPrec
  <1>7. HistSorted(lst', stamp', err')
    BY <1>4, <1>6 DEF HistSorted
  <1> QED BY <1>3, <1>4, <1>5, <1>7 DEF Ordered, PastOnly

-----------------------------------------------------------------------------
(* The types of the other variables, and the theorems.                     *)

\* What is left of DataTypeOK without the lists, the payloads and the ring; while
\* gb_data_save_realtm runs there is an iteration left.
Switches ==
    /\ inited \in BOOLEAN /\ loaded \in BOOLEAN
    /\ canact \in BOOLEAN /\ warntrig \in BOOLEAN /\ triger \in BOOLEAN
    /\ pendflag \in BOOLEAN /\ emerg \in BOOLEAN
    /\ torn \in BOOLEAN
Places ==
    /\ datlk \in {"none", "can", "gb"}
    /\ canpc \in {"idle", "count", "save", "flush", "stuck"}
    /\ cont \in {"idle", "count"}
Counts ==
    /\ left \in Nat /\ (canpc = "save" => left >= 1)
    /\ times \in Nat /\ ticks \in Nat /\ clock \in Nat
Scalars == Switches /\ Places /\ Counts

\* Steps of the CAN thread keep the switches.
LEMMA CanKeepsSwitches ==
    ASSUME Switches, CanThread
    PROVE  Switches'
  <1> USE DEF canVars, flagVars, Switches
  <1>1. CASE CanActive \/ CanSleep \/ Warning
    BY <1>1, Zenon DEF CanActive, CanSleep, Warning
  <1>2. CASE DbcFinished
    BY <1>2, Zenon DEF DbcFinished, ClearReport
  <1>3. CASE PeriodicWarn
    BY <1>3, Zenon DEF PeriodicWarn
  <1>4. CASE Periodic
    BY <1>4, Zenon DEF Periodic
  <1>5. CASE SaveRealtm
    BY <1>5, Zenon DEF SaveRealtm
  <1>6. CASE BigError
    BY <1>6, Zenon DEF BigError
  <1>7. CASE FlushErrorCopy \/ FlushErrorSplice
    BY <1>7, Zenon DEF FlushErrorCopy, FlushErrorSplice
  <1> QED BY <1>1, <1>2, <1>3, <1>4, <1>5, <1>6, <1>7 DEF CanThread

\* The protocol thread's calls keep them.
LEMMA GbKeepsSwitches ==
    ASSUME Switches, GbUser
    PROVE  Switches'
  <1> USE DEF canVars, flagVars, Switches
  <1>1. CASE gb_data_get_pack \/ gb_data_ack_pack \/ gb_data_flush_realtm
    BY <1>1, Zenon DEF gb_data_get_pack, gb_data_ack_pack, gb_data_flush_realtm
  <1>2. CASE FlushSendingOne
    BY <1>2, Zenon DEF FlushSendingOne
  <1>3. CASE gb_data_put_back \/ gb_data_put_send \/ ForgetPack
    BY <1>3, Zenon DEF gb_data_put_back, gb_data_put_send, ForgetPack
  <1>4. CASE gb_data_clear_report \/ gb_data_clear_error
    BY <1>4, Zenon DEF gb_data_clear_report, ClearReport, gb_data_clear_error
  <1>5. CASE \E b \in BOOLEAN : gb_data_emergence(b) \/ gb_data_set_pendflag(b)
    BY <1>5, Zenon DEF gb_data_emergence, gb_data_set_pendflag
  <1> QED BY <1>1, <1>2, <1>3, <1>4, <1>5 DEF GbUser

\* Steps of the CAN thread keep the places and the counters.
LEMMA CanKeepsCounts ==
    ASSUME Places, Counts, CanThread
    PROVE  Places' /\ Counts'
  <1> USE DEF canVars, flagVars, Places, Counts
  <1>1. CASE CanActive \/ CanSleep \/ Warning
    BY <1>1 DEF CanActive, CanSleep, Warning
  <1>2. CASE DbcFinished
    BY <1>2 DEF DbcFinished
  <1>3. CASE PeriodicWarn
    <2>1. Places'
      BY <1>3 DEF PeriodicWarn
    <2>2. times' \in Nat /\ UNCHANGED <<left, ticks, clock>> /\ canpc' # "save"
      BY <1>3, DataAssumption DEF PeriodicWarn
    <2> QED BY <2>1, <2>2
  <1>4. CASE Periodic
    BY <1>4, DataAssumption DEF Periodic
  <1>5. CASE SaveRealtm
    <2>1. Places'
      BY <1>5 DEF SaveRealtm
    <2>2. left >= 1 /\ left' = left - 1 /\ UNCHANGED <<times, ticks, clock>>
      BY <1>5 DEF SaveRealtm
    <2>3. canpc' = "save" => left > 1
      BY <1>5 DEF SaveRealtm
    <2> QED BY <2>1, <2>2, <2>3
  <1>6. CASE BigError
    BY <1>6 DEF BigError
  <1>7. CASE FlushErrorCopy
    BY <1>7 DEF FlushErrorCopy
  <1>8. CASE FlushErrorSplice
    BY <1>8 DEF FlushErrorSplice
  <1> QED BY <1>1, <1>2, <1>3, <1>4, <1>5, <1>6, <1>7, <1>8 DEF CanThread

\* The protocol thread only locks and unlocks the mutex.
LEMMA GbKeepsCounts ==
    ASSUME Places, Counts, GbUser
    PROVE  Places' /\ Counts'
  <1>1. UNCHANGED canVars
    BY DEF GbUser, gb_data_get_pack, gb_data_ack_pack, gb_data_flush_realtm, FlushSendingOne,
           gb_data_put_back, gb_data_put_send, ForgetPack, gb_data_clear_report,
           gb_data_clear_error, gb_data_emergence, gb_data_set_pendflag
  <1>2. datlk' \in {"none", "can", "gb"}
    BY DEF Places, GbUser, gb_data_get_pack, gb_data_ack_pack, gb_data_flush_realtm,
           FlushSendingOne, gb_data_put_back, gb_data_put_send, ForgetPack,
           gb_data_clear_report, gb_data_clear_error, gb_data_emergence, gb_data_set_pendflag
  <1> QED BY <1>1, <1>2 DEF canVars, Places, Counts

\* The types of the recordings, none of which is later than the clock.
Payloads ==
    /\ stamp \in [Packs -> Nat]
    /\ err \in Seq(Nat)
    /\ PastOnly

\* The parts make the type invariant.
LEMMA TypesTogether == PoolType /\ Scalars /\ Payloads => DataTypeOK
  BY DEF PoolType, Scalars, Switches, Places, Counts, Payloads, DataTypeOK

\* What is written into packs and into the ring is recorded at the clock, or was in it.
LEMMA CanKeepsPayloads ==
    ASSUME Before, Scalars, Payloads, TmpInFlush, CanThread
    PROVE  Payloads'
  <1> USE DEF canVars
  <1>0. DataTypeOK /\ clock \in Nat /\ PoolInv
    BY TypesTogether DEF Before, PoolInv, Scalars, Counts
  <1>1. CASE UNCHANGED <<stamp, err, clock>>
    BY <1>1 DEF Payloads, PastOnly
  <1>2. CASE UNCHANGED <<stamp, clock>> /\ err' = <<>>
    BY <1>2 DEF Payloads, PastOnly
  <1>3. CASE Periodic
    <2>1. UNCHANGED stamp
      BY <1>3 DEF Periodic
    <2> QED BY <1>0, <1>3, <2>1, PeriodicOrdered DEF Payloads
  <1>4. CASE SaveRealtm
    <2>1. /\ stamp' = [stamp EXCEPT ![Head(lst[BufferFrom])] = clock]
          /\ UNCHANGED <<err, clock>>
      BY <1>4 DEF SaveRealtm
    <2>2. stamp \in [Packs -> Nat] /\ \A p \in Packs : stamp[p] <= clock
      BY DEF Payloads, PastOnly
    <2> DEFINE x == Head(lst[BufferFrom])
    <2>3. stamp' = [stamp EXCEPT ![x] = clock]
      BY <2>1
    <2> HIDE DEF x
    <2>4. \A p \in Packs : stamp'[p] = IF p = x THEN clock ELSE stamp[p]
      BY <2>2, <2>3
    <2>5. stamp' \in [Packs -> Nat]
      BY <1>0, <2>2, <2>3
    <2>6. \A p \in Packs : stamp'[p] <= clock
      <3>1. clock <= clock
        BY <1>0
      <3> QED BY <2>2, <2>4, <3>1
    <2> QED BY <2>1, <2>5, <2>6 DEF Payloads, PastOnly
  <1>5. CASE FlushErrorCopy
    <2>1. /\ stamp' = [stamp EXCEPT ![Head(lst[BufferFrom])] = Last(err)]
          /\ err' = Front(err) /\ UNCHANGED clock /\ err # <<>>
      BY <1>5 DEF FlushErrorCopy
    <2>2. err \in Seq(Nat) /\ \A i \in 1 .. Len(err) : err[i] <= clock
      BY DEF Payloads, PastOnly
    <2>3. /\ Last(err) \in Nat /\ Last(err) <= clock
          /\ Front(err) \in Seq(Nat)
          /\ \A i \in 1 .. Len(Front(err)) : Front(err)[i] <= clock
      <3>1. /\ Len(err) \in Nat \ {0} /\ Last(err) = err[Len(err)] /\ Last(err) \in Nat
            /\ Front(err) \in Seq(Nat) /\ Len(Front(err)) = Len(err) - 1
            /\ \A i \in 1 .. Len(err) - 1 : Front(err)[i] = err[i]
        BY <2>1, <2>2, FrontProps
      <3>2. Last(err) <= clock
        BY <2>2, <3>1
      <3>3. ASSUME NEW i \in 1 .. Len(Front(err)) PROVE Front(err)[i] <= clock
        <4>1. i \in 1 .. Len(err) - 1 /\ i \in 1 .. Len(err)
          BY <3>1
        <4> QED BY <2>2, <3>1, <4>1
      <3> QED BY <3>1, <3>2, <3>3
    <2> QED BY <1>0, <2>1, <2>3 DEF Payloads, PastOnly
  <1>6. CASE CanActive \/ DbcFinished \/ Warning \/ PeriodicWarn \/ BigError \/ FlushErrorSplice
    BY <1>1, <1>2, <1>6
       DEF CanActive, DbcFinished, Warning, PeriodicWarn, BigError, FlushErrorSplice
  <1>7. CASE CanSleep
    BY <1>2, <1>7 DEF CanSleep, ClearError
  <1> QED BY <1>3, <1>4, <1>5, <1>6, <1>7 DEF CanThread

\* The protocol thread records nothing.
LEMMA GbKeepsPayloads ==
    ASSUME Payloads, GbUser
    PROVE  Payloads'
  <1>1. UNCHANGED <<stamp, clock>> /\ err' \in {err, <<>>}
    BY DEF canVars, GbUser, gb_data_get_pack, gb_data_ack_pack, gb_data_flush_realtm,
           FlushSendingOne, gb_data_put_back, gb_data_put_send, ForgetPack,
           gb_data_clear_report, gb_data_clear_error, ClearError, gb_data_emergence,
           gb_data_set_pendflag
  <1>2. CASE err' = err
    BY <1>1, <1>2 DEF Payloads, PastOnly
  <1>3. CASE err' = <<>>
    BY <1>1, <1>3 DEF Payloads, PastOnly
  <1> QED BY <1>1, <1>2, <1>3

\* tmplst is filled and emptied while canpc is "flush".
LEMMA CanKeepsTmp ==
    ASSUME PoolInv, ~torn, TmpInFlush, CanThread
    PROVE  TmpInFlush'
  <1> USE DEF canVars, TmpInFlush
  <1>0. lst \in [Lists -> Seq(Packs)]
    BY DEF PoolInv, PoolType
  <1>1. CASE CanActive \/ CanSleep \/ Warning \/ Periodic \/ BigError \/ FlushErrorCopy
    BY <1>1 DEF CanActive, CanSleep, Warning, Periodic, TickDue, BigError, FlushErrorCopy
  <1>2. CASE DbcFinished
    BY <1>2 DEF DbcFinished, ClearReport, Lists
  <1>3. CASE PeriodicWarn
    BY <1>0, <1>3 DEF PeriodicWarn, TickDue, FlushRealtm, Lists
  <1>4. CASE SaveRealtm
    <2>1. BufferFrom # "tmp" /\ canpc = "save" /\ lst["tmp"] = <<>>
      BY <1>4 DEF SaveRealtm, BufferFrom
    <2> QED BY <1>0, <1>4, <2>1 DEF SaveRealtm, Lists
  <1>5. CASE FlushErrorSplice
    BY <1>0, <1>5 DEF FlushErrorSplice, Lists
  <1> QED BY <1>1, <1>2, <1>3, <1>4, <1>5 DEF CanThread

\* The protocol thread does not touch it.
LEMMA GbKeepsTmp ==
    ASSUME PoolInv, ~torn, TmpInFlush, GbUser
    PROVE  TmpInFlush'
  <1>0. lst \in [Lists -> Seq(Packs)] /\ home \in [Packs -> {"realtm", "delay"}]
    BY DEF PoolInv, PoolType
  <1>1. UNCHANGED canpc
    BY DEF canVars, GbUser, gb_data_get_pack, gb_data_ack_pack, gb_data_flush_realtm,
           FlushSendingOne, gb_data_put_back, gb_data_put_send, ForgetPack,
           gb_data_clear_report, gb_data_clear_error, gb_data_emergence, gb_data_set_pendflag
  <1>2. lst'["tmp"] = lst["tmp"]
    <2>1. CASE FlushSendingOne
      <3>1. Last(lst["trans"]) \in Packs
        BY <1>0, <2>1, FrontProps DEF FlushSendingOne, Lists
      <3> QED BY <1>0, <2>1, <3>1 DEF FlushSendingOne, Lists
    <2>2. CASE hold # NoPack /\ gb_data_put_back
      <3>1. home[hold] \in {"realtm", "delay"}
        BY <1>0, <2>2 DEF PoolInv, PoolType
      <3> QED BY <1>0, <2>2, <3>1 DEF gb_data_put_back, Lists
    <2>3. CASE gb_data_get_pack \/ gb_data_ack_pack \/ gb_data_flush_realtm \/ gb_data_put_send
      BY <1>0, <2>3 DEF gb_data_get_pack, gb_data_ack_pack, gb_data_flush_realtm, FlushRealtm,
                        gb_data_put_send, Lists
    <2>4. CASE gb_data_clear_report
      BY <2>4 DEF gb_data_clear_report, ClearReport, Lists
    <2>5. CASE UNCHANGED lst
      BY <2>5
    <2> QED BY <2>1, <2>2, <2>3, <2>4, <2>5
            DEF GbUser, ForgetPack, gb_data_clear_error, gb_data_emergence, gb_data_set_pendflag
  <1> QED BY <1>1, <1>2 DEF TmpInFlush

\* The reports stay in order in every step of the CAN thread.
LEMMA CanKeepsOrder ==
    ASSUME Before, Scalars, Payloads, TmpInFlush, CanThread, ~torn'
    PROVE  Ordered'
  <1> USE DEF canVars
  <1>0. DataTypeOK /\ PastOnly
    BY TypesTogether DEF Before, PoolInv, Payloads
  <1>1. CASE CanActive \/ CanSleep \/ Warning \/ BigError
    BY <1>1, SameOrdered DEF CanActive, CanSleep, ClearError, Warning, BigError
  <1>2. CASE DbcFinished
    <2>1. err' = <<>> /\ ClearReport /\ UNCHANGED hold
      BY <1>2 DEF DbcFinished
    <2>2. \A i, j \in 1 .. Len(<<>>) : i < j => <<>>[i] <= <<>>[j]
      OBVIOUS
    <2> QED BY <2>1, <2>2, ClearOrdered
  <1>3. CASE PeriodicWarn
    <2>1. CASE pendflag
      BY <1>3, <2>1, FlushRealtmOrdered DEF PeriodicWarn
    <2>2. CASE ~pendflag
      BY <1>3, <2>2, SameOrdered DEF PeriodicWarn
    <2> QED BY <2>1, <2>2
  <1>4. CASE Periodic
    BY <1>0, <1>4, PeriodicOrdered
  <1>5. CASE SaveRealtm
    BY <1>0, <1>5, SaveOrdered
  <1>6. CASE FlushErrorCopy
    BY <1>0, <1>6, CopyOrdered
  <1>7. CASE FlushErrorSplice
    BY <1>7, SpliceOrdered
  <1> QED BY <1>1, <1>2, <1>3, <1>4, <1>5, <1>6, <1>7 DEF CanThread

\* And in every call of the protocol thread.
LEMMA GbKeepsOrder ==
    ASSUME Before, GbUser, ~torn'
    PROVE  Ordered'
  <1>1. CASE gb_data_get_pack
    BY <1>1, GetOrdered
  <1>2. CASE gb_data_ack_pack
    BY <1>2, AckOrdered
  <1>3. CASE gb_data_flush_realtm
    BY <1>3, FlushRealtmOrdered DEF gb_data_flush_realtm
  <1>4. CASE hold = NoPack /\ FlushSendingOne
    BY <1>4, FlushSendingOrdered
  <1>5. CASE hold # NoPack /\ gb_data_put_back
    BY <1>5, PutBackOrdered
  <1>6. CASE hold # NoPack /\ (gb_data_put_send \/ ForgetPack)
    BY <1>6, PutSendOrdered
  <1>7. CASE gb_data_clear_report
    <2>1. ClearReport /\ UNCHANGED <<err, hold>>
      BY <1>7 DEF gb_data_clear_report
    <2>2. \A i, j \in 1 .. Len(err) : i < j => err[i] <= err[j]
      BY DEF Before, Ordered, HistSorted
    <2> QED BY <2>1, <2>2, ClearOrdered
  <1>8. CASE gb_data_clear_error \/ \E b \in BOOLEAN : gb_data_emergence(b) \/ gb_data_set_pendflag(b)
    BY <1>8, SameOrdered DEF gb_data_clear_error, ClearError, gb_data_emergence, gb_data_set_pendflag
  <1> QED BY <1>1, <1>2, <1>3, <1>4, <1>5, <1>6, <1>7, <1>8 DEF GbUser

\* The inductive invariant of the order of the reports.
OrderInv ==
    /\ PoolInv /\ Scalars /\ Payloads
    /\ ~torn => Ordered /\ TmpInFlush

\* OrderInv is inductive: at the start there is no report, and every step of either
\* thread keeps the order, the types and the recordings' times.
THEOREM OrderInvInductive ==
    /\ DataInit => OrderInv
    /\ OrderInv /\ [DataNext]_dataVars => OrderInv'
  <1>1. ASSUME DataInit PROVE OrderInv
    <2>1. PoolInv
      BY <1>1, PoolInvInductive
    <2>2. Scalars
      BY <1>1 DEF DataInit, Scalars, Switches, Places, Counts
    <2>3. Payloads
      BY <1>1 DEF DataInit, Payloads, PastOnly
    <2>4. \A l \in {"realtm", "trans", "delay", "tmp"} : lst[l] = <<>>
      BY <1>1 DEF DataInit, Lists
    <2>5. \A l \in {"realtm", "trans", "delay", "tmp"} :
              Elems(lst[l]) = {} /\ \A p, q : ~Prec(lst[l], p, q)
      BY <2>4, EmptyElems, EmptyPrec
    <2>6. Homed(lst, home) /\ RealSorted(lst, hold, home, stamp)
      BY <2>5 DEF Homed, RealSorted, Chain
    <2>7. HistSorted(lst, stamp, err)
      BY <1>1, <2>5 DEF DataInit, HistSorted
    <2> QED BY <2>1, <2>2, <2>3, <2>4, <2>6, <2>7 DEF OrderInv, Ordered, TmpInFlush
  <1>2. ASSUME OrderInv, DataNext PROVE OrderInv'
    <2>1. ~torn /\ Before /\ TmpInFlush /\ Scalars /\ Payloads
      BY <1>2 DEF OrderInv, DataNext, Before
    <2>2. PoolInv'
      BY <1>2, PoolInvInductive DEF OrderInv
    <2>3. Scalars'
      BY <1>2, <2>1, CanKeepsSwitches, GbKeepsSwitches, CanKeepsCounts, GbKeepsCounts
         DEF DataNext, Scalars
    <2>4. Payloads'
      BY <1>2, <2>1, CanKeepsPayloads, GbKeepsPayloads DEF DataNext
    <2>5. TmpInFlush'
      BY <1>2, <2>1, CanKeepsTmp, GbKeepsTmp DEF DataNext, Before
    <2>6. ~torn' => Ordered'
      BY <1>2, <2>1, CanKeepsOrder, GbKeepsOrder DEF DataNext
    <2> QED BY <2>2, <2>3, <2>4, <2>5, <2>6 DEF OrderInv
  <1>3. ASSUME OrderInv, UNCHANGED dataVars PROVE OrderInv'
    <2>1. PoolInv'
      BY <1>3, PoolUnchanged DEF OrderInv, dataVars
    <2>2. Scalars' /\ Payloads'
      BY <1>3 DEF OrderInv, dataVars, canVars, flagVars, Scalars, Switches, Places, Counts,
                  Payloads, PastOnly
    <2>3. ~torn' => Ordered' /\ TmpInFlush'
      BY <1>3, SameOrdered DEF OrderInv, Before, TmpInFlush, dataVars, canVars
    <2> QED BY <2>1, <2>2, <2>3 DEF OrderInv
  <1> QED BY <1>1, <1>2, <1>3

\* The list a report waits on and its type agree in every reachable state: no report is
\* transmitted as real-time that waits on the delay list, or the other way round, whatever
\* was put back, returned from the trans list or flushed to the delay list.
THEOREM ListAlwaysMatchesType == DataSpec => []ListMatchesType
  <1>1. OrderInv => ListMatchesType
    BY DEF OrderInv, Ordered, Homed, ListMatchesType
  <1> QED BY <1>1, OrderInvInductive, PTL DEF DataSpec

\* The real-time reports and the history of a warning are sorted by the time of recording
\* in every reachable state: in every interleaving of recording, sending, putting back and
\* returning the unacknowledged reports, and for every size of the pool and of the history.
THEOREM ReportsAlwaysInOrder == DataSpec => []ReportsInOrder
  <1>1. ASSUME OrderInv PROVE DataTypeOK
    BY <1>1, TypesTogether DEF OrderInv, PoolInv
  <1>2. ASSUME OrderInv, ~torn PROVE InOrder(Stamps("realtm"))
    <2> DEFINE r == lst["realtm"]
    <2>1. r \in Seq(Packs) /\ Homed(lst, home) /\ RealSorted(lst, hold, home, stamp)
      BY <1>2 DEF OrderInv, Ordered, PoolInv, PoolType, Lists
    <2>2. \A i, j \in 1 .. Len(r) : i < j => Prec(r, r[i], r[j])
      BY DEF Prec
    <2>3. \A i \in 1 .. Len(r) : r[i] \in Packs /\ home[r[i]] = "realtm"
      BY <2>1 DEF Homed, Elems
    <2>4. \A i, j \in 1 .. Len(r) : i < j => stamp[r[i]] <= stamp[r[j]]
      BY <2>1, <2>2, <2>3 DEF RealSorted, Chain
    <2>5. Stamps("realtm") = [i \in 1 .. Len(r) |-> stamp[r[i]]] /\ Len(r) \in Nat
      BY <2>1 DEF Stamps
    <2> HIDE DEF r
    <2>6. Len(Stamps("realtm")) = Len(r)
      BY <2>5
    <2> QED BY <2>4, <2>5, <2>6 DEF InOrder
  <1>3. ASSUME OrderInv, ~torn PROVE InOrder(err \o Stamps("tmp"))
    <2> DEFINE r == lst["tmp"]
               t == [i \in 1 .. Len(r) |-> stamp[r[i]]]
               m == Len(err)
               n == Len(r)
               s == err \o t
    <2>1. /\ r \in Seq(Packs) /\ HistSorted(lst, stamp, err) /\ err \in Seq(Nat)
          /\ stamp \in [Packs -> Nat]
      BY <1>3 DEF OrderInv, Ordered, PoolInv, PoolType, Payloads, Lists
    <2>2. m \in Nat /\ n \in Nat /\ \A i \in 1 .. n : r[i] \in Packs /\ r[i] \in Elems(r)
      BY <2>1 DEF Elems
    <2>3. \A i, j \in 1 .. n : i < j => Prec(r, r[i], r[j])
      BY DEF Prec
    <2>4. /\ \A i, j \in 1 .. m : i < j => err[i] <= err[j]
          /\ \A i \in 1 .. m, j \in 1 .. n : err[i] <= stamp[r[j]]
          /\ \A i, j \in 1 .. n : i < j => stamp[r[i]] <= stamp[r[j]]
      BY <2>1, <2>2, <2>3 DEF HistSorted
    <2>5. t \in Seq(Nat) /\ Len(t) = n /\ \A i \in 1 .. n : t[i] = stamp[r[i]]
      BY <2>1, <2>2
    <2>6. t = Stamps("tmp")
      BY DEF Stamps
    <2> HIDE DEF t, r, n
    <2>7. /\ Len(s) = m + n
          /\ \A i \in 1 .. m : s[i] = err[i]
          /\ \A i \in m + 1 .. m + n : s[i] = t[i - m] /\ i - m \in 1 .. n
      BY <2>1, <2>2, <2>5
    <2> HIDE DEF s
    <2>8. ASSUME NEW i \in 1 .. m + n, NEW j \in 1 .. m + n, i < j
          PROVE  s[i] <= s[j]
      <3>1. CASE j <= m
        <4>1. i \in 1 .. m /\ j \in 1 .. m
          BY <2>2, <2>8, <3>1
        <4> QED BY <2>4, <2>7, <2>8, <4>1
      <3>2. CASE i <= m /\ j > m
        <4>1. i \in 1 .. m /\ j \in m + 1 .. m + n /\ j - m \in 1 .. n
          BY <2>2, <2>8, <3>2
        <4>2. s[i] = err[i] /\ s[j] = stamp[r[j - m]]
          BY <2>5, <2>7, <4>1
        <4> QED BY <2>4, <4>1, <4>2
      <3>3. CASE i > m
        <4>1. /\ i \in m + 1 .. m + n /\ j \in m + 1 .. m + n
              /\ i - m \in 1 .. n /\ j - m \in 1 .. n /\ i - m < j - m
          BY <2>2, <2>8, <3>3
        <4>2. s[i] = stamp[r[i - m]] /\ s[j] = stamp[r[j - m]]
          BY <2>5, <2>7, <4>1
        <4> QED BY <2>4, <4>1, <4>2
      <3> QED BY <2>2, <3>1, <3>2, <3>3
    <2> QED BY <2>6, <2>7, <2>8 DEF InOrder, s
  <1>4. OrderInv => ReportsInOrder
    BY <1>1, <1>2, <1>3 DEF ReportsInOrder, RealtmInOrder, HistoryInOrder
  <1> QED BY <1>4, OrderInvInductive, PTL DEF DataSpec
=============================================================================
