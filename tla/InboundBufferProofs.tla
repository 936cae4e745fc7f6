------------------------- MODULE InboundBufferProofs -------------------------
(***************************************************************************)
(* What the debounce buffer guarantees for every set of messages and every *)
(* bound.  Whatever fails: the types, one flush at a time while Redis      *)
(* answers within a debounce, and each id once at most and in order.       *)
(* While Redis executes every command and the process is not restarted:    *)
(* nothing is lost, nothing is stranded, and every step is a step of       *)
(* DebouncedInbox.                                                         *)
(*                                                                         *)
(* Two notions carry the proofs.  A wake-up: each step that uses one up    *)
(* leaves another behind.  And `within': the ids that are still known are  *)
(* those at some increasing positions of the ids that arrived, and every   *)
(* step, also one that loses ids, keeps them so.                           *)
(***************************************************************************)
EXTENDS InboundBuffer, FiniteSetTheorems, FunctionTheorems, SequenceTheorems, TLAPS

-----------------------------------------------------------------------------
(* Positions in order *)

\* How many of the positions P are not after i.
Rank(P, i) == Cardinality({j \in P : j <= i})

LEMMA RankIs ==
    ASSUME NEW P \in SUBSET Nat, IsFiniteSet(P), NEW i \in P
    PROVE  /\ IsFiniteSet(P) /\ Cardinality(P) \in Nat
           /\ IsFiniteSet({j \in P : j <= i})
           /\ Rank(P, i) \in Nat /\ Rank(P, i) <= Cardinality(P)
           /\ 1 <= Rank(P, i)
           /\ (\A j \in P : j <= i) => Rank(P, i) = Cardinality(P)
  <1> DEFINE U == {j \in P : j <= i}
  <1>2. IsFiniteSet(P) /\ Cardinality(P) \in Nat
    BY FS_CardinalityType
  <1>3. IsFiniteSet(U) /\ Cardinality(U) \in Nat /\ Cardinality(U) <= Cardinality(P)
    BY <1>2, FS_Subset, FS_CardinalityType
  <1>4. i \in P => 1 <= Cardinality(U)
    <2>1. i \in P => U # {}
      OBVIOUS
    <2>2. Cardinality(U) = 0 <=> U = {}
      BY <1>3, FS_EmptySet
    <2> QED  BY <1>3, <2>1, <2>2
  <1>5. (\A j \in P : j <= i) => U = P
    OBVIOUS
  <1> QED  BY <1>2, <1>3, <1>4, <1>5 DEF Rank

LEMMA RankGrows ==
    ASSUME NEW P \in SUBSET Nat, IsFiniteSet(P), NEW i \in P, NEW j \in P, i < j
    PROVE  Rank(P, i) < Rank(P, j)
  <1> DEFINE U == {x \in P : x <= i}
             V == {x \in P : x <= j}
  <1>0. i \in Nat /\ j \in Nat /\ \A x \in P : x \in Nat
    OBVIOUS
  <1>1. /\ \A x \in P : x <= i => x <= j
        /\ j <= j /\ ~(j <= i)
    BY <1>0
  <1>4. U \in SUBSET V /\ j \in V /\ j \notin U
    BY <1>1
  <1>2. /\ IsFiniteSet(V) /\ Cardinality(V) \in Nat /\ Cardinality(U) \in Nat
        /\ Rank(P, i) = Cardinality(U) /\ Rank(P, j) = Cardinality(V)
    BY RankIs DEF Rank
  <1> HIDE DEF U, V
  <1>3. Cardinality(U) <= Cardinality(V) /\ (Cardinality(V) = Cardinality(U) => V = U)
    BY <1>4, <1>2, FS_Subset
  <1> QED  BY <1>4, <1>2, <1>3

\* Different positions have different ranks, so every number up to that of
\* positions is the rank of one.
LEMMA RankSame ==
    ASSUME NEW P \in SUBSET Nat, IsFiniteSet(P), NEW i \in P, NEW j \in P, Rank(P, i) = Rank(P, j)
    PROVE  i = j
  <1>1. Rank(P, i) \in Nat /\ i \in Nat /\ j \in Nat
    BY RankIs
  <1>2. ~(i < j) /\ ~(j < i)
    BY <1>1, RankGrows
  <1> QED  BY <1>1, <1>2

LEMMA NthIs ==
    ASSUME NEW P \in SUBSET Nat, IsFiniteSet(P), NEW k \in 1..Cardinality(P)
    PROVE  Nth(P, k) \in P /\ Rank(P, Nth(P, k)) = k
  <1> DEFINE m == Cardinality(P)
             f == [i \in P |-> Rank(P, i)]
  <1>1. IsFiniteSet(P) /\ m \in Nat
    BY FS_CardinalityType
  <1>2. \A i \in P : Rank(P, i) \in 1..m
    <2> SUFFICES ASSUME NEW i \in P PROVE Rank(P, i) \in 1..m
      OBVIOUS
    <2>1. Rank(P, i) \in Nat /\ 1 <= Rank(P, i) /\ Rank(P, i) <= m
      BY RankIs
    <2> QED  BY <1>1, <2>1
  <1>3. \A i, j \in P : i # j => Rank(P, i) # Rank(P, j)
    <2>1. ASSUME NEW i \in P, NEW j \in P, i < j PROVE Rank(P, i) # Rank(P, j)
      <3>1. Rank(P, i) < Rank(P, j) /\ Rank(P, i) \in Nat
        BY <2>1, RankGrows, RankIs
      <3> QED  BY <3>1
    <2> QED  BY <2>1
  <1>4. f \in Injection(P, 1..m)
    <2> HIDE DEF m
    <2> QED  BY <1>2, <1>3 DEF Injection, IsInjective
  <1>5. IsFiniteSet(1..m) /\ Cardinality(1..m) = m
    BY <1>1, FS_Interval
  <1>6. f \in Surjection(P, 1..m)
    BY <1>4, <1>5, FS_Injection
  <1>7. \E i \in P : Rank(P, i) = k
    BY <1>6 DEF Surjection
  <1> QED  BY <1>7 DEF Nth, Rank

LEMMA NthUnique ==
    ASSUME NEW P \in SUBSET Nat, IsFiniteSet(P), NEW i \in P
    PROVE  Rank(P, i) \in 1..Cardinality(P) /\ Nth(P, Rank(P, i)) = i
  <1> DEFINE k == Rank(P, i)
             x == Nth(P, k)
  <1>0. Rank(P, i) \in Nat /\ 1 <= Rank(P, i) /\ Rank(P, i) <= Cardinality(P) /\ Cardinality(P) \in Nat
    BY RankIs
  <1>1. k \in 1..Cardinality(P)
    BY <1>0
  <1>2. x \in P /\ Rank(P, x) = k /\ k \in Nat
    BY <1>1, NthIs
  <1>3. x = i
    <2> HIDE DEF x
    <2> QED  BY <1>2, RankSame
  <1> QED  BY <1>1, <1>3

LEMMA NthGrows ==
    ASSUME NEW P \in SUBSET Nat, IsFiniteSet(P),
           NEW k \in 1..Cardinality(P), NEW l \in 1..Cardinality(P), k < l
    PROVE  Nth(P, k) < Nth(P, l)
  <1>1. /\ Nth(P, k) \in P /\ Nth(P, l) \in P
        /\ Rank(P, Nth(P, k)) = k /\ Rank(P, Nth(P, l)) = l
    BY NthIs
  <1>2. k \in Nat /\ l \in Nat /\ Nth(P, k) \in Nat /\ Nth(P, l) \in Nat
    <2>1. Cardinality(P) \in Nat
      BY FS_CardinalityType
    <2>2. k \in Nat /\ l \in Nat
      BY <2>1
    <2>3. Nth(P, k) \in Nat /\ Nth(P, l) \in Nat
      BY <1>1
    <2> QED  BY <2>2, <2>3
  <1>3. Nth(P, l) # Nth(P, k)
    BY <1>1, <1>2
  <1>4. ~(Nth(P, l) < Nth(P, k))
    BY <1>1, <1>2, RankGrows
  <1> QED  BY <1>2, <1>3, <1>4

\* The first k of increasing positions are k.
LEMMA CountUp ==
    ASSUME NEW n \in Nat, NEW m \in Nat, NEW f \in [1..n -> 1..m],
           \A k, l \in 1..n : k < l => f[k] < f[l], NEW k \in 0..n
    PROVE  Cardinality({f[l] : l \in 1..k}) = k
  <1> DEFINE T == {f[l] : l \in 1..k}
             g == [l \in 1..k |-> f[l]]
  <1>1. g \in [1..k -> T]
    OBVIOUS
  <1>2. \A a, b \in 1..k : g[a] = g[b] => a = b
    <2> SUFFICES ASSUME NEW a \in 1..k, NEW b \in 1..k, a < b PROVE g[a] # g[b]
      OBVIOUS
    <2> QED  OBVIOUS
  <1>3. \A t \in T : \E a \in 1..k : g[a] = t
    OBVIOUS
  <1>4. ExistsBijection(1..k, T)
    <2>1. g \in Bijection(1..k, T)
      BY <1>1, <1>2, <1>3 DEF Bijection, Injection, Surjection, IsInjective
    <2> QED  BY <2>1 DEF ExistsBijection
  <1> QED  BY <1>4, FS_CountingElements

-----------------------------------------------------------------------------
(* Sequences that are within others, in order *)

\* What t holds at the positions `pick'; and s is what t holds at increasing
\* positions f.
Picked(t, pick) == [k \in 1..Cardinality(pick) |-> t[Nth(pick, k)]]
Increasing(f, n) == \A k, l \in 1..n : k < l => f[k] < f[l]
Within(s, t) == \E f \in [1..Len(s) -> 1..Len(t)] :
                   Increasing(f, Len(s)) /\ \A k \in 1..Len(s) : s[k] = t[f[k]]

\* What is picked at some positions is within, and the other way round.
LEMMA PickedWithin ==
    ASSUME NEW S, NEW s \in Seq(S), NEW t \in Seq(S)
    PROVE  Within(s, t) <=> \E pick \in SUBSET (DOMAIN t) : s = Picked(t, pick)
  <1>0. /\ Len(s) \in Nat /\ DOMAIN s = 1..Len(s) /\ s = [k \in 1..Len(s) |-> s[k]]
        /\ Len(t) \in Nat /\ DOMAIN t = 1..Len(t)
    OBVIOUS
  <1>1. ASSUME NEW pick \in SUBSET (DOMAIN t), s = Picked(t, pick) PROVE Within(s, t)
    <2>1. pick \in SUBSET Nat /\ IsFiniteSet(pick) /\ Cardinality(pick) \in Nat
      <3>0. 1 \in Int /\ Len(t) \in Int
        BY <1>0
      <3>1. IsFiniteSet(1..Len(t))
        BY <3>0, FS_Interval
      <3>2. IsFiniteSet(pick)
        BY <1>0, <3>1, FS_Subset
      <3> QED  BY <1>0, <3>2, FS_CardinalityType
    <2>2. Len(s) = Cardinality(pick)
      BY <1>0, <1>1, <2>1 DEF Picked
    <2> DEFINE f == [k \in 1..Len(s) |-> Nth(pick, k)]
    <2>3. \A k \in 1..Len(s) : Nth(pick, k) \in pick
      BY <2>1, <2>2, NthIs
    <2>4. f \in [1..Len(s) -> 1..Len(t)]
      BY <1>0, <2>3
    <2>5. Increasing(f, Len(s))
      <3> SUFFICES ASSUME NEW k \in 1..Len(s), NEW l \in 1..Len(s), k < l PROVE Nth(pick, k) < Nth(pick, l)
        BY DEF Increasing
      <3> QED  BY <2>1, <2>2, NthGrows
    <2>6. \A k \in 1..Len(s) : s[k] = t[f[k]]
      BY <1>1, <2>2 DEF Picked
    <2> QED  BY <2>4, <2>5, <2>6 DEF Within
  <1>2. ASSUME Within(s, t) PROVE \E pick \in SUBSET (DOMAIN t) : s = Picked(t, pick)
    <2> DEFINE n == Len(s)
               m == Len(t)
    <2>0. PICK f \in [1..n -> 1..m] : Increasing(f, n) /\ \A k \in 1..n : s[k] = t[f[k]]
      BY <1>2 DEF Within
    <2> DEFINE pick == {f[l] : l \in 1..n}
    <2>1. n \in Nat /\ m \in Nat /\ \A k, l \in 1..n : k < l => f[k] < f[l]
      BY <1>0, <2>0 DEF Increasing
    <2>2. \A k \in 0..n : Cardinality({f[l] : l \in 1..k}) = k
      <3> HIDE DEF n, m
      <3> QED  BY <2>0, <2>1, CountUp
    <2>3. pick \in SUBSET (1..m) /\ pick \in SUBSET Nat
      BY <2>0
    <2>4. IsFiniteSet(pick) /\ Cardinality(pick) = n
      <3>1. IsFiniteSet(1..m)
        BY <2>1, FS_Interval
      <3>2. IsFiniteSet(pick)
        BY <2>3, <3>1, FS_Subset
      <3>3. n \in 0..n
        BY <2>1
      <3> QED  BY <2>2, <3>2, <3>3
    <2>5. ASSUME NEW k \in 1..n PROVE Nth(pick, k) = f[k]
      <3>1. {j \in pick : j <= f[k]} = {f[l] : l \in 1..k}
        <4>1. \A l \in 1..n : f[l] <= f[k] <=> l <= k
          <5> SUFFICES ASSUME NEW l \in 1..n PROVE f[l] <= f[k] <=> l <= k
            OBVIOUS
          <5>1. f[l] \in Nat /\ f[k] \in Nat /\ l \in Nat /\ k \in Nat
            BY <2>0, <2>1
          <5>2. (l < k => f[l] < f[k]) /\ (k < l => f[k] < f[l])
            BY <2>1
          <5>3. l = k => f[l] = f[k]
            OBVIOUS
          <5> QED  BY <5>1, <5>2, <5>3
        <4>2. \A l \in 1..n : l \in 1..k <=> l <= k
          BY <2>1
        <4>3. \A l \in 1..k : l \in 1..n
          BY <2>1
        <4> HIDE DEF n, m
        <4> QED  BY <4>1, <4>2, <4>3
      <3>2. Rank(pick, f[k]) = k
        <4>1. k \in 0..n
          BY <2>1
        <4> QED  BY <2>2, <3>1, <4>1 DEF Rank
      <3>3. f[k] \in pick
        OBVIOUS
      <3> HIDE DEF pick
      <3> QED  BY <2>3, <2>4, <3>2, <3>3, NthUnique
    <2>6. s = Picked(t, pick)
      <3>1. \A k \in 1..n : s[k] = t[Nth(pick, k)]
        BY <2>0, <2>5
      <3> HIDE DEF pick
      <3> QED  BY <1>0, <2>4, <3>1 DEF Picked
    <2> QED  BY <1>0, <2>3, <2>6
  <1> QED  BY <1>1, <1>2

\* Being within is reflexive and transitive, and goes through concatenation.
LEMMA WithinSame ==
    ASSUME NEW S, NEW s \in Seq(S)
    PROVE  Within(s, s) /\ Within(<<>>, s)
  <1>0. Len(s) \in Nat
    OBVIOUS
  <1>1. Within(s, s)
    <2> DEFINE f == [k \in 1..Len(s) |-> k]
    <2>1. f \in [1..Len(s) -> 1..Len(s)] /\ Increasing(f, Len(s)) /\ \A k \in 1..Len(s) : s[k] = s[f[k]]
      BY DEF Increasing
    <2> HIDE DEF f
    <2> QED  BY <2>1 DEF Within
  <1>2. Within(<<>>, s)
    <2> DEFINE f == [k \in 1..0 |-> 1]
    <2>1. Len(<<>>) = 0 /\ 1..0 = {}
      OBVIOUS
    <2>2. f \in [1..Len(<<>>) -> 1..Len(s)] /\ Increasing(f, Len(<<>>)) /\ \A k \in 1..Len(<<>>) : <<>>[k] = s[f[k]]
      BY <2>1 DEF Increasing
    <2> HIDE DEF f
    <2> QED  BY <2>2 DEF Within
  <1> QED  BY <1>1, <1>2

LEMMA WithinTrans ==
    ASSUME NEW S, NEW s \in Seq(S), NEW t \in Seq(S), NEW u \in Seq(S), Within(s, t), Within(t, u)
    PROVE  Within(s, u)
  <1>0. Len(s) \in Nat /\ Len(t) \in Nat /\ Len(u) \in Nat
    OBVIOUS
  <1>1. PICK f \in [1..Len(s) -> 1..Len(t)] : Increasing(f, Len(s)) /\ \A k \in 1..Len(s) : s[k] = t[f[k]]
    BY DEF Within
  <1>2. PICK g \in [1..Len(t) -> 1..Len(u)] : Increasing(g, Len(t)) /\ \A k \in 1..Len(t) : t[k] = u[g[k]]
    BY DEF Within
  <1> DEFINE h == [k \in 1..Len(s) |-> g[f[k]]]
  <1>3. h \in [1..Len(s) -> 1..Len(u)]
    BY <1>1, <1>2
  <1>4. Increasing(h, Len(s))
    <2> SUFFICES ASSUME NEW k \in 1..Len(s), NEW l \in 1..Len(s), k < l PROVE h[k] < h[l]
      BY DEF Increasing
    <2>1. f[k] < f[l] /\ f[k] \in 1..Len(t) /\ f[l] \in 1..Len(t)
      BY <1>1 DEF Increasing
    <2>2. g[f[k]] < g[f[l]]
      BY <1>2, <2>1 DEF Increasing
    <2> QED  BY <2>2
  <1>5. \A k \in 1..Len(s) : s[k] = u[h[k]]
    BY <1>1, <1>2
  <1> HIDE DEF h
  <1> QED  BY <1>3, <1>4, <1>5 DEF Within

LEMMA WithinBoth ==
    ASSUME NEW S, NEW s \in Seq(S), NEW s2 \in Seq(S), NEW t \in Seq(S), NEW t2 \in Seq(S),
           Within(s, s2), Within(t, t2)
    PROVE  Within(s \o t, s2 \o t2)
  <1> DEFINE m == Len(s)
             m2 == Len(s2)
             n == Len(t)
             n2 == Len(t2)
  <1>0. m \in Nat /\ m2 \in Nat /\ n \in Nat /\ n2 \in Nat
    OBVIOUS
  <1>1. /\ Len(s \o t) = m + n /\ Len(s2 \o t2) = m2 + n2
        /\ \A k \in 1..(m + n) : (s \o t)[k] = IF k <= m THEN s[k] ELSE t[k - m]
        /\ \A k \in 1..(m2 + n2) : (s2 \o t2)[k] = IF k <= m2 THEN s2[k] ELSE t2[k - m2]
    OBVIOUS
  <1>2. PICK f \in [1..m -> 1..m2] : Increasing(f, m) /\ \A k \in 1..m : s[k] = s2[f[k]]
    BY DEF Within
  <1>3. PICK g \in [1..n -> 1..n2] : Increasing(g, n) /\ \A k \in 1..n : t[k] = t2[g[k]]
    BY DEF Within
  <1> DEFINE h == [k \in 1..(m + n) |-> IF k <= m THEN f[k] ELSE m2 + g[k - m]]
  <1> HIDE DEF m, m2, n, n2
  <1>4. \A k \in 1..(m + n) : k <= m => k \in 1..m
    BY <1>0
  <1>5. \A k \in 1..(m + n) : ~(k <= m) => k - m \in 1..n
    BY <1>0
  <1>6. \A k \in 1..m : f[k] \in Nat /\ 1 <= f[k] /\ f[k] <= m2
    BY <1>0, <1>2
  <1>7. \A k \in 1..n : g[k] \in Nat /\ 1 <= g[k] /\ g[k] <= n2
    BY <1>0, <1>3
  <1>8. h \in [1..(m + n) -> 1..(m2 + n2)]
    <2> SUFFICES ASSUME NEW k \in 1..(m + n) PROVE (IF k <= m THEN f[k] ELSE m2 + g[k - m]) \in 1..(m2 + n2)
      OBVIOUS
    <2>1. CASE k <= m
      <3>1. f[k] \in Nat /\ 1 <= f[k] /\ f[k] <= m2
        BY <1>4, <1>6, <2>1
      <3> QED  BY <1>0, <2>1, <3>1
    <2>2. CASE ~(k <= m)
      <3>1. g[k - m] \in Nat /\ 1 <= g[k - m] /\ g[k - m] <= n2
        BY <1>5, <1>7, <2>2
      <3>2. ASSUME NEW x \in Nat, 1 <= x, x <= n2
            PROVE  m2 + x \in 1..(m2 + n2)
        BY <1>0, <3>2, SMTT(30)
      <3>3. m2 + g[k - m] \in 1..(m2 + n2)
        BY <3>1, <3>2
      <3> QED  BY <2>2, <3>3
    <2> QED  BY <2>1, <2>2
  <1>9. Increasing(h, m + n)
    <2> SUFFICES ASSUME NEW k \in 1..(m + n), NEW l \in 1..(m + n), k < l PROVE h[k] < h[l]
      BY DEF Increasing
    <2>0. k \in Nat /\ l \in Nat
      BY <1>0
    <2>1. CASE l <= m
      <3>1. k <= m
        BY <1>0, <2>0, <2>1
      <3>2. f[k] < f[l]
        BY <1>2, <1>4, <2>1, <3>1 DEF Increasing
      <3> QED  BY <2>1, <3>1, <3>2
    <2>2. CASE k <= m /\ ~(l <= m)
      <3>1. f[k] \in Nat /\ f[k] <= m2
        BY <1>4, <1>6, <2>2
      <3>2. g[l - m] \in Nat /\ 1 <= g[l - m]
        BY <1>5, <1>7, <2>2
      <3>3. f[k] < m2 + g[l - m]
        BY <1>0, <3>1, <3>2
      <3> QED  BY <2>2, <3>3
    <2>3. CASE ~(k <= m) /\ ~(l <= m)
      <3>1. k - m \in 1..n /\ l - m \in 1..n /\ k - m < l - m
        BY <1>0, <1>5, <2>0, <2>3
      <3>2. g[k - m] < g[l - m] /\ g[k - m] \in Nat /\ g[l - m] \in Nat
        BY <1>3, <1>7, <3>1 DEF Increasing
      <3>3. m2 + g[k - m] < m2 + g[l - m]
        BY <1>0, <3>2
      <3> QED  BY <2>3, <3>3
    <2> QED  BY <1>0, <2>0, <2>1, <2>2, <2>3
  <1>10. \A k \in 1..(m + n) : (s \o t)[k] = (s2 \o t2)[h[k]]
    <2> SUFFICES ASSUME NEW k \in 1..(m + n) PROVE (s \o t)[k] = (s2 \o t2)[h[k]]
      OBVIOUS
    <2>0. h[k] \in 1..(m2 + n2)
      BY <1>8
    <2>1. CASE k <= m
      <3>1. f[k] \in Nat /\ f[k] <= m2 /\ h[k] = f[k] /\ s[k] = s2[f[k]]
        BY <1>2, <1>4, <1>6, <2>1
      <3> QED  BY <1>1, <2>0, <2>1, <3>1
    <2>2. CASE ~(k <= m)
      <3>1. g[k - m] \in Nat /\ 1 <= g[k - m] /\ h[k] = m2 + g[k - m] /\ t[k - m] = t2[g[k - m]]
        BY <1>3, <1>5, <1>7, <2>2
      <3>2. ~(h[k] <= m2) /\ h[k] - m2 = g[k - m]
        BY <1>0, <3>1
      <3> QED  BY <1>1, <2>0, <2>2, <3>1, <3>2
    <2> QED  BY <2>1, <2>2
  <1> HIDE DEF h
  <1> QED  BY <1>1, <1>8, <1>9, <1>10 DEF Within

-----------------------------------------------------------------------------
(* Positions that are added after the others, before them, or moved by one *)

LEMMA NthAfter ==
    ASSUME NEW P \in SUBSET Nat, IsFiniteSet(P), NEW P2 \in SUBSET Nat, NEW x \in P2,
           \A i \in P : i < x, P2 = P \cup {x}
    PROVE  /\ Cardinality(P2) = Cardinality(P) + 1
           /\ \A k \in 1..Cardinality(P) : Nth(P2, k) = Nth(P, k)
           /\ Nth(P2, Cardinality(P) + 1) = x
  <1>1. x \notin P /\ x \in P2 /\ P2 \in SUBSET Nat /\ P \subseteq P2
    OBVIOUS
  <1>2. IsFiniteSet(P2) /\ Cardinality(P2) = Cardinality(P) + 1 /\ Cardinality(P) \in Nat
    BY <1>1, FS_AddElement, FS_CardinalityType
  <1>3. ASSUME NEW k \in 1..Cardinality(P) PROVE Nth(P2, k) = Nth(P, k)
    <2>1. PICK i \in P : i = Nth(P, k) /\ Rank(P, i) = k
      BY NthIs
    <2>2. {j \in P2 : j <= i} = {j \in P : j <= i}
      BY <1>1
    <2>3. Rank(P2, i) = k
      BY <2>1, <2>2 DEF Rank
    <2> QED  BY <1>1, <1>2, <2>1, <2>3, NthUnique
  <1>4. Nth(P2, Cardinality(P) + 1) = x
    <2>0. \A j \in P2 : j <= x
      <3>1. \A j \in P : j \in Nat /\ j <= x
        OBVIOUS
      <3> QED  BY <3>1
    <2>1. {j \in P2 : j <= x} = P2
      BY <2>0
    <2>2. Rank(P2, x) = Cardinality(P) + 1
      BY <1>2, <2>1 DEF Rank
    <2> QED  BY <1>1, <1>2, <2>2, NthUnique
  <1> QED  BY <1>2, <1>3, <1>4

LEMMA NthBefore ==
    ASSUME NEW P \in SUBSET Nat, IsFiniteSet(P), NEW P2 \in SUBSET Nat, NEW x \in P2,
           \A i \in P : x < i, P2 = P \cup {x}
    PROVE  /\ Cardinality(P2) = Cardinality(P) + 1 /\ Nth(P2, 1) = x
           /\ \A k \in 1..Cardinality(P) : Nth(P2, k + 1) = Nth(P, k)
  <1>1. x \notin P /\ x \in P2 /\ P2 \in SUBSET Nat /\ P \subseteq P2
    OBVIOUS
  <1>2. IsFiniteSet(P2) /\ Cardinality(P2) = Cardinality(P) + 1 /\ Cardinality(P) \in Nat
    BY <1>1, FS_AddElement, FS_CardinalityType
  <1>3. ASSUME NEW k \in 1..Cardinality(P) PROVE Nth(P2, k + 1) = Nth(P, k)
    <2>1. PICK i \in P : i = Nth(P, k) /\ Rank(P, i) = k
      BY NthIs
    <2> DEFINE U == {j \in P : j <= i}
    <2>2. {j \in P2 : j <= i} = U \cup {x} /\ x \notin U
      BY <1>1
    <2>3. IsFiniteSet(U) /\ Cardinality(U) = k
      BY <2>1, RankIs DEF Rank
    <2>4. Cardinality(U \cup {x}) = k + 1
      <3> HIDE DEF U
      <3> QED  BY <2>2, <2>3, FS_AddElement
    <2>5. Rank(P2, i) = k + 1
      BY <2>2, <2>4 DEF Rank
    <2> QED  BY <1>1, <1>2, <2>1, <2>5, NthUnique
  <1>4. Nth(P2, 1) = x
    <2>0. x <= x /\ \A j \in P : ~(j <= x)
      <3>1. \A j \in P : j \in Nat /\ x < j
        OBVIOUS
      <3> QED  BY <3>1
    <2>1. {j \in P2 : j <= x} = {x}
      BY <2>0
    <2>2. Rank(P2, x) = 1
      BY <2>1, FS_Singleton DEF Rank
    <2> QED  BY <1>1, <1>2, <2>2, NthUnique
  <1> QED  BY <1>2, <1>3, <1>4

\* Every position one less.
LEMMA NthMoved ==
    ASSUME NEW P \in SUBSET (Nat \ {0}), IsFiniteSet(P), NEW R \in SUBSET Nat,
           \A i \in Nat : i \in R <=> i + 1 \in P
    PROVE  /\ IsFiniteSet(R) /\ Cardinality(R) = Cardinality(P)
           /\ \A k \in 1..Cardinality(P) : Nth(P, k) = Nth(R, k) + 1
  <1>1. ASSUME NEW A \in SUBSET P, IsFiniteSet(A),
               NEW B \in SUBSET R, \A i \in R : i \in B <=> i + 1 \in A
        PROVE  IsFiniteSet(B) /\ Cardinality(B) = Cardinality(A)
    <2> DEFINE g == [i \in A |-> i - 1]
    <2>1. \A i \in A : i \in Nat /\ i - 1 \in Nat /\ (i - 1) + 1 = i
      BY <1>1
    <2>2. \A i \in A : i - 1 \in B
      BY <1>1, <2>1
    <2>3. g \in [A -> B]
      BY <2>2
    <2>4. \A i, j \in A : g[i] = g[j] => i = j
      BY <2>1
    <2>5. \A b \in B : b + 1 \in A /\ (b + 1) - 1 = b
      BY <1>1
    <2>6. \A b \in B : \E i \in A : g[i] = b
      BY <2>5
    <2>7. g \in Bijection(A, B)
      <3> HIDE DEF g
      <3>1. g \in Injection(A, B)
        BY <2>3, <2>4, Fun_IsInj
      <3>2. g \in Surjection(A, B)
        BY <2>3, <2>6, Fun_IsSurj
      <3> QED  BY <3>1, <3>2 DEF Bijection
    <2>8. ExistsBijection(A, B)
      BY <2>7 DEF ExistsBijection
    <2> QED  BY <1>1, <2>8, FS_Bijection
  <1>2. IsFiniteSet(R) /\ Cardinality(R) = Cardinality(P)
    BY <1>1
  <1>3. ASSUME NEW k \in 1..Cardinality(P) PROVE Nth(P, k) = Nth(R, k) + 1
    <2>1. PICK i \in R : i = Nth(R, k) /\ Rank(R, i) = k
      BY <1>2, NthIs
    <2>2. PICK x \in P : x = i + 1
      OBVIOUS
    <2> DEFINE A == {j \in P : j <= x}
               B == {j \in R : j <= i}
    <2>3. \A j \in R : j <= i <=> j + 1 <= x
      BY <2>2
    <2>4. \A j \in R : j \in B <=> j + 1 \in A
      BY <2>3
    <2>5. IsFiniteSet(A)
      BY FS_Subset
    <2>6. Cardinality(B) = Cardinality(A)
      <3>1. A \in SUBSET P /\ B \in SUBSET R
        OBVIOUS
      <3> HIDE DEF A, B
      <3> QED  BY <1>1, <2>4, <2>5, <3>1
    <2>7. Rank(P, x) = k
      BY <2>1, <2>6 DEF Rank
    <2>8. P \in SUBSET Nat
      OBVIOUS
    <2> QED  BY <2>1, <2>2, <2>7, <2>8, NthUnique
  <1> QED  BY <1>2, <1>3

-----------------------------------------------------------------------------
(* What the commands on their way push *)

\* The pushes of some commands are finitely many, and what they push is typed.
LEMMA PushesIs ==
    ASSUME RedisTypes, NEW P \in SUBSET (DOMAIN cmds)
    PROVE  /\ Pushes(P) \in SUBSET Nat /\ IsFiniteSet(Pushes(P)) /\ Cardinality(Pushes(P)) \in Nat
           /\ Pushed(P) \in Seq(Messages) /\ Len(Pushed(P)) = Cardinality(Pushes(P))
           /\ \A k \in 1..Cardinality(Pushes(P)) :
                 Nth(Pushes(P), k) \in Pushes(P) /\ Pushed(P)[k] = cmds[Nth(Pushes(P), k)].msg
  <1>1. Len(cmds) \in Nat /\ DOMAIN cmds = 1..Len(cmds) /\ \A i \in DOMAIN cmds : cmds[i] \in Commands
    BY DEF RedisTypes
  <1>2. Pushes(P) \in SUBSET Nat /\ Pushes(P) \in SUBSET (1..Len(cmds))
    BY <1>1 DEF Pushes
  <1>3. IsFiniteSet(Pushes(P))
    <2>1. 1 \in Int /\ Len(cmds) \in Int
      BY <1>1
    <2> QED  BY <1>2, <2>1, FS_Interval, FS_Subset
  <1>4. Cardinality(Pushes(P)) \in Nat
    BY <1>3, FS_CardinalityType
  <1>5. \A k \in 1..Cardinality(Pushes(P)) : Nth(Pushes(P), k) \in Pushes(P)
    BY <1>2, <1>3, NthIs
  <1>6. \A i \in Pushes(P) : cmds[i].msg \in Messages
    BY <1>1 DEF Pushes, Commands, RPush
  <1>7. \A k \in 1..Cardinality(Pushes(P)) : cmds[Nth(Pushes(P), k)].msg \in Messages
    BY <1>5, <1>6
  <1>8. Pushed(P) \in [1..Cardinality(Pushes(P)) -> Messages]
    BY <1>7 DEF Pushed
  <1>9. Pushed(P) \in Seq(Messages) /\ Len(Pushed(P)) = Cardinality(Pushes(P))
    BY <1>4, <1>8
  <1>10. \A k \in 1..Cardinality(Pushes(P)) : Pushed(P)[k] = cmds[Nth(Pushes(P), k)].msg
    BY DEF Pushed
  <1> QED  BY <1>2, <1>3, <1>4, <1>5, <1>9, <1>10

\* Fewer commands push what is within what more push.
LEMMA PushedWithin ==
    ASSUME RedisTypes, NEW P \in SUBSET (DOMAIN cmds), NEW Q \in SUBSET (DOMAIN cmds), P \subseteq Q
    PROVE  Within(Pushed(P), Pushed(Q))
  <1> DEFINE A == Pushes(P)
             B == Pushes(Q)
             m == Cardinality(A)
             n == Cardinality(B)
             f == [k \in 1..m |-> Rank(B, Nth(A, k))]
  <1>1. /\ A \in SUBSET Nat /\ IsFiniteSet(A) /\ m \in Nat
        /\ B \in SUBSET Nat /\ IsFiniteSet(B) /\ n \in Nat
        /\ Len(Pushed(P)) = m /\ Len(Pushed(Q)) = n
        /\ \A k \in 1..m : Nth(A, k) \in A /\ Pushed(P)[k] = cmds[Nth(A, k)].msg
        /\ \A k \in 1..n : Pushed(Q)[k] = cmds[Nth(B, k)].msg
    BY PushesIs
  <1>2. A \subseteq B
    BY DEF Pushes
  <1> HIDE DEF A, B
  <1>3. \A k \in 1..m : Rank(B, Nth(A, k)) \in 1..n /\ Nth(B, Rank(B, Nth(A, k))) = Nth(A, k)
    <2> SUFFICES ASSUME NEW k \in 1..m PROVE Rank(B, Nth(A, k)) \in 1..n /\ Nth(B, Rank(B, Nth(A, k))) = Nth(A, k)
      OBVIOUS
    <2>1. Nth(A, k) \in B
      BY <1>1, <1>2
    <2> QED  BY <1>1, <2>1, NthUnique
  <1>4. f \in [1..m -> 1..n]
    BY <1>3
  <1>5. Increasing(f, m)
    <2> SUFFICES ASSUME NEW k \in 1..m, NEW l \in 1..m, k < l PROVE Rank(B, Nth(A, k)) < Rank(B, Nth(A, l))
      BY DEF Increasing
    <2>1. Nth(A, k) < Nth(A, l)
      BY <1>1, NthGrows
    <2>2. Nth(A, k) \in B /\ Nth(A, l) \in B
      BY <1>1, <1>2
    <2> QED  BY <1>1, <2>1, <2>2, RankGrows
  <1>6. \A k \in 1..m : Pushed(P)[k] = Pushed(Q)[f[k]]
    BY <1>1, <1>3
  <1> HIDE DEF m, n, f
  <1> QED  BY <1>1, <1>4, <1>5, <1>6 DEF Within

\* Redis answers the oldest command.
LEMMA QueuedTail ==
    ASSUME RedisTypes, RedisTypes', cmds # <<>>, cmds' = Tail(cmds)
    PROVE  /\ Head(cmds).op # "rpush" => QueuedIds' = QueuedIds
           /\ Head(cmds).op = "rpush" => /\ Head(cmds).msg \in Messages /\ QueuedIds' \in Seq(Messages)
                                        /\ QueuedIds = <<Head(cmds).msg>> \o QueuedIds'
  <1> DEFINE P == Pushes(DOMAIN cmds)
             R == Pushes(DOMAIN cmds)'
             A == P \ {1}
  <1>1. /\ Len(cmds) \in Nat /\ Len(cmds) > 0 /\ DOMAIN cmds = 1..Len(cmds)
        /\ DOMAIN cmds' = 1..Len(cmds) - 1 /\ Head(cmds) = cmds[1]
        /\ \A i \in DOMAIN cmds' : cmds'[i] = cmds[i + 1]
        /\ \A i \in DOMAIN cmds : cmds[i] \in Commands
    BY DEF RedisTypes
  <1>2. /\ P \in SUBSET Nat /\ IsFiniteSet(P) /\ Cardinality(P) \in Nat
        /\ QueuedIds \in Seq(Messages) /\ Len(QueuedIds) = Cardinality(P)
        /\ \A k \in 1..Cardinality(P) : QueuedIds[k] = cmds[Nth(P, k)].msg
    BY PushesIs DEF QueuedIds
  <1>3. /\ R = {i \in DOMAIN cmds' : cmds'[i].op = "rpush"}
        /\ QueuedIds' = [k \in 1..Cardinality(R) |-> cmds'[Nth(R, k)].msg]
    BY DEF QueuedIds, Pushed, Pushes
  <1>4. P = {i \in 1..Len(cmds) : cmds[i].op = "rpush"}
    BY <1>1 DEF Pushes
  <1>5. R \in SUBSET Nat /\ A \in SUBSET (Nat \ {0}) /\ IsFiniteSet(A)
    <2>1. \A i \in P : i # 0
      BY <1>1, <1>4
    <2> HIDE DEF P, R
    <2>2. IsFiniteSet(A)
      BY <1>2, FS_Subset
    <2>3. A \in SUBSET (Nat \ {0})
      BY <1>2, <2>1
    <2>4. \A i \in R : i \in Nat
      BY <1>1, <1>3
    <2> QED  BY <2>2, <2>3, <2>4
  <1>6. \A i \in Nat : i \in R <=> i + 1 \in A
    <2> SUFFICES ASSUME NEW i \in Nat PROVE i \in R <=> i + 1 \in A
      OBVIOUS
    <2>1. i \in DOMAIN cmds' <=> i + 1 \in 1..Len(cmds) /\ i + 1 # 1
      BY <1>1
    <2>2. i \in DOMAIN cmds' => cmds'[i] = cmds[i + 1]
      BY <1>1
    <2> HIDE DEF P, R
    <2> QED  BY <1>3, <1>4, <2>1, <2>2
  <1>7. /\ IsFiniteSet(R) /\ Cardinality(R) = Cardinality(A)
        /\ \A k \in 1..Cardinality(A) : Nth(A, k) = Nth(R, k) + 1 /\ Nth(R, k) \in R
    <2> HIDE DEF P, R, A
    <2>1. IsFiniteSet(R) /\ Cardinality(R) = Cardinality(A)
          /\ \A k \in 1..Cardinality(A) : Nth(A, k) = Nth(R, k) + 1
      BY <1>5, <1>6, NthMoved
    <2> QED  BY <1>5, <2>1, NthIs
  <1>8. \A k \in 1..Cardinality(A) : cmds'[Nth(R, k)].msg = cmds[Nth(A, k)].msg
    <2> SUFFICES ASSUME NEW k \in 1..Cardinality(A) PROVE cmds'[Nth(R, k)].msg = cmds[Nth(A, k)].msg
      OBVIOUS
    <2>1. Nth(R, k) \in DOMAIN cmds' /\ Nth(A, k) = Nth(R, k) + 1
      BY <1>3, <1>7
    <2> HIDE DEF P, R, A
    <2> QED  BY <1>1, <2>1
  <1>9. QueuedIds' = [k \in 1..Cardinality(A) |-> cmds[Nth(A, k)].msg]
    <2> HIDE DEF P, R, A
    <2> QED  BY <1>3, <1>7, <1>8
  <1>10. ASSUME Head(cmds).op # "rpush" PROVE QueuedIds' = QueuedIds
    <2>1. A = P
      BY <1>1, <1>4, <1>10
    <2> HIDE DEF P, R, A
    <2>2. QueuedIds = [k \in 1..Cardinality(P) |-> QueuedIds[k]]
      BY <1>2
    <2> QED  BY <1>2, <1>9, <2>1, <2>2
  <1>11. ASSUME Head(cmds).op = "rpush"
         PROVE  /\ Head(cmds).msg \in Messages /\ QueuedIds' \in Seq(Messages)
                /\ QueuedIds = <<Head(cmds).msg>> \o QueuedIds'
    <2>0. 1 \in P /\ Head(cmds).msg \in Messages
      BY <1>1, <1>4, <1>11 DEF Commands, RPush
    <2>1. P = A \cup {1} /\ \A i \in A : 1 < i
      <3>1. P = A \cup {1}
        BY <2>0
      <3>2. \A i \in A : i \in Nat /\ i # 0 /\ i # 1
        BY <1>5
      <3> HIDE DEF A
      <3>3. \A i \in A : 1 < i
        BY <3>2
      <3> QED  BY <3>1, <3>3
    <2>2. A \in SUBSET Nat /\ 1 \in Nat
      BY <1>5
    <2> HIDE DEF P, R, A
    <2>3. /\ Cardinality(P) = Cardinality(A) + 1 /\ Nth(P, 1) = 1
          /\ \A k \in 1..Cardinality(A) : Nth(P, k + 1) = Nth(A, k)
      <3>1. PICK x \in P : x = 1
        BY <2>0
      <3>2. P = A \cup {x} /\ \A i \in A : x < i
        BY <2>1, <3>1
      <3>3. /\ Cardinality(P) = Cardinality(A) + 1 /\ Nth(P, 1) = x
            /\ \A k \in 1..Cardinality(A) : Nth(P, k + 1) = Nth(A, k)
        BY <1>2, <1>5, <2>2, <3>2, NthBefore
      <3> QED  BY <3>1, <3>3
    <2>4. Cardinality(A) \in Nat
      BY <1>5, FS_CardinalityType
    <2>5. QueuedIds' \in Seq(Messages) /\ Len(QueuedIds') = Cardinality(A)
      <3>1. \A k \in 1..Cardinality(A) : cmds[Nth(A, k)].msg \in Messages
        <4> SUFFICES ASSUME NEW k \in 1..Cardinality(A) PROVE cmds[Nth(A, k)].msg \in Messages
          OBVIOUS
        <4>1. Nth(A, k) \in P
          BY <1>5, <2>1, <2>2, NthIs
        <4> QED  BY <1>1, <1>4, <4>1 DEF Commands, RPush
      <3> QED  BY <1>9, <2>4, <3>1
    <2>6. /\ Len(<<Head(cmds).msg>> \o QueuedIds') = Cardinality(A) + 1
          /\ (<<Head(cmds).msg>> \o QueuedIds')[1] = Head(cmds).msg
          /\ \A k \in 1..Cardinality(A) : (<<Head(cmds).msg>> \o QueuedIds')[k + 1] = QueuedIds'[k]
          /\ <<Head(cmds).msg>> \o QueuedIds' \in Seq(Messages)
      BY <2>0, <2>4, <2>5
    <2>7. \A k \in 1..Cardinality(A) : QueuedIds[k + 1] = QueuedIds'[k]
      <3> SUFFICES ASSUME NEW k \in 1..Cardinality(A) PROVE QueuedIds[k + 1] = QueuedIds'[k]
        OBVIOUS
      <3>1. k + 1 \in 1..Cardinality(P)
        BY <2>3, <2>4
      <3> QED  BY <1>2, <1>9, <2>3, <3>1
    <2>8. QueuedIds[1] = Head(cmds).msg
      <3>1. 1 \in 1..Cardinality(P)
        BY <2>3, <2>4
      <3> QED  BY <1>1, <1>2, <2>3, <3>1
    <2>9. \A j \in 1..(Cardinality(A) + 1) : QueuedIds[j] = (<<Head(cmds).msg>> \o QueuedIds')[j]
      <3> SUFFICES ASSUME NEW j \in 1..(Cardinality(A) + 1)
                   PROVE  QueuedIds[j] = (<<Head(cmds).msg>> \o QueuedIds')[j]
        OBVIOUS
      <3>1. j = 1 \/ \E k \in 1..Cardinality(A) : j = k + 1
        <4>1. j = 1 \/ j - 1 \in 1..Cardinality(A)
          BY <2>4
        <4>2. j = (j - 1) + 1
          BY <2>4
        <4> QED  BY <4>1, <4>2
      <3> QED  BY <2>6, <2>7, <2>8, <3>1
    <2> QED  BY <1>2, <2>0, <2>3, <2>4, <2>5, <2>6, <2>9
  <1> QED  BY <1>10, <1>11

\* A command is sent.
LEMMA QueuedAppend ==
    ASSUME RedisTypes, RedisTypes', NEW c \in Commands, cmds' = Append(cmds, c)
    PROVE  /\ c.op # "rpush" => QueuedIds' = QueuedIds
           /\ c.op = "rpush" => c.msg \in Messages /\ QueuedIds' = Append(QueuedIds, c.msg)
  <1> DEFINE P == Pushes(DOMAIN cmds)
             R == Pushes(DOMAIN cmds)'
             L == Len(cmds)
  <1>1. /\ L \in Nat /\ DOMAIN cmds = 1..L /\ DOMAIN cmds' = 1..(L + 1)
        /\ \A i \in 1..L : cmds'[i] = cmds[i]
        /\ cmds'[L + 1] = c
    BY DEF RedisTypes
  <1>2. /\ P \in SUBSET Nat /\ IsFiniteSet(P) /\ Cardinality(P) \in Nat
        /\ QueuedIds \in Seq(Messages) /\ Len(QueuedIds) = Cardinality(P)
        /\ \A k \in 1..Cardinality(P) : Nth(P, k) \in P /\ QueuedIds[k] = cmds[Nth(P, k)].msg
    BY PushesIs DEF QueuedIds
  <1>3. /\ R = {i \in 1..(L + 1) : cmds'[i].op = "rpush"}
        /\ QueuedIds' = [k \in 1..Cardinality(R) |-> cmds'[Nth(R, k)].msg]
    BY <1>1 DEF QueuedIds, Pushed, Pushes
  <1>4. P = {i \in 1..L : cmds[i].op = "rpush"}
    BY <1>1 DEF Pushes
  <1> HIDE DEF P, R, L
  <1>5. \A i \in 1..(L + 1) : i \in 1..L \/ i = L + 1
    BY <1>1
  <1>6. \A i \in 1..L : i \in 1..(L + 1) /\ i < L + 1
    BY <1>1
  <1>7. L + 1 \in 1..(L + 1) /\ L + 1 \in Nat
    BY <1>1
  <1>8. \A k \in 1..Cardinality(P) : cmds'[Nth(P, k)].msg = QueuedIds[k]
    <2> SUFFICES ASSUME NEW k \in 1..Cardinality(P) PROVE cmds'[Nth(P, k)].msg = QueuedIds[k]
      OBVIOUS
    <2>1. Nth(P, k) \in 1..L
      BY <1>2, <1>4
    <2> QED  BY <1>1, <1>2, <2>1
  <1>9. ASSUME c.op # "rpush" PROVE QueuedIds' = QueuedIds
    <2>1. R = P
      BY <1>1, <1>3, <1>4, <1>5, <1>6, <1>9
    <2>2. QueuedIds = [k \in 1..Cardinality(P) |-> QueuedIds[k]]
      BY <1>2
    <2> QED  BY <1>3, <1>8, <2>1, <2>2
  <1>10. ASSUME c.op = "rpush" PROVE c.msg \in Messages /\ QueuedIds' = Append(QueuedIds, c.msg)
    <2>0. c.msg \in Messages
      BY <1>10 DEF Commands, RPush
    <2> PICK x \in Nat : x = L + 1
      BY <1>7
    <2>1. R = P \cup {x} /\ x \in R /\ \A i \in P : i < x
      BY <1>1, <1>3, <1>4, <1>5, <1>6, <1>7, <1>10
    <2>2. R \in SUBSET Nat
      BY <1>2, <2>1
    <2>3. /\ Cardinality(R) = Cardinality(P) + 1
          /\ \A k \in 1..Cardinality(P) : Nth(R, k) = Nth(P, k)
          /\ Nth(R, Cardinality(P) + 1) = x
      BY <1>2, <2>1, <2>2, NthAfter
    <2>4. /\ Append(QueuedIds, c.msg) \in Seq(Messages)
          /\ Len(Append(QueuedIds, c.msg)) = Cardinality(P) + 1
          /\ Append(QueuedIds, c.msg)[Cardinality(P) + 1] = c.msg
          /\ \A k \in 1..Cardinality(P) : Append(QueuedIds, c.msg)[k] = QueuedIds[k]
      BY <1>2, <2>0
    <2>5. \A k \in 1..(Cardinality(P) + 1) : k \in 1..Cardinality(P) \/ k = Cardinality(P) + 1
      BY <1>2
    <2>6. \A k \in 1..(Cardinality(P) + 1) : cmds'[Nth(R, k)].msg = Append(QueuedIds, c.msg)[k]
      BY <1>1, <1>8, <2>3, <2>4, <2>5
    <2>7. Append(QueuedIds, c.msg) = [k \in 1..(Cardinality(P) + 1) |-> Append(QueuedIds, c.msg)[k]]
      BY <2>4
    <2> QED  BY <1>3, <2>0, <2>3, <2>6, <2>7
  <1> QED  BY <1>9, <1>10

\* No command, no id on its way, before or after a step.
LEMMA NoneQueued ==
    (cmds = <<>> => QueuedIds = <<>>) /\ (cmds' = <<>> => QueuedIds' = <<>>)
  <1>1. DOMAIN <<>> = {} /\ 1..0 = {} /\ Cardinality({}) = 0
    BY FS_EmptySet
  <1>2. ASSUME cmds = <<>> PROVE QueuedIds = <<>>
    BY <1>1, <1>2 DEF QueuedIds, Pushed, Pushes
  <1>3. ASSUME cmds' = <<>> PROVE QueuedIds' = <<>>
    BY <1>1, <1>3 DEF QueuedIds, Pushed, Pushes
  <1> QED  BY <1>2, <1>3

LEMMA PushedTypes ==
    ASSUME NEW c \in Seq(Commands), NEW P, P = {i \in DOMAIN c : c[i].op = "rpush"}
    PROVE  [k \in 1..Cardinality(P) |-> c[Nth(P, k)].msg] \in Seq(Messages)
  <1>1. Len(c) \in Nat /\ DOMAIN c = 1..Len(c) /\ \A i \in DOMAIN c : c[i] \in Commands
    OBVIOUS
  <1>2. P \in SUBSET Nat /\ P \in SUBSET (1..Len(c))
    BY <1>1
  <1>3. IsFiniteSet(P) /\ Cardinality(P) \in Nat
    <2>1. 1 \in Int /\ Len(c) \in Int
      BY <1>1
    <2>2. IsFiniteSet(P)
      BY <1>2, <2>1, FS_Interval, FS_Subset
    <2> QED  BY <2>2, FS_CardinalityType
  <1>4. \A i \in P : c[i].msg \in Messages
    BY <1>1 DEF Commands, RPush
  <1>5. \A k \in 1..Cardinality(P) : Nth(P, k) \in P
    BY <1>2, <1>3, NthIs
  <1>6. \A k \in 1..Cardinality(P) : c[Nth(P, k)].msg \in Messages
    BY <1>4, <1>5
  <1>7. [k \in 1..Cardinality(P) |-> c[Nth(P, k)].msg] \in [1..Cardinality(P) -> Messages]
    BY <1>6
  <1> QED  BY <1>3, <1>7

LEMMA QueuedTypes ==
    ASSUME RedisTypes'
    PROVE  QueuedIds' \in Seq(Messages)
  <1>1. cmds' \in Seq(Commands)
    BY DEF RedisTypes
  <1> QED  BY <1>1, PushedTypes DEF QueuedIds, Pushed, Pushes

-----------------------------------------------------------------------------
(* Types, and wake-ups *)

\* What reschedule() leaves: a request that is pending and current.
LEMMA RescheduleTypes ==
    ASSUME TimerTypes, NEW r \in 0..MaxReq, RescheduleFrom(r), orphans' \in Nat
    PROVE  TimerTypes' /\ ArmedResolve'
  <1>1. /\ r + 1 \in 1..MaxReq /\ reqId' = r + 1 /\ mapped' = FALSE
        /\ resolving' = [resolving EXCEPT ![r + 1] = @ + 1]
    BY BoundsAssumption DEF RescheduleFrom
  <1>2. resolving' \in [1..MaxReq -> Nat] /\ resolving'[r + 1] > 0
    BY <1>1 DEF TimerTypes
  <1>3. reqId' \in 0..MaxReq /\ ArmedResolve'
    BY <1>1, <1>2, BoundsAssumption DEF ArmedResolve
  <1>4. mapped' \in BOOLEAN
    BY <1>1, Zenon
  <1> QED  BY <1>2, <1>3, <1>4, Zenon DEF TimerTypes

\* A command that was sent keeps the pipeline well typed and non-empty.
LEMMA SendTypes ==
    ASSUME RedisTypes, NEW c \in Commands, cmds' = Append(cmds, c)
    PROVE  cmds' \in Seq(Commands) /\ cmds' # <<>>
  BY DEF RedisTypes

\* A reply leaves a typed pipeline.
LEMMA AnsweredTypes ==
    ASSUME RedisTypes, NEW o, Answered(o)
    PROVE  cmds' \in Seq(Commands) /\ Head(cmds) \in Commands
  BY DEF RedisTypes, Answered

\* A timer that expires leaves a new request or a command behind.
LEMMA DrainTypes ==
    ASSUME TimerTypes, RedisTypes, Drain, orphans' \in Nat, list' = list
    PROVE  TimerTypes' /\ RedisTypes' /\ (ArmedResolve' \/ cmds' # <<>>)
  <1>1. CASE processing
    <2>1. RescheduleFrom(0) /\ cmds' = cmds
      BY <1>1 DEF Drain
    <2> QED  BY <2>1, RescheduleTypes, BoundsAssumption DEF RedisTypes
  <1>2. CASE ~processing
    <2>1. cmds' = Append(cmds, [op |-> "take"]) /\ [op |-> "take"] \in Commands
      BY <1>2 DEF Drain, Commands
    <2>2. reqId' = 0 /\ mapped' = FALSE /\ resolving' = resolving
      BY <1>2 DEF Drain
    <2>3. RedisTypes' /\ cmds' # <<>>
      BY <2>1, SendTypes DEF RedisTypes
    <2>4. reqId' \in 0..MaxReq
      BY <2>2, BoundsAssumption
    <2>5. TimerTypes'
      BY <2>2, <2>4, Zenon DEF TimerTypes
    <2> QED  BY <2>3, <2>5
  <1> QED  BY <1>1, <1>2

-----------------------------------------------------------------------------
NoFaults == Faults = {}

\* A step keeps the types, and it does not strand the list.
Keeps == TypeOK' /\ (NoStrandedList => NoStrandedList')

LEMMA InitHolds == Init => TypeOK /\ NoStrandedList
  <1> SUFFICES ASSUME Init PROVE TypeOK /\ NoStrandedList
    OBVIOUS
  <1>1. FeedTypes
    BY BoundsAssumption DEF Init, FeedTypes
  <1>2. RedisTypes /\ list = <<>>
    BY DEF Init, RedisTypes
  <1>3. reqId = 0 /\ mapped = FALSE /\ orphans = 0 /\ resolving = [r \in 1..MaxReq |-> 0]
    BY DEF Init
  <1>4. resolving \in [1..MaxReq -> Nat] /\ reqId \in 0..MaxReq /\ orphans \in Nat
    BY <1>3, BoundsAssumption
  <1>5. TimerTypes
    BY <1>3, <1>4, Zenon DEF TimerTypes
  <1>6. processing = FALSE /\ arrived = <<>> /\ handed = <<>> /\ flushes = {}
    BY DEF Init
  <1>7. FlushTypes
    <2>1. processing \in BOOLEAN
      BY <1>6, Zenon
    <2> QED  BY <1>6, <2>1 DEF FlushTypes
  <1> QED  BY <1>1, <1>2, <1>5, <1>7 DEF TypeOK, NoStrandedList

\* The actions that feed the buffer.
LEMMA ReceiveKeeps ==
    ASSUME TypeOK, NEW m \in Messages, Receive(m)
    PROVE  Keeps
  <1>1. FeedTypes'
    BY DEF TypeOK, FeedTypes, Receive
  <1>2. UNCHANGED <<redisVars, timerVars, flushVars, arrived, handed>>
    BY DEF Receive
  <1> QED  BY <1>1, <1>2, Zenon DEF Keeps, TypeOK, RedisTypes, TimerTypes, FlushTypes, NoStrandedList,
                  WakeUp, ArmedResolve, redisVars, timerVars, flushVars

LEMMA SendKeeps ==
    ASSUME TypeOK, NEW m \in Messages, Send(m), FeedTypes',
           UNCHANGED <<list, timerVars, flushVars, handed>>
    PROVE  Keeps
  <1>1. cmds' = Append(cmds, RPush(m)) /\ arrived' = Append(arrived, m) /\ RPush(m) \in Commands
    BY DEF Send, Commands
  <1>2. RedisTypes' /\ cmds' # <<>>
    BY <1>1, SendTypes DEF TypeOK, RedisTypes
  <1>3. arrived' \in Seq(Messages)
    BY <1>1 DEF TypeOK, FlushTypes
  <1>4. TimerTypes' /\ FlushTypes'
    BY <1>3, Zenon DEF TypeOK, TimerTypes, FlushTypes, timerVars, flushVars
  <1> QED  BY <1>2, <1>4, Zenon DEF Keeps, TypeOK, NoStrandedList, WakeUp

LEMMA PushKeeps ==
    ASSUME TypeOK, NEW m \in Messages, Push(m)
    PROVE  Keeps
  <1>1. FeedTypes'
    BY DEF TypeOK, FeedTypes, Push
  <1> QED  BY <1>1, SendKeeps DEF Push

LEMMA EditKeeps ==
    ASSUME TypeOK, NEW m \in Messages, Edit(m)
    PROVE  Keeps
  <1>1. FeedTypes'
    <2>1. body' \in [Messages -> 0..MaxEdits]
      BY BoundsAssumption DEF TypeOK, FeedTypes, Edit
    <2> QED  BY <2>1 DEF Keeps, TypeOK, FeedTypes, Edit
  <1>2. UNCHANGED <<redisVars, flushVars, arrived, handed>>
    BY DEF Edit
  <1>3. RedisTypes' /\ FlushTypes'
    BY <1>2, Zenon DEF TypeOK, RedisTypes, FlushTypes, redisVars, flushVars
  <1>4. CASE HasActiveBuffer
    <2>1. RescheduleFrom(reqId) /\ orphans' = orphans
      BY <1>4 DEF Edit
    <2>2. TimerTypes' /\ ArmedResolve'
      BY <2>1, RescheduleTypes DEF TypeOK, TimerTypes
    <2> QED  BY <1>1, <1>3, <2>2 DEF Keeps, TypeOK, NoStrandedList, WakeUp
  <1>5. CASE ~HasActiveBuffer
    <2>1. UNCHANGED timerVars
      BY <1>5 DEF Edit
    <2> QED  BY <1>1, <1>2, <1>3, <2>1, Zenon DEF Keeps, TypeOK, TimerTypes, NoStrandedList, WakeUp,
                    ArmedResolve, redisVars, timerVars, flushVars
  <1> QED  BY <1>4, <1>5

LEMMA LateEditKeeps ==
    ASSUME TypeOK, NEW m \in Messages, LateEdit(m)
    PROVE  Keeps
  <1>1. FeedTypes'
    BY DEF TypeOK, FeedTypes, LateEdit
  <1>2. UNCHANGED <<list, timerVars, flushVars, handed>>
    BY DEF LateEdit
  <1>3. CASE Send(m)
    BY <1>1, <1>2, <1>3, SendKeeps
  <1>4. CASE UNCHANGED <<cmds, arrived>>
    BY <1>1, <1>2, <1>4, Zenon DEF Keeps, TypeOK, RedisTypes, TimerTypes, FlushTypes, NoStrandedList,
       WakeUp, ArmedResolve, timerVars, flushVars
  <1> QED  BY <1>3, <1>4 DEF LateEdit

\* Timers.
LEMMA ResolveKeeps ==
    ASSUME TypeOK, NEW r \in 1..MaxReq, Resolve(r)
    PROVE  Keeps
  <1>1. /\ resolving[r] > 0 /\ resolving' = [resolving EXCEPT ![r] = @ - 1]
        /\ reqId' = reqId /\ mapped' = (mapped \/ reqId = r)
        /\ orphans' = IF reqId = r /\ mapped THEN orphans + 1 ELSE orphans
        /\ UNCHANGED <<feedVars, redisVars, flushVars, arrived, handed, read, buffered>>
    BY DEF Resolve
  <1>2. resolving' \in [1..MaxReq -> Nat] /\ \A q \in 1..MaxReq : q # r => resolving'[q] = resolving[q]
    BY <1>1 DEF TypeOK, TimerTypes
  <1>3. orphans' \in Nat /\ orphans' >= orphans
    BY <1>1 DEF TypeOK, TimerTypes
  <1>4. mapped' \in BOOLEAN /\ (mapped => mapped')
    BY <1>1, Zenon DEF TypeOK, TimerTypes
  <1>5. FeedTypes' /\ RedisTypes' /\ FlushTypes'
    BY <1>1, Zenon DEF TypeOK, FeedTypes, RedisTypes, FlushTypes, feedVars, redisVars, flushVars
  <1>6. TimerTypes'
    BY <1>1, <1>2, <1>3, <1>4, Zenon DEF TypeOK, TimerTypes
  <1>7. ASSUME NoStrandedList, list' # <<>> PROVE WakeUp'
    <2>1. WakeUp /\ UNCHANGED <<list, cmds, flushes>>
      BY <1>1, <1>7, Zenon DEF NoStrandedList, redisVars, flushVars
    <2>2. CASE reqId = r
      BY <1>1, <2>2, Zenon DEF WakeUp
    <2>3. CASE reqId # r
      <3>1. ArmedResolve => ArmedResolve'
        BY <1>1, <1>2, <2>3 DEF ArmedResolve, TypeOK, TimerTypes
      <3>2. orphans > 0 => orphans' > 0
        BY <1>3 DEF TypeOK, TimerTypes
      <3> QED  BY <2>1, <3>1, <3>2, <1>4, Zenon DEF WakeUp
    <2> QED  BY <2>2, <2>3
  <1> QED  BY <1>5, <1>6, <1>7, Zenon DEF Keeps, TypeOK, NoStrandedList

LEMMA DrainKeeps ==
    ASSUME TypeOK, Drain, orphans' \in Nat,
           UNCHANGED <<list, feedVars, flushVars, arrived, handed, read, buffered>>
    PROVE  Keeps
  <1>1. FeedTypes' /\ FlushTypes'
    BY Zenon DEF TypeOK, FeedTypes, FlushTypes, feedVars, flushVars
  <1>2. TimerTypes' /\ RedisTypes' /\ (ArmedResolve' \/ cmds' # <<>>)
    BY DrainTypes DEF TypeOK
  <1> QED  BY <1>1, <1>2 DEF Keeps, TypeOK, NoStrandedList, WakeUp

LEMMA FireKeeps ==
    ASSUME TypeOK, FireMapped \/ FireOrphan
    PROVE  Keeps
  <1>1. orphans' \in Nat
    BY DEF TypeOK, TimerTypes, FireMapped, FireOrphan
  <1> QED  BY <1>1, DrainKeeps DEF FireMapped, FireOrphan

\* Replies of Redis.
LEMMA RPushReplyKeeps ==
    ASSUME TypeOK, RPushReply
    PROVE  Keeps
  <1>1. cmds' \in Seq(Commands) /\ Head(cmds) \in Commands
    BY AnsweredTypes DEF TypeOK, RPushReply
  <1>2. Head(cmds).msg \in Messages
    BY <1>1 DEF RPushReply, Answered, Commands, RPush
  <1>3. RedisTypes'
    BY <1>1, <1>2 DEF TypeOK, RedisTypes, RPushReply
  <1>4. TimerTypes' /\ ArmedResolve'
    BY RescheduleTypes DEF TypeOK, TimerTypes, RPushReply
  <1>5. FeedTypes' /\ FlushTypes'
    BY Zenon DEF TypeOK, FeedTypes, FlushTypes, RPushReply, feedVars, flushVars
  <1> QED  BY <1>3, <1>4, <1>5 DEF Keeps, TypeOK, NoStrandedList, WakeUp

LEMMA TakeReplyKeeps ==
    ASSUME TypeOK, TakeReply
    PROVE  Keeps
  <1>1. RedisTypes' /\ list' = <<>>
    BY AnsweredTypes DEF TypeOK, RedisTypes, TakeReply
  <1>2. FeedTypes' /\ TimerTypes'
    BY Zenon DEF TypeOK, FeedTypes, TimerTypes, TakeReply, feedVars, timerVars
  <1>3. /\ handed' \in Seq(Messages) /\ Len(handed') = Len(handed) + Len(list)
        /\ arrived' \in Seq(Messages) /\ Len(handed) \in Nat /\ Len(list) \in Nat
    BY DEF TypeOK, RedisTypes, FlushTypes, TakeReply
  <1>4. CASE list = <<>>
    <2>1. UNCHANGED <<processing, flushes>>
      BY <1>4 DEF TakeReply, flushVars
    <2> QED  BY <1>1, <1>2, <1>3, <2>1 DEF Keeps, TypeOK, FlushTypes, NoStrandedList
  <1>5. CASE list # <<>>
    <2> DEFINE new == [from |-> Len(handed) + 1, to |-> Len(handed) + Len(list), loaded |-> FALSE]
    <2>1. processing' \in BOOLEAN
      BY <1>5, Zenon DEF TakeReply
    <2>2. flushes' = flushes \cup {new}
      BY <1>5 DEF TakeReply
    <2>3. Len(list) > 0
      BY <1>5 DEF TypeOK, RedisTypes
    <2>4. /\ new \in [from : Nat, to : Nat, loaded : BOOLEAN]
          /\ 1 <= new.from /\ new.from <= new.to /\ new.to <= Len(handed')
      BY <1>3, <2>3
    <2>5. flushes' \subseteq [from : Nat, to : Nat, loaded : BOOLEAN]
      BY <2>2, <2>4, Zenon DEF TypeOK, FlushTypes
    <2>6. \A f \in flushes' : 1 <= f.from /\ f.from <= f.to /\ f.to <= Len(handed')
      <3> HIDE DEF new
      <3> QED  BY <1>3, <2>2, <2>4 DEF TypeOK, FlushTypes
    <2> QED  BY <1>1, <1>2, <1>3, <2>1, <2>5, <2>6 DEF Keeps, TypeOK, FlushTypes, NoStrandedList
  <1> QED  BY <1>4, <1>5

LEMMA LlenReplyKeeps ==
    ASSUME TypeOK, LlenReply
    PROVE  Keeps
  <1>1. RedisTypes' /\ list' = list /\ flushes' = flushes
    BY AnsweredTypes DEF TypeOK, RedisTypes, LlenReply, flushVars
  <1>2. FeedTypes' /\ FlushTypes'
    BY Zenon DEF TypeOK, FeedTypes, FlushTypes, LlenReply, feedVars, flushVars
  <1>3. CASE list # <<>> /\ ~mapped
    <2>1. TimerTypes' /\ ArmedResolve'
      BY <1>3, RescheduleTypes DEF TypeOK, TimerTypes, LlenReply
    <2> QED  BY <1>1, <1>2, <2>1 DEF Keeps, TypeOK, NoStrandedList, WakeUp
  <1>4. CASE ~(list # <<>> /\ ~mapped)
    <2>1. UNCHANGED timerVars
      BY <1>4 DEF LlenReply
    <2> QED  BY <1>1, <1>2, <1>4, <2>1, Zenon
             DEF Keeps, TypeOK, TimerTypes, NoStrandedList, WakeUp, timerVars
  <1> QED  BY <1>3, <1>4

\* The flush handler.
LEMMA LoadKeeps ==
    ASSUME TypeOK, NEW f \in flushes, Load(f)
    PROVE  Keeps
  <1> DEFINE g == [f EXCEPT !.loaded = TRUE]
  <1>1. flushes' = (flushes \ {f}) \cup {g}
    BY DEF Load
  <1>2. g \in [from : Nat, to : Nat, loaded : BOOLEAN] /\ g.from = f.from /\ g.to = f.to
    BY DEF TypeOK, FlushTypes
  <1>3. FlushTypes'
    <2> HIDE DEF g
    <2> QED  BY <1>1, <1>2 DEF Keeps, TypeOK, FlushTypes, Load
  <1>4. FeedTypes'
    <2>1. read' \in [Messages -> 0..MaxEdits]
      BY DEF TypeOK, FeedTypes, Load
    <2> QED  BY <2>1, Zenon DEF Keeps, TypeOK, FeedTypes, Load, feedVars
  <1>5. RedisTypes' /\ TimerTypes'
    BY Zenon DEF TypeOK, RedisTypes, TimerTypes, Load, redisVars, timerVars
  <1> QED  BY <1>1, <1>3, <1>4, <1>5 DEF Keeps, TypeOK, NoStrandedList, WakeUp

LEMMA FlushEndKeeps ==
    ASSUME TypeOK, NEW f \in flushes, FlushEnd(f)
    PROVE  Keeps
  <1>1. cmds' = Append(cmds, [op |-> "llen"]) /\ [op |-> "llen"] \in Commands
    BY DEF FlushEnd, Commands
  <1>2. RedisTypes' /\ cmds' # <<>>
    BY <1>1, SendTypes DEF TypeOK, RedisTypes, FlushEnd
  <1>3. FlushTypes'
    <2>1. processing' \in BOOLEAN
      BY Zenon DEF FlushEnd
    <2> QED  BY <2>1, Zenon DEF Keeps, TypeOK, FlushTypes, FlushEnd
  <1>4. FeedTypes' /\ TimerTypes'
    BY Zenon DEF TypeOK, FeedTypes, TimerTypes, FlushEnd, feedVars, timerVars
  <1> QED  BY <1>2, <1>3, <1>4 DEF Keeps, TypeOK, NoStrandedList, WakeUp

-----------------------------------------------------------------------------

\* Failures.
LEMMA RedisErrorTypes ==
    ASSUME TypeOK, RedisError
    PROVE  TypeOK'
  <1>1. cmds' \in Seq(Commands) /\ Head(cmds) \in Commands /\ list \in Seq(Messages)
    BY DEF TypeOK, RedisTypes, RedisError
  <1>2. Executed(list, Head(cmds)) \in Seq(Messages)
    <2>1. CASE Head(cmds).op = "rpush"
      <3>1. Head(cmds).msg \in Messages
        BY <1>1, <2>1 DEF Commands, RPush
      <3> QED  BY <1>1, <2>1, <3>1 DEF Executed
    <2>2. CASE Head(cmds).op = "take"
      BY <1>1, <2>2 DEF Executed
    <2>3. CASE Head(cmds).op = "llen"
      BY <1>1, <2>3 DEF Executed
    <2> QED  BY <1>1, <2>1, <2>2, <2>3 DEF Commands, RPush
  <1>3. list' \in Seq(Messages)
    BY <1>1, <1>2 DEF RedisError
  <1>4. RedisTypes'
    BY <1>1, <1>3 DEF RedisTypes
  <1>5. FeedTypes' /\ TimerTypes' /\ FlushTypes'
    BY Zenon DEF TypeOK, FeedTypes, TimerTypes, FlushTypes, RedisError, feedVars, timerVars, flushVars
  <1> QED  BY <1>4, <1>5 DEF TypeOK

\* After a restart the list holds what Redis had executed.
LEMMA RestartList ==
    ASSUME RedisTypes, NEW n \in 0..Len(cmds)
    PROVE  SinceTake(n) \in SUBSET (DOMAIN cmds) /\ Pushed(SinceTake(n)) \in Seq(Messages)
  <1>1. Len(cmds) \in Nat /\ DOMAIN cmds = 1..Len(cmds)
    BY DEF RedisTypes
  <1>2. SinceTake(n) \in SUBSET (DOMAIN cmds)
    BY <1>1 DEF SinceTake
  <1> QED  BY <1>2, PushesIs

LEMMA RestartTypes ==
    ASSUME TypeOK, Restart
    PROVE  TypeOK'
  <1>1. PICK n \in 0..Len(cmds) :
            list' = (IF SinceTake(n) = 1..n THEN list ELSE <<>>) \o Pushed(SinceTake(n))
    BY DEF Restart
  <1>2. Pushed(SinceTake(n)) \in Seq(Messages)
    BY RestartList DEF TypeOK
  <1>3. list \in Seq(Messages) /\ <<>> \in Seq(Messages)
    BY DEF TypeOK, RedisTypes
  <1>4. list' \in Seq(Messages)
    BY <1>1, <1>2, <1>3
  <1>5. RedisTypes'
    BY <1>4 DEF RedisTypes, Restart
  <1>6. FeedTypes'
    BY DEF TypeOK, FeedTypes, Restart
  <1>7. TimerTypes'
    <2>1. reqId' = 0 /\ resolving' = [r \in 1..MaxReq |-> 0] /\ orphans' = 0 /\ mapped' = FALSE
      BY DEF Restart
    <2>2. reqId' \in 0..MaxReq /\ resolving' \in [1..MaxReq -> Nat] /\ orphans' \in Nat
      BY <2>1, BoundsAssumption
    <2>3. mapped' \in BOOLEAN
      BY <2>1, Zenon
    <2> QED  BY <2>2, <2>3, Zenon DEF TimerTypes
  <1>8. FlushTypes'
    <2>1. processing' = FALSE /\ flushes' = {} /\ arrived' = arrived /\ handed' = handed
      BY DEF Restart
    <2>2. processing' \in BOOLEAN
      BY <2>1, Zenon
    <2> QED  BY <2>1, <2>2 DEF TypeOK, FlushTypes
  <1> QED  BY <1>5, <1>6, <1>7, <1>8 DEF TypeOK

-----------------------------------------------------------------------------
\* Redis executes every command and the process is not restarted.  The database
\* may fail: a flush that ends before it has read its rows is covered.
NothingLost == "redis" \notin Faults /\ "restart" \notin Faults

LEMMA NoLoss == NothingLost => ~RedisError /\ ~Restart
  BY DEF NothingLost, RedisError, Restart

\* Every step keeps the types; and strands nothing, while nothing is lost.
LEMMA NextKeeps ==
    ASSUME TypeOK, [Next]_vars
    PROVE  TypeOK' /\ (NothingLost => Keeps)
  <1>1. CASE UNCHANGED vars
    BY <1>1, Zenon DEF vars, Keeps, TypeOK, FeedTypes, RedisTypes, TimerTypes, FlushTypes, NoStrandedList,
       WakeUp, ArmedResolve, feedVars, redisVars, timerVars, flushVars
  <1>2. CASE RedisError \/ Restart
    BY <1>2, RedisErrorTypes, RestartTypes, NoLoss
  <1>3. CASE Next /\ ~RedisError /\ ~Restart
    <2>1. Keeps
      BY <1>3, ReceiveKeeps, PushKeeps, EditKeeps, LateEditKeeps, ResolveKeeps, FireKeeps, RPushReplyKeeps,
         TakeReplyKeeps, LlenReplyKeeps, LoadKeeps, FlushEndKeeps, Zenon DEF Next
    <2> QED  BY <2>1 DEF Keeps
  <1> QED  BY <1>1, <1>2, <1>3

\* The fields of InboundBufferService, the Redis list and the pipeline keep
\* their types and their shape, whatever fails.
THEOREM TypeCorrect == Spec => []TypeOK
  <1>1. TypeOK /\ [Next]_vars => TypeOK'
    BY NextKeeps
  <1>2. Init => TypeOK
    BY InitHolds
  <1> QED  BY <1>1, <1>2, PTL DEF Spec

\* Ids in the Redis list always have something that will drain them, for any
\* number of messages and edits and any delay of Redis and of the settings.
THEOREM NeverStranded ==
    ASSUME NothingLost
    PROVE  Spec => []NoStrandedList
  <1>1. TypeOK /\ NoStrandedList /\ [Next]_vars => TypeOK' /\ NoStrandedList'
    BY NextKeeps DEF Keeps
  <1> QED  BY <1>1, InitHolds, PTL DEF Spec

-----------------------------------------------------------------------------
(* What became of the ids that arrived *)

\* In their order: handed over, in the list, on their way to Redis.
Kept == handed \o list \o QueuedIds

LEMMA KeptIs ==
    ASSUME TypeOK
    PROVE  /\ handed \in Seq(Messages) /\ list \in Seq(Messages) /\ arrived \in Seq(Messages)
           /\ QueuedIds \in Seq(Messages) /\ Kept \in Seq(Messages)
           /\ Kept = handed \o (list \o QueuedIds)
  <1>1. handed \in Seq(Messages) /\ list \in Seq(Messages) /\ arrived \in Seq(Messages)
    BY DEF TypeOK, RedisTypes, FlushTypes
  <1>2. QueuedIds \in Seq(Messages)
    BY PushesIs DEF TypeOK, QueuedIds
  <1> QED  BY <1>1, <1>2, ConcatAssociative, ConcatProperties DEF Kept

LEMMA KeptSame ==
    ASSUME UNCHANGED <<handed, list, cmds>>
    PROVE  Kept' = Kept
  BY DEF Kept, QueuedIds, Pushed, Pushes

\* The effect of each kind of step on what is kept.
LEMMA KeptSend ==
    ASSUME TypeOK, TypeOK', NEW c \in Commands, cmds' = Append(cmds, c), UNCHANGED <<handed, list>>
    PROVE  /\ c.op # "rpush" => Kept' = Kept
           /\ c.op = "rpush" => Kept' = Append(Kept, c.msg)
  <1>1. /\ c.op # "rpush" => QueuedIds' = QueuedIds
        /\ c.op = "rpush" => c.msg \in Messages /\ QueuedIds' = Append(QueuedIds, c.msg)
    BY QueuedAppend DEF TypeOK
  <1>2. c.op # "rpush" => Kept' = Kept
    BY <1>1 DEF Kept
  <1>3. ASSUME c.op = "rpush" PROVE Kept' = Append(Kept, c.msg)
    <2>1. Kept' = (handed \o list) \o Append(QueuedIds, c.msg)
      BY <1>1, <1>3 DEF Kept
    <2>2. handed \o list \in Seq(Messages) /\ QueuedIds \in Seq(Messages) /\ <<c.msg>> \in Seq(Messages)
      BY <1>1, <1>3, KeptIs
    <2>3. Append(QueuedIds, c.msg) = QueuedIds \o <<c.msg>>
      BY <1>1, <1>3, <2>2, AppendIsConcat
    <2>4. (handed \o list) \o (QueuedIds \o <<c.msg>>) = ((handed \o list) \o QueuedIds) \o <<c.msg>>
      BY <2>2, ConcatAssociative
    <2>5. Append(Kept, c.msg) = Kept \o <<c.msg>>
      BY <1>1, <1>3, KeptIs, AppendIsConcat
    <2> QED  BY <2>1, <2>3, <2>4, <2>5 DEF Kept
  <1> QED  BY <1>2, <1>3

LEMMA KeptRPush ==
    ASSUME TypeOK, TypeOK', cmds # <<>>, cmds' = Tail(cmds), Head(cmds).op = "rpush",
           handed' = handed, list' = Append(list, Head(cmds).msg)
    PROVE  Kept' = Kept
  <1>0. Head(cmds).msg \in Messages
    BY QueuedTail DEF TypeOK
  <1> PICK m \in Messages : m = Head(cmds).msg
    BY <1>0
  <1>1. QueuedIds = <<m>> \o QueuedIds'
    BY QueuedTail DEF TypeOK
  <1>2. QueuedIds' \in Seq(Messages) /\ <<m>> \in Seq(Messages)
    BY <1>1, QueuedTail DEF TypeOK
  <1>3. list' = list \o <<m>>
    BY <1>1, KeptIs, AppendIsConcat
  <1>4. Kept' = (handed \o (list \o <<m>>)) \o QueuedIds'
    BY <1>3 DEF Kept
  <1>5. handed \o (list \o <<m>>) = (handed \o list) \o <<m>>
    <2>1. handed \in Seq(Messages) /\ list \in Seq(Messages) /\ <<m>> \in Seq(Messages)
      BY KeptIs
    <2> QED  BY <2>1, ConcatAssociative
  <1>6. ((handed \o list) \o <<m>>) \o QueuedIds' = (handed \o list) \o (<<m>> \o QueuedIds')
    <2>1. handed \o list \in Seq(Messages)
      BY KeptIs
    <2> QED  BY <1>2, <2>1, ConcatAssociative
  <1> QED  BY <1>1, <1>4, <1>5, <1>6 DEF Kept

LEMMA KeptTake ==
    ASSUME TypeOK, TypeOK', TakeReply
    PROVE  Kept' = Kept
  <1>1. QueuedIds' = QueuedIds
    BY QueuedTail DEF TypeOK, TakeReply, Answered
  <1>2. handed' = handed \o list /\ list' = <<>>
    BY DEF TakeReply
  <1>3. (handed \o list) \o <<>> = handed \o list
    BY KeptIs, ConcatProperties, ConcatEmptySeq
  <1> QED  BY <1>1, <1>2, <1>3 DEF Kept

\* A step that loses nothing keeps what arrived, or adds what arrives.
LEMMA KeptNext ==
    ASSUME TypeOK, TypeOK', Next, ~RedisError, ~Restart
    PROVE  \/ Kept' = Kept /\ arrived' = arrived
           \/ \E m \in Messages : Kept' = Append(Kept, m) /\ arrived' = Append(arrived, m)
  <1>1. ASSUME NEW m \in Messages, Send(m), UNCHANGED <<handed, list>>
        PROVE  Kept' = Append(Kept, m) /\ arrived' = Append(arrived, m)
    <2>1. RPush(m) \in Commands /\ RPush(m).op = "rpush" /\ RPush(m).msg = m
      BY DEF Commands, RPush
    <2> QED  BY <1>1, <2>1, KeptSend DEF Send
  <1>2. CASE \E m \in Messages : Receive(m) \/ Push(m) \/ Edit(m) \/ LateEdit(m)
    <2> PICK m \in Messages : Receive(m) \/ Push(m) \/ Edit(m) \/ LateEdit(m)
      BY <1>2
    <2>1. UNCHANGED <<handed, list>> /\ (Send(m) \/ UNCHANGED <<cmds, arrived>>)
      BY DEF Receive, Push, Edit, LateEdit, redisVars
    <2> QED  BY <1>1, <2>1, KeptSame
  <1>3. CASE \E r \in 1..MaxReq : Resolve(r)
    <2>1. UNCHANGED <<handed, list, cmds, arrived>>
      BY <1>3 DEF Resolve, redisVars
    <2> QED  BY <2>1, KeptSame
  <1>4. CASE FireMapped \/ FireOrphan
    <2>1. Drain /\ UNCHANGED <<handed, list, arrived>>
      BY <1>4 DEF FireMapped, FireOrphan
    <2>2. CASE UNCHANGED cmds
      BY <2>1, <2>2, KeptSame
    <2>3. CASE cmds' = Append(cmds, [op |-> "take"])
      <3>1. [op |-> "take"] \in Commands /\ [op |-> "take"].op # "rpush"
        BY DEF Commands
      <3> QED  BY <2>1, <2>3, <3>1, KeptSend
    <2> QED  BY <2>1, <2>2, <2>3 DEF Drain
  <1>5. CASE RPushReply
    BY <1>5, KeptRPush DEF RPushReply, Answered
  <1>6. CASE TakeReply
    BY <1>6, KeptTake DEF TakeReply
  <1>7. CASE LlenReply
    <2>1. QueuedIds' = QueuedIds
      BY <1>7, QueuedTail DEF TypeOK, LlenReply, Answered
    <2> QED  BY <1>7, <2>1 DEF Kept, LlenReply
  <1>8. CASE \E f \in flushes : Load(f) \/ FlushEnd(f)
    <2> PICK f \in flushes : Load(f) \/ FlushEnd(f)
      BY <1>8
    <2>1. CASE Load(f)
      BY <2>1, KeptSame DEF Load, redisVars
    <2>2. CASE FlushEnd(f)
      <3>1. [op |-> "llen"] \in Commands /\ [op |-> "llen"].op # "rpush"
        BY DEF Commands
      <3> QED  BY <2>2, <3>1, KeptSend DEF FlushEnd
    <2> QED  BY <2>1, <2>2
  <1> QED  BY <1>2, <1>3, <1>4, <1>5, <1>6, <1>7, <1>8, Zenon DEF Next

LEMMA NothingKeptAtFirst == Init => Kept = <<>> /\ arrived = <<>>
  <1> SUFFICES ASSUME Init PROVE Kept = <<>> /\ arrived = <<>>
    OBVIOUS
  <1>1. handed = <<>> /\ list = <<>> /\ cmds = <<>> /\ arrived = <<>>
    BY DEF Init
  <1>2. QueuedIds = <<>>
    BY <1>1, NoneQueued DEF QueuedIds
  <1> QED  BY <1>1, <1>2 DEF Kept

\* inbound-buffer.service.ts DRAIN_BUFFER_SCRIPT, push, drain: what was pushed
\* is what was handed over, then what the list holds, then what is on its way;
\* for any number of messages and any interleaving of the replies.
THEOREM NothingIsLost ==
    ASSUME NothingLost
    PROVE  Spec => []Conservation
  <1>1. Conservation <=> Kept = arrived
    BY DEF Conservation, Kept
  <1>2. TypeOK /\ Kept = arrived /\ [Next]_vars => TypeOK' /\ (Kept = arrived)'
    <2> SUFFICES ASSUME TypeOK, Kept = arrived, [Next]_vars PROVE TypeOK' /\ Kept' = arrived'
      OBVIOUS
    <2>1. TypeOK'
      BY NextKeeps
    <2>2. CASE UNCHANGED vars
      BY <2>1, <2>2, KeptSame DEF vars, redisVars
    <2>3. CASE Next
      BY <2>1, <2>3, KeptNext, NoLoss
    <2> QED  BY <2>1, <2>2, <2>3
  <1>3. Init => TypeOK /\ Kept = arrived
    BY InitHolds, NothingKeptAtFirst
  <1> QED  BY <1>1, <1>2, <1>3, PTL DEF Spec

-----------------------------------------------------------------------------
(* One flush at a time, while Redis answers within a debounce *)

IsTake(i) == cmds[i].op = "take"

\* At most one `take' is on its way, and none while a batch is processed: a
\* timer cannot pass the test of `processing' a second time before the first
\* `take' has been answered, and the answer sets it.
OneTake == \A i, j \in DOMAIN cmds : IsTake(i) /\ IsTake(j) => i = j
TakeMeansIdle == Outstanding("take") => ~processing
OneFlush == \A f, g \in flushes : f = g
FlushMeansBusy == flushes # {} => processing

SerialInv == OneTake /\ TakeMeansIdle /\ OneFlush /\ FlushMeansBusy

LEMMA InitSerial == Init => SerialInv
  BY DEF Init, SerialInv, OneTake, TakeMeansIdle, OneFlush, FlushMeansBusy, Outstanding

\* Commands other than `take' do not disturb OneTake and TakeMeansIdle.
LEMMA AppendTakes ==
    ASSUME RedisTypes, NEW c \in Commands, cmds' = Append(cmds, c), OneTake,
           c.op # "take" \/ ~Outstanding("take")
    PROVE  OneTake' /\ (Outstanding("take")' => Outstanding("take") \/ c.op = "take")
  <1>1. /\ DOMAIN cmds = 1..Len(cmds) /\ Len(cmds) \in Nat /\ Len(cmds') = Len(cmds) + 1
        /\ DOMAIN cmds' = 1..Len(cmds')
        /\ \A i \in 1..Len(cmds) : cmds'[i] = cmds[i]
        /\ cmds'[Len(cmds) + 1] = c
    BY DEF RedisTypes
  <1>2. \A i \in DOMAIN cmds' : i \in DOMAIN cmds \/ i = Len(cmds) + 1
    BY <1>1
  <1> QED  BY <1>1, <1>2 DEF OneTake, Outstanding, IsTake

LEMMA TailTakes ==
    ASSUME RedisTypes, cmds # <<>>, cmds' = Tail(cmds), OneTake
    PROVE  /\ OneTake' /\ (Outstanding("take")' => Outstanding("take"))
           /\ Head(cmds).op = "take" => ~Outstanding("take")'
  <1>1. /\ Len(cmds) \in Nat /\ Len(cmds) > 0 /\ DOMAIN cmds = 1..Len(cmds)
        /\ DOMAIN cmds' = 1..Len(cmds) - 1 /\ Head(cmds) = cmds[1]
        /\ \A i \in DOMAIN cmds' : cmds'[i] = cmds[i + 1]
    BY DEF RedisTypes
  <1>2. \A i \in DOMAIN cmds' : i + 1 \in DOMAIN cmds /\ i + 1 # 1 /\ i \in Nat
    BY <1>1
  <1>3. OneTake'
    BY <1>1, <1>2 DEF OneTake, IsTake
  <1>4. Outstanding("take")' => Outstanding("take")
    BY <1>1, <1>2 DEF Outstanding
  <1>5. Head(cmds).op = "take" => ~Outstanding("take")'
    <2>1. 1 \in DOMAIN cmds
      BY <1>1
    <2> QED  BY <1>1, <1>2, <2>1 DEF OneTake, IsTake, Outstanding
  <1> QED  BY <1>3, <1>4, <1>5

LEMMA SameSerial ==
    ASSUME SerialInv, UNCHANGED <<cmds, flushVars>>
    PROVE  SerialInv'
  BY Zenon DEF SerialInv, OneTake, IsTake, TakeMeansIdle, Outstanding, OneFlush, FlushMeansBusy, flushVars

\* A command other than `take' is sent, or a reply other than that of `take'
\* arrives, with no flush starting or ending.
LEMMA OtherCommand ==
    ASSUME RedisTypes, SerialInv, UNCHANGED flushVars,
           \/ \E c \in Commands : c.op # "take" /\ cmds' = Append(cmds, c)
           \/ cmds # <<>> /\ cmds' = Tail(cmds)
    PROVE  SerialInv'
  <1>1. OneTake' /\ (Outstanding("take")' => Outstanding("take"))
    BY AppendTakes, TailTakes DEF SerialInv
  <1> QED  BY <1>1, Zenon DEF SerialInv, TakeMeansIdle, OneFlush, FlushMeansBusy, flushVars

LEMMA SendSerial ==
    ASSUME RedisTypes, SerialInv, NEW m \in Messages, Send(m), UNCHANGED flushVars
    PROVE  SerialInv'
  <1>1. RPush(m) \in Commands /\ RPush(m).op # "take" /\ cmds' = Append(cmds, RPush(m))
    BY DEF Commands, RPush, Send
  <1> QED  BY <1>1, OtherCommand

LEMMA FireSerial ==
    ASSUME RedisTypes, SerialInv, ~Slow, FireMapped \/ FireOrphan
    PROVE  SerialInv'
  <1>1. ~Outstanding("take") /\ Drain /\ UNCHANGED flushVars
    BY DEF FireMapped, FireOrphan, TimeToFire
  <1>2. CASE processing
    BY <1>1, <1>2, SameSerial DEF Drain
  <1>3. CASE ~processing
    <2>1. cmds' = Append(cmds, [op |-> "take"]) /\ [op |-> "take"] \in Commands
      BY <1>1, <1>3 DEF Drain, Commands
    <2>2. OneTake'
      BY <1>1, <2>1, AppendTakes DEF SerialInv
    <2> QED  BY <1>1, <1>3, <2>2, Zenon
             DEF SerialInv, TakeMeansIdle, OneFlush, FlushMeansBusy, flushVars
  <1> QED  BY <1>2, <1>3

LEMMA TakeSerial ==
    ASSUME RedisTypes, SerialInv, TakeReply
    PROVE  SerialInv'
  <1>1. cmds # <<>> /\ cmds' = Tail(cmds) /\ Head(cmds).op = "take"
    BY DEF TakeReply, Answered
  <1>2. Outstanding("take")
    <2>1. 1 \in DOMAIN cmds /\ Head(cmds) = cmds[1]
      BY <1>1 DEF RedisTypes
    <2> QED  BY <1>1, <2>1 DEF Outstanding
  <1>3. flushes = {}
    BY <1>2 DEF SerialInv, TakeMeansIdle, FlushMeansBusy
  <1>4. OneTake' /\ ~Outstanding("take")'
    BY <1>1, TailTakes DEF SerialInv
  <1>5. CASE list = <<>>
    BY <1>3, <1>4, <1>5, Zenon
    DEF TakeReply, SerialInv, TakeMeansIdle, OneFlush, FlushMeansBusy, flushVars
  <1>6. CASE list # <<>>
    <2>1. processing' = TRUE /\ \E new : flushes' = {new}
      BY <1>3, <1>6 DEF TakeReply
    <2> QED  BY <1>4, <2>1, Zenon DEF SerialInv, TakeMeansIdle, OneFlush, FlushMeansBusy
  <1> QED  BY <1>5, <1>6

LEMMA FlushSerial ==
    ASSUME RedisTypes, SerialInv, NEW f \in flushes, Load(f) \/ FlushEnd(f)
    PROVE  SerialInv'
  <1>1. \A g \in flushes : g = f
    BY DEF SerialInv, OneFlush
  <1>2. CASE Load(f)
    <2>1. \E g : flushes' = {g}
      BY <1>1, <1>2 DEF Load
    <2>2. UNCHANGED <<cmds, processing>>
      BY <1>2 DEF Load, redisVars
    <2>3. processing
      BY DEF SerialInv, FlushMeansBusy
    <2> QED  BY <2>1, <2>2, <2>3, Zenon
             DEF SerialInv, OneTake, IsTake, TakeMeansIdle, Outstanding, OneFlush, FlushMeansBusy
  <1>3. CASE FlushEnd(f)
    <2>1. flushes' = {} /\ processing' = FALSE
      BY <1>1, <1>3 DEF FlushEnd
    <2>2. cmds' = Append(cmds, [op |-> "llen"]) /\ [op |-> "llen"] \in Commands
      BY <1>3 DEF FlushEnd, Commands
    <2>3. OneTake'
      <3>1. [op |-> "llen"].op # "take"
        OBVIOUS
      <3> QED  BY <2>2, <3>1, AppendTakes DEF SerialInv
    <2> QED  BY <2>1, <2>3, Zenon DEF SerialInv, TakeMeansIdle, OneFlush, FlushMeansBusy
  <1> QED  BY <1>2, <1>3

LEMMA NextSerial ==
    ASSUME ~Slow, TypeOK, SerialInv, [Next]_vars
    PROVE  SerialInv'
  <1>1. RedisTypes
    BY DEF TypeOK
  <1>2. CASE UNCHANGED vars
    BY <1>2, SameSerial DEF vars, redisVars
  <1>3. CASE RedisError \/ Restart
    <2>1. CASE RedisError
      BY <1>1, <2>1, OtherCommand DEF RedisError
    <2>2. CASE Restart
      <3>1. cmds' = <<>> /\ flushes' = {} /\ processing' = FALSE
        BY <2>2 DEF Restart
      <3> QED  BY <3>1 DEF SerialInv, OneTake, TakeMeansIdle, OneFlush, FlushMeansBusy, Outstanding
    <2> QED  BY <1>3, <2>1, <2>2
  <1>4. CASE \E m \in Messages : Receive(m) \/ Push(m) \/ Edit(m) \/ LateEdit(m)
    <2> PICK m \in Messages : Receive(m) \/ Push(m) \/ Edit(m) \/ LateEdit(m)
      BY <1>4
    <2>1. UNCHANGED flushVars /\ (Send(m) \/ UNCHANGED cmds)
      BY DEF Receive, Push, Edit, LateEdit, redisVars
    <2> QED  BY <1>1, <2>1, SendSerial, SameSerial
  <1>5. CASE \E r \in 1..MaxReq : Resolve(r)
    BY <1>5, SameSerial DEF Resolve, redisVars
  <1>6. CASE RPushReply \/ LlenReply
    <2>1. UNCHANGED flushVars /\ cmds # <<>> /\ cmds' = Tail(cmds)
      BY <1>6 DEF RPushReply, LlenReply, Answered
    <2> QED  BY <1>1, <2>1, OtherCommand
  <1>7. CASE FireMapped \/ FireOrphan
    BY <1>1, <1>7, FireSerial
  <1>8. CASE TakeReply
    BY <1>1, <1>8, TakeSerial
  <1>9. CASE \E f \in flushes : Load(f) \/ FlushEnd(f)
    BY <1>1, <1>9, FlushSerial
  <1> QED  BY <1>2, <1>3, <1>4, <1>5, <1>6, <1>7, <1>8, <1>9, Zenon DEF Next

\* inbound-buffer.service.ts:127: flushes of one conversation do not run in
\* parallel, for any number of messages and edits, as long as a `take' and a
\* settings read are answered before the next debounce has passed.
THEOREM OneFlushAtATime ==
    ASSUME ~Slow
    PROVE  Spec => []SerialFlush
  <1>1. TypeOK /\ SerialInv /\ [Next]_vars => TypeOK' /\ SerialInv'
    BY NextKeeps, NextSerial
  <1>2. SerialInv => SerialFlush
    <2> SUFFICES ASSUME SerialInv PROVE SerialFlush
      OBVIOUS
    <2>1. CASE flushes = {}
      <3>1. Cardinality(flushes) = 0
        BY <2>1, FS_EmptySet
      <3> QED  BY <3>1 DEF SerialFlush
    <2>2. CASE flushes # {}
      <3> PICK f \in flushes : TRUE
        BY <2>2
      <3>1. \A g \in flushes : g = f
        BY DEF SerialInv, OneFlush
      <3>2. flushes = {f}
        BY <3>1
      <3>3. Cardinality(flushes) = 1
        BY <3>2, FS_Singleton
      <3> QED  BY <3>3 DEF SerialFlush
    <2> QED  BY <2>1, <2>2
  <1> QED  BY <1>1, <1>2, InitHolds, InitSerial, PTL DEF Spec

-----------------------------------------------------------------------------
(* With lost replies and restarts: each id once at most, and in order *)

\* The inductive form of AtMostOnceInOrder: a step may drop ids, and what is
\* within what was kept is still within what arrived.
InOrder == Within(Kept, arrived)

\* A lost reply and a restart can only drop ids.
LEMMA KeptShrinks ==
    ASSUME TypeOK, TypeOK', RedisError \/ Restart
    PROVE  Within(Kept', Kept)
  <1>0. /\ handed \in Seq(Messages) /\ list \in Seq(Messages) /\ QueuedIds \in Seq(Messages)
        /\ <<>> \in Seq(Messages) /\ handed \o list \in Seq(Messages) /\ list \o QueuedIds \in Seq(Messages)
    BY KeptIs
  <1>1. CASE RedisError
    <2>1. /\ cmds # <<>> /\ cmds' = Tail(cmds) /\ handed' = handed
          /\ list' \in {list, Executed(list, Head(cmds))}
      BY <1>1 DEF RedisError
    <2>2. /\ Head(cmds).op # "rpush" => QueuedIds' = QueuedIds
          /\ Head(cmds).op = "rpush" => /\ Head(cmds).msg \in Messages /\ QueuedIds' \in Seq(Messages)
                                       /\ QueuedIds = <<Head(cmds).msg>> \o QueuedIds'
      BY <2>1, QueuedTail DEF TypeOK
    <2>3. QueuedIds' \in Seq(Messages) /\ Within(QueuedIds', QueuedIds)
      <3>1. CASE Head(cmds).op # "rpush"
        BY <1>0, <2>2, <3>1, WithinSame
      <3>2. CASE Head(cmds).op = "rpush"
        <4>1. <<Head(cmds).msg>> \in Seq(Messages) /\ QueuedIds' \in Seq(Messages)
          BY <2>2, <3>2
        <4>2. Within(<<>>, <<Head(cmds).msg>>) /\ Within(QueuedIds', QueuedIds')
          BY <4>1, WithinSame
        <4>3. Within(<<>> \o QueuedIds', <<Head(cmds).msg>> \o QueuedIds')
          BY <1>0, <4>1, <4>2, WithinBoth
        <4>4. <<>> \o QueuedIds' = QueuedIds'
          BY <4>1, ConcatEmptySeq
        <4> QED  BY <2>2, <3>2, <4>1, <4>3, <4>4
      <3> QED  BY <3>1, <3>2
    <2>4. CASE list' = list
      <3>1. Within(handed \o list, handed \o list)
        BY <1>0, WithinSame
      <3>2. Within((handed \o list) \o QueuedIds', (handed \o list) \o QueuedIds)
        BY <1>0, <2>3, <3>1, WithinBoth
      <3> QED  BY <2>1, <2>4, <3>2 DEF Kept
    <2>5. CASE list' = Executed(list, Head(cmds)) /\ Head(cmds).op = "rpush"
      <3>1. list' = Append(list, Head(cmds).msg)
        BY <2>5 DEF Executed
      <3>2. Kept' = Kept
        BY <2>1, <2>5, <3>1, KeptRPush
      <3> QED  BY <3>2, KeptIs, WithinSame
    <2>6. CASE list' = Executed(list, Head(cmds)) /\ Head(cmds).op = "take"
      <3>1. list' = <<>>
        BY <2>6 DEF Executed
      <3>2. Within(handed, handed) /\ Within(<<>>, list)
        BY <1>0, WithinSame
      <3>3. Within(handed \o <<>>, handed \o list)
        BY <1>0, <3>2, WithinBoth
      <3>4. handed \o <<>> \in Seq(Messages)
        BY <1>0, ConcatProperties
      <3>5. Within((handed \o <<>>) \o QueuedIds', (handed \o list) \o QueuedIds)
        BY <1>0, <2>3, <3>3, <3>4, WithinBoth
      <3> QED  BY <2>1, <3>1, <3>5 DEF Kept
    <2>7. CASE list' = Executed(list, Head(cmds)) /\ Head(cmds).op = "llen"
      BY <2>4, <2>7 DEF Executed
    <2>8. Head(cmds).op \in {"rpush", "take", "llen"}
      <3>1. Head(cmds) \in Commands
        BY <2>1 DEF TypeOK, RedisTypes
      <3> QED  BY <3>1 DEF Commands, RPush
    <2> QED  BY <2>1, <2>4, <2>5, <2>6, <2>7, <2>8
  <1>2. CASE Restart
    <2>1. PICK n \in 0..Len(cmds) :
              list' = (IF SinceTake(n) = 1..n THEN list ELSE <<>>) \o Pushed(SinceTake(n))
      BY <1>2 DEF Restart
    <2>2. handed' = handed /\ QueuedIds' = <<>>
      BY <1>2, NoneQueued DEF Restart
    <2>3. SinceTake(n) \in SUBSET (DOMAIN cmds) /\ Pushed(SinceTake(n)) \in Seq(Messages)
      BY RestartList DEF TypeOK
    <2>4. Within(Pushed(SinceTake(n)), QueuedIds)
      BY <2>3, PushedWithin DEF TypeOK, QueuedIds
    <2>5. PICK kept \in Seq(Messages) : /\ kept = (IF SinceTake(n) = 1..n THEN list ELSE <<>>)
                                        /\ Within(kept, list)
      BY <1>0, WithinSame
    <2>6. Within(kept \o Pushed(SinceTake(n)), list \o QueuedIds)
      BY <1>0, <2>3, <2>4, <2>5, WithinBoth
    <2>7. list' \in Seq(Messages) /\ Within(list', list \o QueuedIds)
      BY <2>1, <2>5, <2>6 DEF TypeOK, RedisTypes
    <2>8. Within(handed \o list', handed \o (list \o QueuedIds))
      <3>1. Within(handed, handed)
        BY <1>0, WithinSame
      <3> QED  BY <1>0, <2>7, <3>1, WithinBoth
    <2>9. (handed \o list') \o <<>> = handed \o list'
      BY <1>0, <2>7, ConcatProperties, ConcatEmptySeq
    <2> QED  BY <2>2, <2>8, <2>9, KeptIs DEF Kept
  <1> QED  BY <1>1, <1>2

\* inbound-buffer.service.ts:11-15,148: whatever fails and whatever Redis had
\* executed when its replies were lost, an id that was pushed once is handed
\* over at most once, and none overtakes an earlier one.
THEOREM NeverTwiceNorOutOfOrder == Spec => []AtMostOnceInOrder
  <1>1. TypeOK /\ InOrder => AtMostOnceInOrder
    <2> SUFFICES ASSUME TypeOK, InOrder PROVE AtMostOnceInOrder
      OBVIOUS
    <2>1. \E pick \in SUBSET (DOMAIN arrived) : Kept = Picked(arrived, pick)
      BY KeptIs, PickedWithin DEF InOrder
    <2> QED  BY <2>1 DEF AtMostOnceInOrder, Kept, Picked
  <1>2. TypeOK /\ InOrder /\ [Next]_vars => TypeOK' /\ InOrder'
    <2> SUFFICES ASSUME TypeOK, InOrder, [Next]_vars PROVE TypeOK' /\ Within(Kept', arrived')
      BY DEF InOrder
    <2>1. TypeOK'
      BY NextKeeps
    <2>2. Kept' \in Seq(Messages) /\ Kept \in Seq(Messages) /\ arrived \in Seq(Messages)
      <3>1. handed' \in Seq(Messages) /\ list' \in Seq(Messages)
        BY <2>1 DEF TypeOK, RedisTypes, FlushTypes
      <3>2. QueuedIds' \in Seq(Messages)
        BY <2>1, QueuedTypes DEF TypeOK
      <3> QED  BY <3>1, <3>2, KeptIs, ConcatProperties DEF Kept
    <2>3. CASE UNCHANGED vars
      <3>1. Kept' = Kept /\ arrived' = arrived
        BY <2>3, KeptSame DEF vars, redisVars
      <3> QED  BY <2>1, <3>1 DEF InOrder
    <2>4. CASE RedisError \/ Restart
      <3>1. Within(Kept', Kept) /\ arrived' = arrived
        BY <2>1, <2>4, KeptShrinks DEF RedisError, Restart
      <3> QED  BY <2>1, <2>2, <3>1, WithinTrans DEF InOrder
    <2>5. CASE Next /\ ~RedisError /\ ~Restart
      <3>1. CASE Kept' = Kept /\ arrived' = arrived
        BY <2>1, <3>1 DEF InOrder
      <3>2. ASSUME NEW m \in Messages, Kept' = Append(Kept, m), arrived' = Append(arrived, m)
            PROVE  Within(Kept', arrived')
        <4>0. <<m>> \in Seq(Messages)
          OBVIOUS
        <4>1. <<m>> \in Seq(Messages) /\ Within(<<m>>, <<m>>)
          BY <4>0, WithinSame
        <4>2. Within(Kept \o <<m>>, arrived \o <<m>>)
          BY <2>2, <4>1, WithinBoth DEF InOrder
        <4>3. Append(Kept, m) = Kept \o <<m>> /\ Append(arrived, m) = arrived \o <<m>>
          BY <2>2, AppendIsConcat
        <4> QED  BY <3>2, <4>2, <4>3
      <3> QED  BY <2>1, <2>5, <3>1, <3>2, KeptNext
    <2> QED  BY <2>3, <2>4, <2>5
  <1>3. Init => TypeOK /\ InOrder
    <2>1. <<>> \in Seq(Messages)
      OBVIOUS
    <2> QED  BY <2>1, InitHolds, NothingKeptAtFirst, WithinSame DEF InOrder
  <1> QED  BY <1>1, <1>2, <1>3, PTL DEF Spec

-----------------------------------------------------------------------------
(* The promise of DebouncedInbox, step by step *)

\* The answer to `take' hands over everything that arrived and was in the list.
LEMMA TakeHandsOver ==
    ASSUME TypeOK, Kept = arrived, TakeReply
    PROVE  [Promise!Next]_<<arrived, handed>>
  <1> DEFINE n == Len(handed) + Len(list)
  <1>1. arrived' = arrived /\ handed' = handed \o list
    BY DEF TakeReply
  <1>2. /\ handed \in Seq(Messages) /\ list \in Seq(Messages) /\ QueuedIds \in Seq(Messages)
        /\ arrived = (handed \o list) \o QueuedIds
    BY KeptIs DEF Kept
  <1>3. Len(handed) \in Nat /\ Len(list) \in Nat /\ Len(arrived) \in Nat /\ n <= Len(arrived)
    <2>1. handed \o list \in Seq(Messages) /\ Len(handed \o list) = n
      BY <1>2
    <2>2. Len(arrived) = n + Len(QueuedIds) /\ Len(QueuedIds) \in Nat /\ Len(handed) \in Nat /\ Len(list) \in Nat
      BY <1>2, <2>1, ConcatProperties, LenProperties
    <2> QED  BY <2>2
  <1>4. CASE list = <<>>
    <2>1. handed' = handed
      BY <1>1, <1>2, <1>4, ConcatEmptySeq
    <2> QED  BY <1>1, <2>1
  <1>5. CASE list # <<>>
    <2>1. n \in Len(handed) + 1..Len(arrived)
      <3>1. Len(list) # 0
        BY <1>2, <1>5
      <3> QED  BY <1>3, <3>1
    <2>2. handed' = SubSeq(arrived, 1, n)
      <3> DEFINE s == handed \o list
      <3>1. s \in Seq(Messages) /\ Len(s) = n /\ n \in Nat /\ n >= 1
        BY <1>2, <1>3, <2>1
      <3> HIDE DEF s, n
      <3>2. 1 \in 1..Len(s) /\ n \in 1..Len(s)
        BY <3>1
      <3>3. SubSeq(s \o QueuedIds, 1, n) = SubSeq(s, 1, n)
        BY <1>2, <3>1, <3>2, SubSeqOfConcat1
      <3>4. SubSeq(s, 1, n) = s
        BY <3>1
      <3> QED  BY <1>1, <1>2, <3>3, <3>4 DEF s
    <2>3. Promise!HandOver
      BY <1>1, <2>1, <2>2 DEF Promise!HandOver
    <2> QED  BY <2>3 DEF Promise!Next
  <1> QED  BY <1>4, <1>5

\* 02_STATE_MACHINE.md, section 12: while nothing is lost, every step of the
\* buffer is the arrival of one id, the handing over of the next stretch of
\* those that arrived, or invisible.
THEOREM KeepsPromise ==
    ASSUME NothingLost
    PROVE  Spec => Promise!Safe
  <1>1. Init => Promise!Init
    BY DEF Init, Promise!Init
  <1>2. TypeOK /\ Conservation /\ [Next]_vars => [Promise!Next]_<<arrived, handed>>
    <2> SUFFICES ASSUME TypeOK, Kept = arrived, [Next]_vars PROVE [Promise!Next]_<<arrived, handed>>
      BY DEF Conservation, Kept
    <2>1. CASE UNCHANGED vars
      BY <2>1 DEF vars
    <2>2. ASSUME NEW m \in Messages, Receive(m) \/ Push(m) \/ Edit(m) \/ LateEdit(m)
          PROVE  [Promise!Next]_<<arrived, handed>>
      <3>1. handed' = handed /\ (arrived' = arrived \/ arrived' = Append(arrived, m))
        BY <2>2 DEF Receive, Push, Edit, LateEdit, Send
      <3> QED  BY <3>1 DEF Promise!Next, Promise!Push
    <2>3. CASE \/ \E r \in 1..MaxReq : Resolve(r)
               \/ FireMapped \/ FireOrphan \/ RPushReply \/ LlenReply
               \/ \E f \in flushes : Load(f) \/ FlushEnd(f)
      BY <2>3 DEF Resolve, FireMapped, FireOrphan, RPushReply, LlenReply, Load, FlushEnd
    <2>4. CASE TakeReply
      BY <2>4, TakeHandsOver
    <2> QED  BY <2>1, <2>2, <2>3, <2>4, NoLoss, Zenon DEF Next
  <1>3. Spec => []TypeOK /\ []Conservation
    BY TypeCorrect, NothingIsLost
  <1> QED  BY <1>1, <1>2, <1>3, PTL DEF Spec, Promise!Safe
=============================================================================
