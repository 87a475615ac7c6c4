---------------------- MODULE ScardMessageStackProofs ----------------------
(* Lemmas about the operators of the message stack. *)
EXTENDS ScardMessageStack, FiniteSetTheorems, FunctionTheorems, WellFoundedInduction,
        TLAPS

\* Positions up to n form a finite set; a rank counts at least i and at most all.
LEMMA RankBounds ==
  ASSUME NEW n \in Nat, NEW K \in SUBSET (1 .. n)
  PROVE  /\ IsFiniteSet(K) /\ Cardinality(K) \in Nat
         /\ \A i \in K : Rank(K, i) \in 1 .. Cardinality(K)
<1>1. IsFiniteSet(1 .. n)
  BY FS_Interval
<1>2. IsFiniteSet(K) /\ Cardinality(K) \in Nat
  BY <1>1, FS_Subset, FS_CardinalityType
<1>3. ASSUME NEW i \in K PROVE Rank(K, i) \in 1 .. Cardinality(K)
  <2> DEFINE L == {j \in K : j <= i}
  <2>1. L \in SUBSET K /\ i \in L
    OBVIOUS
  <2>2. IsFiniteSet(L) /\ Cardinality(L) <= Cardinality(K) /\ Cardinality(L) \in Nat
    BY <1>2, <2>1, FS_Subset, FS_CardinalityType
  <2>3. Cardinality(L) # 0
    BY <2>1, <2>2, FS_EmptySet
  <2> QED  BY <1>2, <2>2, <2>3 DEF Rank
<1> QED  BY <1>2, <1>3

\* Every rank is taken: removing the largest position leaves the others' ranks.
LEMMA NthExists ==
  \A n \in Nat : \A K \in SUBSET (1 .. n) : \A k \in 1 .. Cardinality(K) :
    \E i \in K : Rank(K, i) = k
<1> DEFINE Good(n) == \A K \in SUBSET (1 .. n) : \A k \in 1 .. Cardinality(K) :
                        \E i \in K : Rank(K, i) = k
           Bad == {n \in Nat : ~Good(n)}
<1>1. Good(0)
  <2> SUFFICES ASSUME NEW K \in SUBSET (1 .. 0), NEW k \in 1 .. Cardinality(K) PROVE FALSE
    OBVIOUS
  <2>1. K = {}
    OBVIOUS
  <2> QED  BY <2>1, FS_EmptySet
<1>2. ASSUME NEW n \in Nat, Good(n) PROVE Good(n + 1)
  <2> SUFFICES ASSUME NEW K \in SUBSET (1 .. n + 1), NEW k \in 1 .. Cardinality(K)
               PROVE  \E i \in K : Rank(K, i) = k
    OBVIOUS
  <2>1. CASE n + 1 \notin K
    <3>1. K \in SUBSET (1 .. n)
      BY <2>1
    <3> QED  BY <3>1, <1>2
  <2>2. CASE n + 1 \in K
    <3> DEFINE L == K \ {n + 1}
    <3>1. L \in SUBSET (1 .. n) /\ n + 1 \notin L
      OBVIOUS
    <3>2. IsFiniteSet(K) /\ Cardinality(K) \in Nat
      <4>1. n + 1 \in Nat
        OBVIOUS
      <4> QED  BY <4>1, RankBounds
    <3>5. Cardinality(L) = Cardinality(K) - 1
      BY <2>2, <3>2, FS_RemoveElement
    <3>3. CASE k = Cardinality(K)
      <4>3. \A j \in K : j <= n + 1
        OBVIOUS
      <4>1. {j \in K : j <= n + 1} = K
        BY <4>3
      <4>2. Rank(K, n + 1) = k
        BY <4>1, <3>3 DEF Rank
      <4> QED  BY <4>2, <2>2
    <3>4. CASE k # Cardinality(K)
      <4>1. k \in 1 .. Cardinality(L)
        BY <3>2, <3>4, <3>5
      <4>2. PICK i \in L : Rank(L, i) = k
        BY <4>1, <3>1, <1>2
      <4>3. {j \in K : j <= i} = {j \in L : j <= i}
        BY <3>1
      <4>4. Rank(K, i) = k
        BY <4>2, <4>3 DEF Rank
      <4> QED  BY <4>4
    <3> QED  BY <3>3, <3>4
  <2> QED  BY <2>1, <2>2
<1>3. ASSUME Bad # {} PROVE FALSE
  <2> HIDE DEF Good
  <2>1. PICK n \in Bad : \A m \in Bad : ~(<<m, n>> \in OpToRel(<, Nat))
    BY <1>3, WFMin, NatLessThanWellFounded
  <2>2. \A m \in Nat : m < n => Good(m)
    BY <2>1 DEF OpToRel
  <2>7. n \in Nat /\ ~Good(n)
    BY <2>1
  <2>3. n # 0
    BY <1>1, <2>7
  <2>4. n - 1 \in Nat /\ n - 1 < n /\ n = (n - 1) + 1 /\ n \in Nat
    BY <2>3, <2>7
  <2>5. Good(n - 1)
    BY <2>2, <2>4
  <2>6. Good((n - 1) + 1)
    BY <1>2, <2>4, <2>5
  <2> QED  BY <2>4, <2>6, <2>7
<1> QED  BY <1>3
\* A larger position has a larger rank.
LEMMA RankMonotone ==
  ASSUME NEW n \in Nat, NEW K \in SUBSET (1 .. n), NEW i \in K, NEW j \in K, i < j
  PROVE  Rank(K, i) < Rank(K, j)
<1> DEFINE L(x) == {y \in K : y <= x}
<1>1. IsFiniteSet(K)
  BY RankBounds
<1>2. L(i) \in SUBSET L(j) /\ L(j) \in SUBSET K
  <2>1. i \in Nat /\ j \in Nat /\ \A y \in K : y \in Nat
    OBVIOUS
  <2>2. \A y \in K : y <= i => y <= j
    BY <2>1
  <2> QED  BY <2>2
<1>3. j \in L(j) /\ j \notin L(i)
  OBVIOUS
<1>4. IsFiniteSet(L(j)) /\ IsFiniteSet(L(i))
  BY <1>1, <1>2, FS_Subset
<1>5. /\ Cardinality(L(i)) <= Cardinality(L(j))
      /\ Cardinality(L(i)) = Cardinality(L(j)) => L(j) = L(i)
  BY <1>2, <1>4, FS_Subset
<1>6. Cardinality(L(i)) \in Nat /\ Cardinality(L(j)) \in Nat
  BY <1>4, FS_CardinalityType
<1>7. L(j) # L(i)
  BY <1>3
<1>8. Cardinality(L(i)) < Cardinality(L(j))
  <2> HIDE DEF L
  <2> QED  BY <1>5, <1>6, <1>7
<1> QED  BY <1>8 DEF Rank

\* Nth enumerates K in increasing order.
LEMMA NthEnumerates ==
  ASSUME NEW n \in Nat, NEW K \in SUBSET (1 .. n)
  PROVE  /\ \A k \in 1 .. Cardinality(K) : Nth(K, k) \in K /\ Rank(K, Nth(K, k)) = k
         /\ \A i \in K : Rank(K, i) \in 1 .. Cardinality(K) /\ Nth(K, Rank(K, i)) = i
         /\ \A k, l \in 1 .. Cardinality(K) : k < l => Nth(K, k) < Nth(K, l)
<1>1. ASSUME NEW k \in 1 .. Cardinality(K) PROVE Nth(K, k) \in K /\ Rank(K, Nth(K, k)) = k
  <2>1. \E i \in K : Rank(K, i) = k
    BY NthExists
  <2> QED  BY <2>1 DEF Nth
<1>2. ASSUME NEW i \in K PROVE Rank(K, i) \in 1 .. Cardinality(K) /\ Nth(K, Rank(K, i)) = i
  <2>1. Rank(K, i) \in 1 .. Cardinality(K)
    BY RankBounds
  <2> DEFINE j == Nth(K, Rank(K, i))
  <2>2. j \in K /\ Rank(K, j) = Rank(K, i)
    BY <1>1, <2>1
  <2> HIDE DEF j
  <2>3. Rank(K, i) \in Nat /\ i \in Nat /\ j \in Nat
    <3>1. \A x \in 1 .. Cardinality(K) : x \in Nat
      OBVIOUS
    <3>2. \A x \in K : x \in Nat
      OBVIOUS
    <3> QED  BY <2>1, <2>2, <3>1, <3>2
  <2>6. ~(i < j)
    <3> SUFFICES ASSUME i < j PROVE FALSE
      OBVIOUS
    <3>1. Rank(K, i) < Rank(K, j)
      BY <2>2, RankMonotone
    <3> QED  BY <2>2, <2>3, <3>1
  <2>7. ~(j < i)
    <3> SUFFICES ASSUME j < i PROVE FALSE
      OBVIOUS
    <3>1. Rank(K, j) < Rank(K, i)
      BY <2>2, RankMonotone
    <3> QED  BY <2>2, <2>3, <3>1
  <2>4. ~(i < j) /\ ~(j < i)
    BY <2>6, <2>7
  <2>5. i = j
    BY <2>3, <2>4
  <2> QED  BY <2>1, <2>5 DEF j
<1>3. ASSUME NEW k \in 1 .. Cardinality(K), NEW l \in 1 .. Cardinality(K), k < l
      PROVE  Nth(K, k) < Nth(K, l)
  <2> DEFINE i == Nth(K, k)
             j == Nth(K, l)
  <2>1. i \in K /\ j \in K /\ Rank(K, i) = k /\ Rank(K, j) = l
    BY <1>1
  <2> HIDE DEF i, j
  <2>2. i \in Nat /\ j \in Nat /\ k \in Nat /\ l \in Nat
    <3>1. \A x \in 1 .. Cardinality(K) : x \in Nat
      OBVIOUS
    <3>2. \A x \in K : x \in Nat
      OBVIOUS
    <3> QED  BY <2>1, <3>1, <3>2
  <2>3. i # j /\ ~(j < i)
    <3>1. i # j
      BY <1>3, <2>1, <2>2
    <3>2. j < i => Rank(K, j) < Rank(K, i)
      BY <2>1, RankMonotone
    <3> QED  BY <1>3, <2>1, <2>2, <3>1, <3>2
  <2>4. i < j
    BY <2>2, <2>3
  <2> QED  BY <2>4 DEF i, j
<1> QED  BY <1>1, <1>2, <1>3

\* Keep is the subsequence at the positions in K.
LEMMA KeepIsSubsequence ==
  ASSUME NEW S, NEW st \in Seq(S), NEW K \in SUBSET DOMAIN st
  PROVE  /\ Keep(st, K) \in Seq(S)
         /\ Len(Keep(st, K)) = Cardinality(K) /\ Cardinality(K) \in Nat
         /\ \A k \in 1 .. Cardinality(K) : Nth(K, k) \in K /\ Keep(st, K)[k] = st[Nth(K, k)]
<1>1. DOMAIN st = 1 .. Len(st) /\ Len(st) \in Nat
  OBVIOUS
<1>2. Cardinality(K) \in Nat
  BY <1>1, RankBounds
<1>3. ASSUME NEW k \in 1 .. Cardinality(K) PROVE Nth(K, k) \in K /\ st[Nth(K, k)] \in S
  <2>1. Nth(K, k) \in K
    BY <1>1, NthEnumerates
  <2> QED  BY <2>1, <1>1
<1>4. Keep(st, K) \in [1 .. Cardinality(K) -> S]
  BY <1>3 DEF Keep
<1> QED  BY <1>2, <1>3, <1>4 DEF Keep

\* An increasing enumeration of 1 .. n onto the set T has Cardinality(T) members.
LEMMA EnumerationCounts ==
  ASSUME NEW n \in Nat, NEW T, NEW g \in [1 .. n -> T],
         \A i, j \in 1 .. n : g[i] = g[j] => i = j,
         \A x \in T : \E i \in 1 .. n : g[i] = x
  PROVE  Cardinality(T) = n
<1>1. g \in Bijection(1 .. n, T)
  BY Fun_IsBij
<1>2. ExistsBijection(1 .. n, T)
  BY <1>1, Fun_ExistsBij
<1>3. IsFiniteSet(1 .. n) /\ Cardinality(1 .. n) = n
  <2>1. IsFiniteSet(1 .. n) /\ Cardinality(1 .. n) = IF 1 > n THEN 0 ELSE n - 1 + 1
    BY FS_Interval
  <2> QED  BY <2>1
<1> QED  BY <1>2, <1>3, FS_Bijection

\* Whatever enumerates K in increasing order is Nth.
LEMMA OnlyEnumeration ==
  ASSUME NEW m \in Nat, NEW K \in SUBSET (1 .. m), NEW n \in Nat, NEW g \in [1 .. n -> K],
         \A i, j \in 1 .. n : i < j => g[i] < g[j],
         \A x \in K : \E i \in 1 .. n : g[i] = x
  PROVE  /\ Cardinality(K) = n
         /\ \A k \in 1 .. n : Nth(K, k) = g[k]
<1>1. /\ \A i \in 1 .. n : i \in Nat /\ g[i] \in K
      /\ \A x \in K : x \in Nat
  OBVIOUS
<1>2. \A i, j \in 1 .. n : g[i] = g[j] => i = j
  <2> SUFFICES ASSUME NEW i \in 1 .. n, NEW j \in 1 .. n, g[i] = g[j] PROVE i = j
    OBVIOUS
  <2>1. /\ i \in Nat /\ j \in Nat /\ g[i] \in Nat
        /\ i < j => g[i] < g[j]
        /\ j < i => g[j] < g[i]
    BY <1>1
  <2> QED  BY <2>1
<1>3. Cardinality(K) = n
  BY <1>2, EnumerationCounts
<1>4. ASSUME NEW k \in 1 .. n PROVE Nth(K, k) = g[k]
  <2> DEFINE L == {x \in K : x <= g[k]}
             h == [i \in 1 .. k |-> g[i]]
  <2>1. k \in Nat /\ \A i \in 1 .. k : i \in 1 .. n
    BY <1>1
  <2>2. h \in [1 .. k -> L]
    <3>1. ASSUME NEW i \in 1 .. k PROVE g[i] \in L
      <4>1. i < k \/ i = k
        BY <2>1
      <4>2. g[i] \in K /\ g[k] \in Nat /\ g[i] \in Nat
        BY <1>1, <2>1
      <4>3. i < k => g[i] < g[k]
        BY <2>1
      <4> QED  BY <4>1, <4>2, <4>3
    <3> HIDE DEF L
    <3> QED  BY <3>1
  <2>3. \A i, j \in 1 .. k : h[i] = h[j] => i = j
    BY <1>2, <2>1
  <2>4. ASSUME NEW x \in L PROVE \E i \in 1 .. k : h[i] = x
    <3>1. PICK i \in 1 .. n : g[i] = x
      OBVIOUS
    <3>2. ~(k < i)
      <4>1. x <= g[k] /\ x \in Nat /\ g[k] \in Nat
        BY <1>1
      <4> QED  BY <3>1, <4>1
    <3>3. i \in 1 .. k
      BY <1>1, <2>1, <3>2
    <3> QED  BY <3>1, <3>3
  <2>5. Cardinality(L) = k
    <3> HIDE DEF L, h
    <3> QED  BY <2>1, <2>2, <2>3, <2>4, EnumerationCounts
  <2>6. Rank(K, g[k]) = k
    BY <2>5 DEF Rank
  <2> QED  BY <1>1, <2>6, NthEnumerates
<1> QED  BY <1>3, <1>4

\* Keep follows any increasing enumeration of the positions that are kept.
Enumerates(g, n, K) ==
  /\ n \in Nat /\ g \in [1 .. n -> K]
  /\ \E m \in Nat : K \subseteq 1 .. m
  /\ \A i, j \in 1 .. n : i < j => g[i] < g[j]
  /\ \A x \in K : \E i \in 1 .. n : g[i] = x

LEMMA KeepFollows ==
  ASSUME NEW st, NEW K, NEW n, NEW g, Enumerates(g, n, K)
  PROVE  Keep(st, K) = [k \in 1 .. n |-> st[g[k]]]
<1>1. PICK m \in Nat : K \subseteq 1 .. m
  BY DEF Enumerates
<1>2. n \in Nat /\ g \in [1 .. n -> K] /\ K \in SUBSET (1 .. m)
  BY <1>1 DEF Enumerates
<1>3. Cardinality(K) = n /\ \A k \in 1 .. n : Nth(K, k) = g[k]
  BY <1>2, OnlyEnumeration DEF Enumerates
<1> QED  BY <1>3 DEF Keep

(***************************************************************************)
(* What a cancel operation leaves of the stack: f maps the positions of    *)
(* the new stack to those they come from.  The first entry stays first.    *)
(***************************************************************************)
Origin(st, hits) ==
  LET K == DOMAIN st \ (hits \ {1}) IN [j \in 1 .. Cardinality(K) |-> Nth(K, j)]

LEMMA AfterCancelFacts ==
  ASSUME NEW S, NEW st \in Seq(S), NEW hits \in SUBSET DOMAIN st,
         \A e \in S : Marked(e) \in S,
         NEW t, t = AfterCancel(st, hits), NEW f, f = Origin(st, hits)
  PROVE  /\ t \in Seq(S)
         /\ t = << >> <=> st = << >>
         /\ st # << >> => t[1] = IF 1 \in hits THEN Marked(st[1]) ELSE st[1]
         /\ f \in [DOMAIN t -> DOMAIN st]
         /\ st # << >> => f[1] = 1
         /\ \A j \in DOMAIN t : j # 1 => f[j] # 1 /\ f[j] \notin hits /\ t[j] = st[f[j]]
         /\ \A j, k \in DOMAIN t : j < k => f[j] < f[k]
         /\ \A i \in DOMAIN st : i = 1 \/ i \notin hits => \E j \in DOMAIN t : f[j] = i
<1> DEFINE K == DOMAIN st \ (hits \ {1})
           u == [i \in DOMAIN st |-> IF i = 1 /\ 1 \in hits THEN Marked(st[1]) ELSE st[i]]
<1>1. DOMAIN st = 1 .. Len(st) /\ Len(st) \in Nat /\ (st = << >> <=> Len(st) = 0)
  OBVIOUS
<1>2. u \in Seq(S) /\ DOMAIN u = DOMAIN st /\ Len(u) = Len(st)
  <2>1. u \in [1 .. Len(st) -> S]
    BY <1>1
  <2> QED  BY <1>1, <2>1
<1>3. t = Keep(u, K)
  BY DEF AfterCancel
<1>4. K \in SUBSET DOMAIN u /\ K \in SUBSET (1 .. Len(st))
  BY <1>1, <1>2
<1> DEFINE c == Cardinality(K)
<1>5. /\ t \in Seq(S) /\ Len(t) = c /\ c \in Nat
      /\ \A k \in 1 .. c : Nth(K, k) \in K /\ t[k] = u[Nth(K, k)]
  <2> HIDE DEF u, K
  <2> QED  BY <1>2, <1>3, <1>4, KeepIsSubsequence
<1>6. DOMAIN t = 1 .. c /\ (t = << >> <=> c = 0)
  BY <1>5
<1>7. f = [j \in 1 .. c |-> Nth(K, j)]
  BY DEF Origin
<1>8. f \in [DOMAIN t -> DOMAIN st] /\ \A j \in DOMAIN t : f[j] \in K /\ t[j] = u[f[j]]
  BY <1>4, <1>5, <1>6, <1>7
<1>9. \A j, k \in DOMAIN t : j < k => f[j] < f[k]
  <2>1. \A k, l \in 1 .. c : k < l => Nth(K, k) < Nth(K, l)
    <3> HIDE DEF K
    <3> QED  BY <1>1, <1>4, NthEnumerates
  <2> HIDE DEF K, u, c
  <2> QED  BY <1>6, <1>7, <2>1
<1>10. \A i \in K : \E j \in DOMAIN t : f[j] = i
  <2>1. \A i \in K : Rank(K, i) \in 1 .. c /\ Nth(K, Rank(K, i)) = i
    <3> HIDE DEF K
    <3> QED  BY <1>1, <1>4, NthEnumerates
  <2> HIDE DEF K, u
  <2> QED  BY <1>6, <1>7, <2>1
<1>11. ASSUME st # << >> PROVE 1 \in K /\ 1 \in DOMAIN t /\ f[1] = 1
  <2>1. 1 \in DOMAIN st /\ 1 \in K
    BY <1>1, <1>11
  <2>2. PICK j \in DOMAIN t : f[j] = 1
    BY <1>10, <2>1
  <2>3. 1 \in DOMAIN t /\ j \in Nat /\ 1 <= j /\ f[1] \in 1 .. Len(st)
    <3> HIDE DEF K, u, c
    <3>1. j \in 1 .. c
      BY <1>6, <2>2
    <3>2. 1 \in DOMAIN t /\ j \in Nat /\ 1 <= j
      BY <1>5, <1>6, <3>1
    <3> QED  BY <1>1, <1>8, <3>2
  <2>4. ~(1 < j)
    <3> HIDE DEF K, u
    <3> QED  BY <1>9, <2>2, <2>3
  <2>5. j = 1
    BY <2>3, <2>4
  <2> QED  BY <2>1, <2>2, <2>3, <2>5
<1>12. st = << >> => t = << >>
  <2>1. st = << >> => K = {}
    BY <1>1
  <2> QED  BY <1>6, <2>1, FS_EmptySet
<1>13. t = << >> <=> st = << >>
  BY <1>6, <1>11, <1>12
<1>14. ASSUME st # << >> PROVE t[1] = IF 1 \in hits THEN Marked(st[1]) ELSE st[1]
  <2>1. t[1] = u[1] /\ 1 \in DOMAIN st
    BY <1>1, <1>8, <1>11, <1>14
  <2> QED  BY <2>1
<1>15. ASSUME NEW j \in DOMAIN t, j # 1
       PROVE  f[j] # 1 /\ f[j] \notin hits /\ t[j] = st[f[j]]
  <2>1. st # << >>
    BY <1>6, <1>13, <1>15
  <2>2. f[1] = 1 /\ 1 \in DOMAIN t /\ 1 < j
    BY <1>5, <1>6, <1>11, <1>15, <2>1
  <2>3. f[1] < f[j] /\ f[j] \in 1 .. Len(st)
    BY <1>1, <1>8, <1>9, <2>2
  <2>4. f[j] # 1
    BY <2>2, <2>3
  <2> QED  BY <1>8, <2>4
<1>16. \A i \in DOMAIN st : i = 1 \/ i \notin hits => \E j \in DOMAIN t : f[j] = i
  BY <1>10
<1> QED  BY <1>5, <1>8, <1>9, <1>11, <1>13, <1>14, <1>15, <1>16
=============================================================================
