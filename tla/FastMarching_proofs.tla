------------------------ MODULE FastMarching_proofs ------------------------
(***************************************************************************)
(* Proofs about FastMarching, for every mesh and every function: the heap  *)
(* functions keep the order of the heap and lose no entry, the loop takes  *)
(* every dof through the heap once and by increasing distance, and the     *)
(* values it ends with are the closest ones.                               *)
(***************************************************************************)
EXTENDS FastMarching, FiniteSums, FiniteSetTheorems, SequenceTheorems, TLAPS

-----------------------------------------------------------------------------
(* A function defined from its value at a place of lower rank exists       *)

Recursive(D, Stop, Base, Prev, Put, g) ==
  g = [j \in D |-> IF j \in Stop THEN Base[j] ELSE Put[<<j, g[Prev[j]]>>]]

LEMMA RecursionExists ==
  ASSUME NEW D, NEW V, NEW N \in Nat, NEW rank \in [D -> 0 .. N],
         NEW Stop \in SUBSET D, NEW Base \in [D -> V], NEW Prev \in [D -> D],
         NEW Put \in [D \X V -> V],
         \A j \in D \ Stop : rank[Prev[j]] < rank[j]
  PROVE  \E g \in [D -> V] : Recursive(D, Stop, Base, Prev, Put, g)
<1> DEFINE Low(m) == {j \in D : rank[j] < m}
           Is(m, g) == /\ g \in [Low(m) -> V]
                       /\ g = [j \in Low(m) |-> IF j \in Stop THEN Base[j]
                                                ELSE Put[<<j, g[Prev[j]]>>]]
           Bad == {m \in Nat : \A g : ~Is(m, g)}
<1>1. ASSUME Bad # {} PROVE FALSE
  <2>2. PICK m \in Bad : \A k \in Bad : m <= k
    BY <1>1, LeastNatural
  <2>3. CASE m = 0
    <3>1. Low(0) = {}
      OBVIOUS
    <3>2. Is(0, [j \in Low(0) |-> 0])
      BY <3>1
    <3>. QED BY <2>2, <2>3, <3>2
  <2>4. CASE m # 0
    <3>1. m - 1 \in Nat /\ m - 1 \notin Bad
      BY <2>2, <2>4
    <3>2. PICK g : Is(m - 1, g)
      BY <3>1
    <3> DEFINE h == [j \in Low(m) |-> IF j \in Stop THEN Base[j] ELSE Put[<<j, g[Prev[j]]>>]]
    <3>3. \A j \in Low(m) \ Stop : Prev[j] \in Low(m - 1)
      BY <3>1
    <3>4. h \in [Low(m) -> V]
      <4>1. ASSUME NEW j \in Low(m) PROVE h[j] \in V
        <5>1. CASE j \in Stop
          BY <5>1
        <5>2. CASE j \notin Stop
          <6>1. g[Prev[j]] \in V
            BY <3>2, <3>3, <5>2
          <6>. QED BY <5>2, <6>1
        <5>. QED BY <5>1, <5>2
      <4>. QED BY <4>1
    <3>5. \A j \in Low(m - 1) : j \in Low(m) /\ h[j] = g[j]
      <4>1. \A j \in Low(m - 1) : j \in Low(m)
        BY <3>1
      <4>. QED BY <3>2, <4>1
    <3>6. \A j \in Low(m) \ Stop : h[Prev[j]] = g[Prev[j]]
      BY <3>3, <3>5
    <3>7. h = [j \in Low(m) |-> IF j \in Stop THEN Base[j] ELSE Put[<<j, h[Prev[j]]>>]]
      <4> HIDE DEF Low
      <4>. QED BY <3>6
    <3>8. Is(m, h)
      BY <3>4, <3>7
    <3>. QED BY <2>2, <3>8
  <2>. QED BY <2>3, <2>4
<1>2. N + 1 \in Nat /\ N + 1 \notin Bad
  <2> HIDE DEF Bad
  <2>. QED BY <1>1
<1>3. PICK g : Is(N + 1, g)
  BY <1>2
<1>4. Low(N + 1) = D
  OBVIOUS
<1>. QED BY <1>3, <1>4 DEF Recursive

-----------------------------------------------------------------------------
(* The order of two entries                                                *)

Entry == Int \X Nat

LEMMA FartherOrder ==
  ASSUME NEW a \in Entry, NEW b \in Entry, NEW c \in Entry
  PROVE  /\ ~Farther(a, a)
         /\ ~Farther(a, b) \/ ~Farther(b, a)
         /\ ~Farther(a, b) /\ ~Farther(b, c) => ~Farther(a, c)
         /\ Abs(a[1]) \in Nat
         /\ ~Farther(a, b) <=> Abs(a[1]) <= Abs(b[1])
BY DEF Farther, Abs, Entry

(* The entries of g are those of h, at other places; those in fixed stay   *)
Rearranged(g, h, n, fixed) ==
  \E pi \in [1 .. n -> 1 .. n] :
     /\ \A k, l \in 1 .. n : pi[k] = pi[l] => k = l
     /\ \A k \in 1 .. n : g[k] = h[pi[k]]
     /\ \A k \in fixed : pi[k] = k

(* An entry moves from the place a to j, and the hole with it              *)
LEMMA HoleMoves ==
  ASSUME NEW n \in Nat, NEW h \in [1 .. n -> Entry], NEW x \in Entry,
         NEW a \in 1 .. n, NEW j \in 1 .. n, a # j,
         NEW fixed \in SUBSET (1 .. n), j \in fixed, NEW g \in [1 .. n -> Entry],
         Rearranged(g, [h EXCEPT ![a] = x], n, fixed)
  PROVE  Rearranged([g EXCEPT ![j] = h[a]], [h EXCEPT ![j] = x], n, fixed \ {a, j})
<1> DEFINE A == [h EXCEPT ![a] = x]
           B == [h EXCEPT ![j] = x]
           g2 == [g EXCEPT ![j] = h[a]]
<1>1. PICK pi \in [1 .. n -> 1 .. n] :
        /\ \A k, l \in 1 .. n : pi[k] = pi[l] => k = l
        /\ \A k \in 1 .. n : g[k] = A[pi[k]]
        /\ \A k \in fixed : pi[k] = k
  BY DEF Rearranged
<1> DEFINE rho == [k \in 1 .. n |-> IF k = j THEN a ELSE IF pi[k] = a THEN j ELSE pi[k]]
<1>2. rho \in [1 .. n -> 1 .. n]
  OBVIOUS
<1>3. pi[j] = j /\ \A k \in 1 .. n : k # j => pi[k] # j
  BY <1>1
<1>4. ASSUME NEW k \in 1 .. n, NEW l \in 1 .. n, rho[k] = rho[l] PROVE k = l
  BY <1>1, <1>3, <1>4
<1>5. ASSUME NEW k \in 1 .. n PROVE g2[k] = B[rho[k]]
  <2>1. CASE k = j
    BY <2>1
  <2>2. CASE k # j /\ pi[k] = a
    BY <1>1, <2>2
  <2>3. CASE k # j /\ pi[k] # a
    BY <1>1, <1>3, <2>3
  <2>. QED BY <2>1, <2>2, <2>3
<1>6. ASSUME NEW k \in fixed \ {a, j} PROVE rho[k] = k
  BY <1>1
<1> HIDE DEF rho, g2, B
<1>7. Rearranged(g2, B, n, fixed \ {a, j})
  BY <1>2, <1>4, <1>5, <1>6 DEF Rearranged
<1>. QED BY <1>7 DEF g2, B

LEMMA NotMoved ==
  ASSUME NEW n \in Nat, NEW h, NEW fixed \in SUBSET (1 .. n)
  PROVE  Rearranged(h, h, n, fixed)
<1> DEFINE pi == [k \in 1 .. n |-> k]
<1>1. pi \in [1 .. n -> 1 .. n] /\ \A k \in 1 .. n : pi[k] = k
  OBVIOUS
<1> HIDE DEF pi
<1>. QED BY <1>1 DEF Rearranged

LEMMA MovedTwice ==
  ASSUME NEW n \in Nat, NEW f, NEW g, NEW h, Rearranged(f, g, n, {}), Rearranged(g, h, n, {})
  PROVE  Rearranged(f, h, n, {})
<1>1. PICK pi \in [1 .. n -> 1 .. n] : /\ \A k, l \in 1 .. n : pi[k] = pi[l] => k = l
                                       /\ \A k \in 1 .. n : f[k] = g[pi[k]]
  BY DEF Rearranged
<1>2. PICK rho \in [1 .. n -> 1 .. n] : /\ \A k, l \in 1 .. n : rho[k] = rho[l] => k = l
                                        /\ \A k \in 1 .. n : g[k] = h[rho[k]]
  BY DEF Rearranged
<1> DEFINE sigma == [k \in 1 .. n |-> rho[pi[k]]]
<1>3. sigma \in [1 .. n -> 1 .. n]
  OBVIOUS
<1>4. \A k, l \in 1 .. n : sigma[k] = sigma[l] => k = l
  BY <1>1, <1>2
<1>5. \A k \in 1 .. n : f[k] = h[sigma[k]]
  BY <1>1, <1>2
<1> HIDE DEF sigma
<1>. QED BY <1>3, <1>4, <1>5 DEF Rearranged

LEMMA FewerFixed ==
  ASSUME NEW n, NEW g, NEW h, NEW S, Rearranged(g, h, n, S), NEW T \in SUBSET S
  PROVE  Rearranged(g, h, n, T)
BY DEF Rearranged

-----------------------------------------------------------------------------
(* Induction up to a number and down to one                                *)

LEMMA UpTo ==
  ASSUME NEW i \in Int, NEW Good,
         \A j \in 1 .. i : (\A k \in 1 .. j - 1 : k \in Good) => j \in Good
  PROVE  \A j \in 1 .. i : j \in Good
<1> DEFINE Bad == {j \in Nat : j \in 1 .. i /\ j \notin Good}
<1>1. ASSUME Bad # {} PROVE FALSE
  <2>1. PICK j \in Bad : \A k \in Bad : j <= k
    BY <1>1, LeastNatural
  <2>2. \A k \in 1 .. j - 1 : k \in Good
    BY <2>1
  <2>. QED BY <2>1, <2>2
<1>. QED BY <1>1

LEMMA DownTo ==
  ASSUME NEW i \in Nat, NEW n \in Nat, NEW Good,
         \A j \in i .. n : (\A k \in j + 1 .. n : k \in Good) => j \in Good
  PROVE  \A j \in i .. n : j \in Good
<1> DEFINE Bad == {m \in Nat : m <= n /\ n - m \in i .. n /\ n - m \notin Good}
<1>1. ASSUME Bad # {} PROVE FALSE
  <2>1. PICK m \in Bad : \A k \in Bad : m <= k
    BY <1>1, LeastNatural
  <2>2. ASSUME NEW k \in n - m + 1 .. n PROVE k \in Good
    <3>1. n - k \in Nat /\ n - k < m /\ n - (n - k) = k /\ k \in i .. n
      BY <2>1
    <3>. QED BY <2>1, <3>1
  <2>. QED BY <2>1, <2>2
<1>2. ASSUME NEW j \in i .. n PROVE j \in Good
  <2>1. n - j \in Nat /\ n - (n - j) = j /\ n - j <= n
    OBVIOUS
  <2>. QED BY <1>1, <2>1
<1>. QED BY <1>2

-----------------------------------------------------------------------------
(* An entry x moves from place to place: g[j] is the heap when it has come *)
(* to j or to a place after j on its way, where next says                  *)

Sifts(h, x, D, stop, next, g) ==
  g = [j \in D |-> IF j \in stop THEN [h EXCEPT ![j] = x]
                   ELSE [g[next[j]] EXCEPT ![j] = h[next[j]]]]

(* The way ends at stop, and every step lowers the rank                    *)
Way(n, D, stop, next, rank) ==
  /\ D \in SUBSET (1 .. n)
  /\ stop \in SUBSET D
  /\ next \in [D -> D]
  /\ rank \in [1 .. n -> 0 .. n]
  /\ \A j \in D \ stop : rank[next[j]] < rank[j]

LEMMA SiftsExists ==
  ASSUME NEW n \in Nat, NEW h \in [1 .. n -> Entry], NEW x \in Entry,
         NEW D, NEW stop, NEW next, NEW rank, Way(n, D, stop, next, rank)
  PROVE  \E g : Sifts(h, x, D, stop, next, g)
<1> DEFINE V == [1 .. n -> Entry]
           base == [j \in D |-> [h EXCEPT ![j] = x]]
           put == [jw \in D \X V |-> [jw[2] EXCEPT ![jw[1]] = h[next[jw[1]]]]]
           low == [j \in D |-> rank[j]]
<1> USE DEF Way
<1>1. base \in [D -> V] /\ low \in [D -> 0 .. n]
  OBVIOUS
<1>2. put \in [D \X V -> V]
  OBVIOUS
<1>3. \A j \in D \ stop : low[next[j]] < low[j]
  OBVIOUS
<1>4. PICK g \in [D -> V] : Recursive(D, stop, base, next, put, g)
  <2> HIDE DEF V, base, put, low
  <2>. QED BY <1>1, <1>2, <1>3, RecursionExists
<1>5. ASSUME NEW j \in D
      PROVE  (IF j \in stop THEN base[j] ELSE put[<<j, g[next[j]]>>])
               = IF j \in stop THEN [h EXCEPT ![j] = x]
                 ELSE [g[next[j]] EXCEPT ![j] = h[next[j]]]
  OBVIOUS
<1>6. Sifts(h, x, D, stop, next, g)
  <2> HIDE DEF V, base, put
  <2>. QED BY <1>4, <1>5 DEF Sifts, Recursive
<1>. QED BY <1>6

(* The places that are not on the way from j on                            *)
Above(rank, n, j) == {k \in 1 .. n : rank[k] > rank[j]}

With(h, j, x) == [h EXCEPT ![j] = x]

(* It and the entries it passes change places, and the others stay         *)
LEMMA SiftsRearrange ==
  ASSUME NEW n \in Nat, NEW h \in [1 .. n -> Entry], NEW x \in Entry,
         NEW D, NEW stop, NEW next, NEW rank, Way(n, D, stop, next, rank),
         NEW g, Sifts(h, x, D, stop, next, g)
  PROVE  \A j \in D :
           /\ g[j] \in [1 .. n -> Entry]
           /\ Rearranged(g[j], With(h, j, x), n, Above(rank, n, j))
           /\ \A k \in Above(rank, n, j) : g[j][k] = h[k]
<1> USE DEF Above, With, Way
<1> DEFINE P(j) == /\ g[j] \in [1 .. n -> Entry]
                   /\ Rearranged(g[j], [h EXCEPT ![j] = x], n, Above(rank, n, j))
                   /\ \A k \in Above(rank, n, j) : g[j][k] = h[k]
           Good == {m \in 1 .. n + 1 : \A j \in D : rank[j] = m - 1 => P(j)}
<1>1. ASSUME NEW j \in D, \A k \in D : rank[k] < rank[j] => P(k) PROVE P(j)
  <2>1. CASE j \in stop
    <3>1. g[j] = [h EXCEPT ![j] = x]
      BY <2>1 DEF Sifts
    <3>2. Above(rank, n, j) \in SUBSET (1 .. n) /\ j \notin Above(rank, n, j)
      OBVIOUS
    <3>3. Rearranged(g[j], g[j], n, Above(rank, n, j))
      BY <3>2, NotMoved
    <3>4. \A k \in Above(rank, n, j) : g[j][k] = h[k]
      BY <3>1, <3>2
    <3>. QED BY <3>1, <3>3, <3>4
  <2>2. CASE j \notin stop
    <3>1. PICK a \in D : a = next[j] /\ rank[a] < rank[j]
      BY <2>2
    <3>2. g[j] = [g[a] EXCEPT ![j] = h[a]]
      BY <2>2, <3>1 DEF Sifts
    <3>3. P(a)
      BY <1>1, <3>1
    <3>4. /\ j \in Above(rank, n, a) /\ a # j /\ a \in 1 .. n /\ j \in 1 .. n
          /\ Above(rank, n, a) \in SUBSET (1 .. n)
          /\ Above(rank, n, j) \in SUBSET (Above(rank, n, a) \ {a, j})
      BY <3>1
    <3>5. g[j] \in [1 .. n -> Entry]
      BY <3>2, <3>3, <3>4
    <3>6. Rearranged(g[a], [h EXCEPT ![a] = x], n, Above(rank, n, a)) /\ g[a] \in [1 .. n -> Entry]
      BY <3>3
    <3> HIDE DEF Above
    <3>7. Rearranged([g[a] EXCEPT ![j] = h[a]], [h EXCEPT ![j] = x], n, Above(rank, n, a) \ {a, j})
      BY <3>4, <3>6, HoleMoves
    <3>8. Rearranged(g[j], [h EXCEPT ![j] = x], n, Above(rank, n, j))
      BY <3>2, <3>4, <3>7, FewerFixed
    <3>9. \A k \in Above(rank, n, j) : g[j][k] = h[k]
      BY <3>2, <3>3, <3>4
    <3>. QED BY <3>5, <3>8, <3>9
  <2>. QED BY <2>1, <2>2
<1>2. \A m \in 1 .. n + 1 : m \in Good
  <2>1. ASSUME NEW m \in 1 .. n + 1, \A k \in 1 .. m - 1 : k \in Good PROVE m \in Good
    <3>1. ASSUME NEW j \in D, rank[j] = m - 1, NEW k \in D, rank[k] < rank[j] PROVE P(k)
      <4>1. rank[k] + 1 \in 1 .. m - 1 /\ rank[k] = (rank[k] + 1) - 1
        BY <3>1
      <4> HIDE DEF P
      <4>. QED BY <2>1, <4>1
    <3>. HIDE DEF P
    <3>. QED BY <1>1, <3>1
  <2>2. n + 1 \in Int
    OBVIOUS
  <2>. HIDE DEF Good
  <2>. QED BY <2>1, <2>2, UpTo
<1>3. ASSUME NEW j \in D PROVE P(j)
  <2>1. rank[j] + 1 \in 1 .. n + 1 /\ rank[j] = (rank[j] + 1) - 1
    OBVIOUS
  <2>. HIDE DEF P
  <2>. QED BY <1>2, <2>1
<1>. QED BY <1>3

-----------------------------------------------------------------------------
(* An entry moves up                                                       *)

UpStop(h, i) == {j \in 1 .. i : ~(j > 1 /\ Farther(h[j \div 2], h[i]))}

UpNext(i) == [j \in 1 .. i |-> IF j > 1 THEN j \div 2 ELSE j]

UpRank(n) == [j \in 1 .. n |-> j]

LEMMA UpSteps ==
  ASSUME NEW n \in Nat, NEW h \in [1 .. n -> Entry], NEW i \in 1 .. n
  PROVE  Way(n, 1 .. i, UpStop(h, i), UpNext(i), UpRank(n))
<1>1. \A j \in 1 .. i : j > 1 => j \div 2 \in 1 .. i /\ j \div 2 < j
  OBVIOUS
<1>. QED BY <1>1 DEF UpStop, UpNext, UpRank, Way

LEMMA SiftUpSifts ==
  ASSUME NEW n \in Nat, NEW h \in [1 .. n -> Entry], NEW i \in 1 .. n
  PROVE  \E g : /\ Sifts(h, h[i], 1 .. i, UpStop(h, i), UpNext(i), g)
                /\ SiftUp(h, i) = g[i]
<1> DEFINE step(g, j) == IF j > 1 /\ Farther(h[j \div 2], h[i])
                         THEN [g[j \div 2] EXCEPT ![j] = h[j \div 2]]
                         ELSE [h EXCEPT ![j] = h[i]]
           up == CHOOSE g : g = [j \in 1 .. i |-> step(g, j)]
<1>1. ASSUME NEW g
      PROVE  g = [j \in 1 .. i |-> step(g, j)]
               <=> Sifts(h, h[i], 1 .. i, UpStop(h, i), UpNext(i), g)
  <2>1. ASSUME NEW j \in 1 .. i
        PROVE  step(g, j) = IF j \in UpStop(h, i) THEN [h EXCEPT ![j] = h[i]]
                            ELSE [g[UpNext(i)[j]] EXCEPT ![j] = h[UpNext(i)[j]]]
    BY DEF UpStop, UpNext
  <2> HIDE DEF step
  <2>. QED BY <2>1 DEF Sifts
<1>2. \E g : Sifts(h, h[i], 1 .. i, UpStop(h, i), UpNext(i), g)
  <2>1. h[i] \in Entry
    OBVIOUS
  <2>. QED BY <2>1, UpSteps, SiftsExists
<1>3. up = [j \in 1 .. i |-> step(up, j)]
  <2> HIDE DEF step
  <2>. QED BY <1>1, <1>2
<1>4. SiftUp(h, i) = up[i]
  BY DEF SiftUp
<1>. QED
  <2> HIDE DEF up, step
  <2>. QED BY <1>1, <1>3, <1>4

(* Every entry but the last comes after its parent                         *)
OrderedBelow(h, first, last) ==
  \A k \in 2 .. last : k \div 2 >= first => ~Farther(h[k \div 2], h[k])

LEMMA SiftUpRearranges ==
  ASSUME NEW n \in Nat, NEW h \in [1 .. n -> Entry], NEW i \in 1 .. n
  PROVE  \E g : /\ Sifts(h, h[i], 1 .. i, UpStop(h, i), UpNext(i), g)
                /\ SiftUp(h, i) = g[i]
                /\ \A j \in 1 .. i : /\ g[j] \in [1 .. n -> Entry]
                                     /\ \A k \in 1 .. n : k > j => g[j][k] = h[k]
                /\ Rearranged(g[i], h, n, {})
<1>1. PICK g : /\ Sifts(h, h[i], 1 .. i, UpStop(h, i), UpNext(i), g)
               /\ SiftUp(h, i) = g[i]
  BY SiftUpSifts
<1>2. h[i] \in Entry /\ i \in 1 .. i
  OBVIOUS
<1>3. \A j \in 1 .. i :
        /\ g[j] \in [1 .. n -> Entry]
        /\ Rearranged(g[j], With(h, j, h[i]), n, Above(UpRank(n), n, j))
        /\ \A k \in Above(UpRank(n), n, j) : g[j][k] = h[k]
  <2>1. Way(n, 1 .. i, UpStop(h, i), UpNext(i), UpRank(n))
    BY UpSteps
  <2>. QED BY <1>1, <1>2, <2>1, SiftsRearrange
<1>4. \A j \in 1 .. i : \A k \in 1 .. n : k > j => k \in Above(UpRank(n), n, j)
  BY DEF Above, UpRank
<1>5. [h EXCEPT ![i] = h[i]] = h
  OBVIOUS
<1>6. Rearranged(g[i], h, n, {})
  <2>1. Rearranged(g[i], h, n, Above(UpRank(n), n, i))
    BY <1>2, <1>3, <1>5 DEF With
  <2>. QED BY <2>1, FewerFixed
<1>. QED BY <1>1, <1>3, <1>4, <1>6

(* A new entry at the end comes up to its place                            *)
LEMMA SiftUpOrders ==
  ASSUME NEW n \in Nat \ {0}, NEW h \in [1 .. n -> Entry], OrderedBelow(h, 1, n - 1)
  PROVE  OrderedBelow(SiftUp(h, n), 1, n)
<1>1. h[n] \in Entry /\ n \in 1 .. n /\ \A k \in 1 .. n : h[k] \in Entry
  OBVIOUS
<1>2. PICK g : /\ Sifts(h, h[n], 1 .. n, UpStop(h, n), UpNext(n), g)
               /\ SiftUp(h, n) = g[n]
               /\ \A j \in 1 .. n : /\ g[j] \in [1 .. n -> Entry]
                                    /\ \A k \in 1 .. n : k > j => g[j][k] = h[k]
  BY <1>1, SiftUpRearranges
<1>4. \A j \in 1 .. n : /\ g[j] \in [1 .. n -> Entry]
                        /\ \A k \in 1 .. n : k > j => g[j][k] = h[k]
  BY <1>2
<1> DEFINE P(j) == j = n \/ Farther(h[j], h[n]) =>
                     /\ \A k \in 2 .. j : ~Farther(g[j][k \div 2], g[j][k])
                     /\ \A k \in 1 .. j : k < n => ~Farther(g[j][k], h[k])
<1>5. ASSUME NEW j \in 1 .. n, \A k \in 1 .. j - 1 : P(k) PROVE P(j)
  <2>1. SUFFICES ASSUME j = n \/ Farther(h[j], h[n])
                 PROVE  /\ \A k \in 2 .. j : ~Farther(g[j][k \div 2], g[j][k])
                        /\ \A k \in 1 .. j : k < n => ~Farther(g[j][k], h[k])
    OBVIOUS
  <2>2. \A k \in 2 .. n : k \div 2 \in 1 .. k - 1 /\ k \div 2 < n /\ k \div 2 \in 1 .. n
    OBVIOUS
  <2>3. CASE j \in UpStop(h, n)
    <3>1. g[j] = [h EXCEPT ![j] = h[n]]
      BY <1>2, <2>3 DEF Sifts
    <3>2. ASSUME NEW k \in 2 .. j PROVE ~Farther(g[j][k \div 2], g[j][k])
      <4>1. CASE k = j
        <5>1. g[j][k \div 2] = h[k \div 2] /\ g[j][k] = h[n]
          BY <2>2, <3>1, <4>1
        <5>. QED BY <2>3, <4>1, <5>1 DEF UpStop
      <4>2. CASE k # j
        <5>1. g[j][k \div 2] = h[k \div 2] /\ g[j][k] = h[k] /\ k \in 2 .. n - 1 /\ k \div 2 >= 1
          BY <2>2, <3>1, <4>2
        <5>. QED BY <5>1 DEF OrderedBelow
      <4>. QED BY <4>1, <4>2
    <3>3. ASSUME NEW k \in 1 .. j, k < n PROVE ~Farther(g[j][k], h[k])
      <4>1. CASE k = j
        BY <1>1, <2>1, <3>1, <3>3, <4>1, FartherOrder
      <4>2. CASE k # j
        BY <1>1, <3>1, <3>3, <4>2, FartherOrder
      <4>. QED BY <4>1, <4>2
    <3>. QED BY <3>2, <3>3
  <2>4. CASE j \notin UpStop(h, n)
    <3>1. PICK a \in 1 .. n : a = j \div 2 /\ a < j
      BY <2>2, <2>4 DEF UpStop
    <3>2. j > 1 /\ Farther(h[a], h[n]) /\ UpNext(n)[j] = a
      BY <2>4, <3>1 DEF UpStop, UpNext
    <3>3. g[j] = [g[a] EXCEPT ![j] = h[a]]
      BY <1>2, <2>4, <3>2 DEF Sifts
    <3>4. P(a)
      BY <1>5, <3>1
    <3>5. /\ \A k \in 2 .. a : ~Farther(g[a][k \div 2], g[a][k])
          /\ \A k \in 1 .. a : k < n => ~Farther(g[a][k], h[k])
      BY <3>2, <3>4
    <3>6. \A k \in 2 .. n - 1 : ~Farther(h[k \div 2], h[k])
      BY <2>2 DEF OrderedBelow
    <3>7. ASSUME NEW k \in 1 .. j, k < n PROVE ~Farther(g[j][k], h[k])
      <4>1. CASE k = j
        <5>1. g[j][k] = h[a] /\ k \in 2 .. n - 1 /\ k \div 2 = a
          BY <1>4, <3>1, <3>2, <3>3, <3>7, <4>1
        <5>. QED BY <3>6, <5>1
      <4>2. CASE k # j /\ k <= a
        BY <1>4, <3>3, <3>5, <3>7, <4>2
      <4>3. CASE k # j /\ k > a
        <5>1. g[j][k] = h[k]
          BY <1>4, <3>3, <4>3
        <5>. QED BY <1>1, <5>1, FartherOrder
      <4>. QED BY <4>1, <4>2, <4>3
    <3>8. ASSUME NEW k \in 2 .. j PROVE ~Farther(g[j][k \div 2], g[j][k])
      <4>1. CASE k = j
        <5>1. g[j][k] = h[a] /\ g[j][k \div 2] = g[a][a]
          BY <1>4, <3>1, <3>3, <4>1
        <5>. QED BY <3>1, <3>5, <5>1
      <4>2. CASE k # j /\ k <= a
        <5>1. g[j][k] = g[a][k] /\ g[j][k \div 2] = g[a][k \div 2]
          BY <1>4, <2>2, <3>1, <3>3, <4>2
        <5>. QED BY <3>5, <4>2, <5>1
      <4>3. CASE k # j /\ k > a
        <5>1. k \div 2 \in 1 .. a /\ k \div 2 < n /\ k \in 2 .. n - 1
          BY <2>2, <3>1, <4>3
        <5>2. g[j][k] = h[k] /\ g[j][k \div 2] = g[a][k \div 2]
          BY <1>4, <3>1, <3>3, <4>3, <5>1
        <5>3. ~Farther(g[a][k \div 2], h[k \div 2]) /\ ~Farther(h[k \div 2], h[k])
          BY <3>5, <3>6, <5>1
        <5>4. g[a][k \div 2] \in Entry /\ h[k \div 2] \in Entry /\ h[k] \in Entry
          BY <1>1, <1>4, <5>1
        <5>. QED BY <5>2, <5>3, <5>4, FartherOrder
      <4>. QED BY <4>1, <4>2, <4>3
    <3>. QED BY <3>7, <3>8
  <2>. QED BY <2>3, <2>4
<1>6. P(n)
  <2> DEFINE Good == {j \in 1 .. n : P(j)}
  <2>1. ASSUME NEW j \in 1 .. n, \A k \in 1 .. j - 1 : k \in Good PROVE j \in Good
    <3> HIDE DEF P
    <3>. QED BY <1>5, <2>1
  <2>2. n \in Int
    OBVIOUS
  <2>3. n \in Good
    <3> HIDE DEF Good
    <3>. QED BY <1>1, <2>1, <2>2, UpTo
  <2> HIDE DEF P
  <2>. QED BY <2>3
<1>7. OrderedBelow(g[n], 1, n)
  BY <1>6 DEF OrderedBelow
<1>. QED BY <1>2, <1>7

-----------------------------------------------------------------------------
(* An entry moves down                                                     *)

LEMMA HeapOfLength ==
  ASSUME NEW n \in Nat, NEW h \in [1 .. n -> Entry]
  PROVE  h \in Seq(Entry) /\ Len(h) = n /\ DOMAIN h = 1 .. n
<1>1. h \in Seq(Entry)
  OBVIOUS
<1>. QED BY <1>1

(* The closest of the children                                             *)
LEMMA ClosestIsChild ==
  ASSUME NEW n \in Nat, NEW h \in [1 .. n -> Entry], NEW j \in 1 .. n, Children(h, j) # {}
  PROVE  /\ ClosestChild(h, j) \in Children(h, j)
         /\ Children(h, j) \subseteq j + 1 .. n
         /\ \A c \in Children(h, j) : c \div 2 = j /\ ~Farther(h[ClosestChild(h, j)], h[c])
<1>1. Children(h, j) = {2 * j, 2 * j + 1} \intersect (1 .. n)
  BY HeapOfLength DEF Children
<1>2. \A c \in Children(h, j) : c \in j + 1 .. n /\ c \div 2 = j /\ h[c] \in Entry
  BY <1>1
<1>3. \E c \in Children(h, j) : \A e \in Children(h, j) : ~Farther(h[c], h[e])
  <2>1. PICK c \in Children(h, j) : TRUE
    OBVIOUS
  <2>2. CASE \A e \in Children(h, j) : ~Farther(h[c], h[e])
    BY <2>2
  <2>3. CASE \E e \in Children(h, j) : Farther(h[c], h[e])
    <3>1. PICK e \in Children(h, j) : Farther(h[c], h[e])
      BY <2>3
    <3>2. ~Farther(h[e], h[c]) /\ ~Farther(h[e], h[e]) /\ ~Farther(h[c], h[c])
      BY <1>2, <3>1, FartherOrder
    <3>3. \A f \in Children(h, j) : f = c \/ f = e
      BY <1>1, <3>1, <3>2
    <3>. QED BY <3>2, <3>3
  <2>. QED BY <2>2, <2>3
<1>4. /\ ClosestChild(h, j) \in Children(h, j)
      /\ \A e \in Children(h, j) : ~Farther(h[ClosestChild(h, j)], h[e])
  <2> DEFINE P(c) == c \in Children(h, j) /\ \A e \in Children(h, j) : ~Farther(h[c], h[e])
  <2>1. ClosestChild(h, j) = CHOOSE c \in Children(h, j) : \A e \in Children(h, j) : ~Farther(h[c], h[e])
    BY DEF ClosestChild
  <2>. QED BY <1>3, <2>1
<1>. QED BY <1>2, <1>4

DownStop(h, n, i) ==
  {j \in i .. n : ~(Children(h, j) # {} /\ Farther(h[i], h[ClosestChild(h, j)]))}

DownNext(h, n, i) ==
  [j \in i .. n |-> IF Children(h, j) # {} THEN ClosestChild(h, j) ELSE j]

DownRank(n) == [j \in 1 .. n |-> n - j]

LEMMA DownSteps ==
  ASSUME NEW n \in Nat, NEW h \in [1 .. n -> Entry], NEW i \in 1 .. n
  PROVE  Way(n, i .. n, DownStop(h, n, i), DownNext(h, n, i), DownRank(n))
<1>1. ASSUME NEW j \in i .. n, Children(h, j) # {}
      PROVE  ClosestChild(h, j) \in i .. n /\ ClosestChild(h, j) > j
  <2>1. j \in 1 .. n
    OBVIOUS
  <2>2. ClosestChild(h, j) \in j + 1 .. n
    BY <1>1, <2>1, ClosestIsChild
  <2>. QED BY <2>2
<1>2. i .. n \in SUBSET (1 .. n) /\ DownStop(h, n, i) \in SUBSET (i .. n)
  BY DEF DownStop
<1>3. DownNext(h, n, i) \in [i .. n -> i .. n]
  BY <1>1 DEF DownNext
<1>4. DownRank(n) \in [1 .. n -> 0 .. n]
  BY DEF DownRank
<1>5. ASSUME NEW j \in (i .. n) \ DownStop(h, n, i)
      PROVE  DownRank(n)[DownNext(h, n, i)[j]] < DownRank(n)[j]
  <2>1. Children(h, j) # {} /\ j \in i .. n /\ DownNext(h, n, i)[j] = ClosestChild(h, j)
    BY DEF DownStop, DownNext
  <2>2. ClosestChild(h, j) \in 1 .. n /\ ClosestChild(h, j) > j /\ j \in 1 .. n
    BY <1>1, <2>1
  <2>. QED BY <2>1, <2>2 DEF DownRank
<1>. QED BY <1>2, <1>3, <1>4, <1>5 DEF Way

LEMMA SiftDownSifts ==
  ASSUME NEW n \in Nat, NEW h \in [1 .. n -> Entry], NEW i \in 1 .. n
  PROVE  \E g : /\ Sifts(h, h[i], i .. n, DownStop(h, n, i), DownNext(h, n, i), g)
                /\ SiftDown(h, i) = g[i]
<1> DEFINE step(g, j) == IF Children(h, j) # {} /\ Farther(h[i], h[ClosestChild(h, j)])
                         THEN [g[ClosestChild(h, j)] EXCEPT ![j] = h[ClosestChild(h, j)]]
                         ELSE [h EXCEPT ![j] = h[i]]
           down == CHOOSE g : g = [j \in i .. n |-> step(g, j)]
<1>1. ASSUME NEW g
      PROVE  g = [j \in i .. n |-> step(g, j)]
               <=> Sifts(h, h[i], i .. n, DownStop(h, n, i), DownNext(h, n, i), g)
  <2>1. ASSUME NEW j \in i .. n
        PROVE  step(g, j) = IF j \in DownStop(h, n, i) THEN [h EXCEPT ![j] = h[i]]
                            ELSE [g[DownNext(h, n, i)[j]] EXCEPT ![j] = h[DownNext(h, n, i)[j]]]
    BY DEF DownStop, DownNext
  <2> HIDE DEF step
  <2>. QED BY <2>1 DEF Sifts
<1>2. \E g : Sifts(h, h[i], i .. n, DownStop(h, n, i), DownNext(h, n, i), g)
  <2>1. h[i] \in Entry
    OBVIOUS
  <2>. QED BY <2>1, DownSteps, SiftsExists
<1>3. down = [j \in i .. n |-> step(down, j)]
  <2> HIDE DEF step
  <2>. QED BY <1>1, <1>2
<1>4. SiftDown(h, i) = down[i]
  <2>1. Len(h) = n
    BY HeapOfLength
  <2>. QED BY <2>1 DEF SiftDown
<1>. QED
  <2> HIDE DEF down, step
  <2>. QED BY <1>1, <1>3, <1>4

LEMMA SiftDownRearranges ==
  ASSUME NEW n \in Nat, NEW h \in [1 .. n -> Entry], NEW i \in 1 .. n
  PROVE  \E g : /\ Sifts(h, h[i], i .. n, DownStop(h, n, i), DownNext(h, n, i), g)
                /\ SiftDown(h, i) = g[i]
                /\ \A j \in i .. n : /\ g[j] \in [1 .. n -> Entry]
                                     /\ \A k \in 1 .. n : k < j => g[j][k] = h[k]
                /\ Rearranged(g[i], h, n, {})
<1>1. PICK g : /\ Sifts(h, h[i], i .. n, DownStop(h, n, i), DownNext(h, n, i), g)
               /\ SiftDown(h, i) = g[i]
  BY SiftDownSifts
<1>2. h[i] \in Entry /\ i \in i .. n
  OBVIOUS
<1>3. \A j \in i .. n :
        /\ g[j] \in [1 .. n -> Entry]
        /\ Rearranged(g[j], With(h, j, h[i]), n, Above(DownRank(n), n, j))
        /\ \A k \in Above(DownRank(n), n, j) : g[j][k] = h[k]
  <2>1. Way(n, i .. n, DownStop(h, n, i), DownNext(h, n, i), DownRank(n))
    BY <1>2, DownSteps
  <2>. QED BY <1>1, <1>2, <2>1, SiftsRearrange
<1>4. \A j \in i .. n : \A k \in 1 .. n : k < j => k \in Above(DownRank(n), n, j)
  BY DEF Above, DownRank
<1>5. [h EXCEPT ![i] = h[i]] = h
  OBVIOUS
<1>6. Rearranged(g[i], h, n, {})
  <2>1. Rearranged(g[i], h, n, Above(DownRank(n), n, i))
    BY <1>2, <1>3, <1>5 DEF With
  <2>. QED BY <2>1, FewerFixed
<1>. QED BY <1>1, <1>3, <1>4, <1>6

(* An entry goes down to its place when all below it are in order          *)
LEMMA SiftDownOrders ==
  ASSUME NEW n \in Nat, NEW h \in [1 .. n -> Entry], NEW i \in 1 .. n,
         OrderedBelow(h, i + 1, n)
  PROVE  OrderedBelow(SiftDown(h, i), i, n)
<1>1. h[i] \in Entry /\ \A k \in 1 .. n : h[k] \in Entry
  OBVIOUS
<1>2. PICK g : /\ Sifts(h, h[i], i .. n, DownStop(h, n, i), DownNext(h, n, i), g)
               /\ SiftDown(h, i) = g[i]
               /\ \A j \in i .. n : /\ g[j] \in [1 .. n -> Entry]
                                    /\ \A k \in 1 .. n : k < j => g[j][k] = h[k]
               /\ Rearranged(g[i], h, n, {})
  <2>1. n \in Nat /\ i \in 1 .. n /\ h \in [1 .. n -> Entry]
    OBVIOUS
  <2>. QED BY <2>1, SiftDownRearranges
<1>4. \A j \in i .. n : /\ g[j] \in [1 .. n -> Entry]
                        /\ \A k \in 1 .. n : k < j => g[j][k] = h[k]
  BY <1>2
<1>5. \A k \in 2 .. n : /\ k \div 2 \in 1 .. k - 1 /\ k \div 2 \in 1 .. n
                        /\ k \div 2 > i => ~Farther(h[k \div 2], h[k])
  BY DEF OrderedBelow
<1> DEFINE P(j) == j = i \/ Farther(h[i], h[j]) =>
                     /\ \A k \in 2 .. n : k \div 2 >= j => ~Farther(g[j][k \div 2], g[j][k])
                     /\ \A k \in j .. n : k # i => ~Farther(h[k], g[j][k])
<1>6. ASSUME NEW j \in i .. n, \A k \in j + 1 .. n : P(k) PROVE P(j)
  <2>1. SUFFICES ASSUME j = i \/ Farther(h[i], h[j])
                 PROVE  /\ \A k \in 2 .. n : k \div 2 >= j => ~Farther(g[j][k \div 2], g[j][k])
                        /\ \A k \in j .. n : k # i => ~Farther(h[k], g[j][k])
    OBVIOUS
  <2>2. CASE j \in DownStop(h, n, i)
    <3>1. g[j] = [h EXCEPT ![j] = h[i]]
      BY <1>2, <2>2 DEF Sifts
    <3>2. ASSUME NEW k \in 2 .. n, k \div 2 >= j PROVE ~Farther(g[j][k \div 2], g[j][k])
      <4>1. g[j][k] = h[k] /\ k \in 1 .. n
        BY <1>5, <3>1, <3>2
      <4>2. CASE k \div 2 = j
        <5>1. g[j][k \div 2] = h[i]
          BY <1>4, <3>1, <4>2
        <5>2. k \in Children(h, j)
          BY <4>1, <4>2, HeapOfLength DEF Children
        <5>3. ~Farther(h[i], h[ClosestChild(h, j)])
          BY <2>2, <5>2 DEF DownStop
        <5>4. ~Farther(h[ClosestChild(h, j)], h[k]) /\ ClosestChild(h, j) \in 1 .. n
          <6>1. j \in 1 .. n
            OBVIOUS
          <6>. QED BY <5>2, <6>1, ClosestIsChild
        <5>5. h[ClosestChild(h, j)] \in Entry /\ h[k] \in Entry
          BY <1>1, <4>1, <5>4
        <5>. QED BY <1>1, <4>1, <5>1, <5>3, <5>4, <5>5, FartherOrder
      <4>3. CASE k \div 2 # j
        <5>1. g[j][k \div 2] = h[k \div 2] /\ k \div 2 > i
          BY <1>5, <3>1, <3>2, <4>3
        <5>. QED BY <1>5, <4>1, <5>1
      <4>. QED BY <4>2, <4>3
    <3>3. ASSUME NEW k \in j .. n, k # i PROVE ~Farther(h[k], g[j][k])
      <4>1. k \in 1 .. n
        OBVIOUS
      <4>2. CASE k = j
        BY <1>1, <2>1, <3>1, <3>3, <4>1, <4>2, FartherOrder
      <4>3. CASE k # j
        BY <1>1, <3>1, <4>1, <4>3, FartherOrder
      <4>. QED BY <4>2, <4>3
    <3>. QED BY <3>2, <3>3
  <2>3. CASE j \notin DownStop(h, n, i)
    <3>1. Children(h, j) # {} /\ Farther(h[i], h[ClosestChild(h, j)])
      BY <2>3 DEF DownStop
    <3>2. PICK c \in j + 1 .. n :
            /\ c = ClosestChild(h, j) /\ c \div 2 = j
            /\ \A k \in Children(h, j) : ~Farther(h[c], h[k])
      <4>1. j \in 1 .. n
        OBVIOUS
      <4>2. /\ ClosestChild(h, j) \in Children(h, j)
            /\ Children(h, j) \subseteq j + 1 .. n
            /\ \A k \in Children(h, j) : k \div 2 = j /\ ~Farther(h[ClosestChild(h, j)], h[k])
        BY <3>1, <4>1, ClosestIsChild
      <4>. QED BY <4>2
    <3>3. g[j] = [g[c] EXCEPT ![j] = h[c]]
      <4>1. DownNext(h, n, i)[j] = c
        BY <3>1, <3>2 DEF DownNext
      <4>. QED BY <1>2, <2>3, <4>1 DEF Sifts
    <3>4. P(c)
      BY <1>6, <3>2
    <3>5. /\ \A k \in 2 .. n : k \div 2 >= c => ~Farther(g[c][k \div 2], g[c][k])
          /\ \A k \in c .. n : k # i => ~Farther(h[k], g[c][k])
      BY <3>1, <3>2, <3>4
    <3>6. c \in i + 1 .. n /\ j \in 1 .. n
      BY <3>2
    <3>7. ASSUME NEW k \in j + 1 .. n PROVE ~Farther(h[k], g[j][k]) /\ g[j][k] = g[c][k]
      <4>1. k \in 1 .. n /\ k # i /\ g[j][k] = g[c][k]
        BY <1>4, <3>3, <3>6
      <4>2. CASE k >= c
        BY <3>5, <4>1, <4>2
      <4>3. CASE k < c
        BY <1>1, <1>4, <3>6, <4>1, <4>3, FartherOrder
      <4>. QED BY <4>1, <4>2, <4>3
    <3>8. g[j][j] = h[c] /\ (j = i \/ ~Farther(h[j], h[c]))
      <4>1. g[j][j] = h[c]
        BY <1>4, <3>3, <3>6
      <4>2. j > i => ~Farther(h[j], h[c])
        BY <1>5, <3>2, <3>6
      <4>. QED BY <4>1, <4>2
    <3>9. ASSUME NEW k \in j .. n, k # i PROVE ~Farther(h[k], g[j][k])
      <4>1. CASE k = j
        BY <3>8, <3>9, <4>1
      <4>2. CASE k # j
        BY <3>7, <4>2
      <4>. QED BY <4>1, <4>2
    <3>10. ASSUME NEW k \in 2 .. n, k \div 2 >= j PROVE ~Farther(g[j][k \div 2], g[j][k])
      <4>1. k \in j + 1 .. n /\ k \div 2 \in 1 .. n /\ k \in 1 .. n
        BY <1>5, <3>10
      <4>2. ~Farther(h[k], g[j][k]) /\ g[j][k] = g[c][k] /\ g[j][k] \in Entry
        BY <1>4, <3>7, <4>1
      <4>3. CASE k \div 2 = j
        <5>1. k \in Children(h, j)
          BY <4>1, <4>3, HeapOfLength DEF Children
        <5>2. ~Farther(h[c], h[k]) /\ g[j][k \div 2] = h[c]
          BY <1>4, <3>2, <3>3, <3>6, <4>3, <5>1
        <5>3. h[c] \in Entry /\ h[k] \in Entry
          BY <1>1, <3>6, <4>1
        <5>. QED BY <4>2, <5>2, <5>3, FartherOrder
      <4>4. CASE k \div 2 # j /\ k \div 2 < c
        <5>1. g[j][k \div 2] = h[k \div 2]
          BY <1>4, <3>3, <3>6, <4>1, <4>4
        <5>2. ~Farther(h[k \div 2], h[k])
          BY <1>5, <3>10, <4>4
        <5>3. h[k \div 2] \in Entry /\ h[k] \in Entry
          BY <1>1, <4>1
        <5>. QED BY <4>2, <5>1, <5>2, <5>3, FartherOrder
      <4>5. CASE k \div 2 # j /\ k \div 2 >= c
        <5>1. g[j][k \div 2] = g[c][k \div 2]
          BY <1>4, <3>3, <3>6, <4>1, <4>5
        <5>. QED BY <3>5, <4>2, <4>5, <5>1
      <4>. QED BY <4>3, <4>4, <4>5
    <3>. QED BY <3>9, <3>10
  <2>. QED BY <2>2, <2>3
<1>7. P(i)
  <2> DEFINE Good == {j \in i .. n : P(j)}
  <2>1. ASSUME NEW j \in i .. n, \A k \in j + 1 .. n : k \in Good PROVE j \in Good
    <3> HIDE DEF P
    <3>. QED BY <1>6, <2>1
  <2>2. i \in Nat /\ i \in i .. n
    OBVIOUS
  <2>3. i \in Good
    <3> HIDE DEF Good
    <3>. QED BY <2>1, <2>2, DownTo
  <2> HIDE DEF P
  <2>. QED BY <2>3
<1>8. OrderedBelow(g[i], i, n)
  BY <1>7 DEF OrderedBelow
<1>. QED BY <1>2, <1>8

-----------------------------------------------------------------------------
(* The heap as a set of entries                                            *)

Content(h) == {h[k] : k \in 1 .. Len(h)}

(* No two entries are for the same dof                                     *)
Once(h) == \A k, l \in 1 .. Len(h) : h[k][2] = h[l][2] => k = l

IsHeap(h) == OrderedBelow(h, 1, Len(h))

LEMMA RearrangedContent ==
  ASSUME NEW n \in Nat, NEW g \in [1 .. n -> Entry], NEW h \in [1 .. n -> Entry],
         Rearranged(g, h, n, {})
  PROVE  Content(g) = Content(h) /\ (Once(h) => Once(g))
<1>1. PICK pi \in [1 .. n -> 1 .. n] : /\ \A k, l \in 1 .. n : pi[k] = pi[l] => k = l
                                       /\ \A k \in 1 .. n : g[k] = h[pi[k]]
  BY DEF Rearranged
<1>2. IsFiniteSet(1 .. n)
  BY FS_Interval
<1>3. pi \in Injection(1 .. n, 1 .. n)
  BY <1>1 DEF Injection, IsInjective
<1>4. pi \in Surjection(1 .. n, 1 .. n)
  BY <1>2, <1>3, FS_Injection
<1>5. \A l \in 1 .. n : \E k \in 1 .. n : pi[k] = l
  BY <1>4 DEF Surjection
<1>6. Len(g) = n /\ Len(h) = n
  BY HeapOfLength
<1>7. Content(g) \subseteq Content(h)
  BY <1>1, <1>6 DEF Content
<1>8. Content(h) \subseteq Content(g)
  BY <1>1, <1>5, <1>6 DEF Content
<1>9. ASSUME Once(h) PROVE Once(g)
  <2>1. ASSUME NEW k \in 1 .. n, NEW l \in 1 .. n, g[k][2] = g[l][2] PROVE k = l
    <3>1. h[pi[k]][2] = h[pi[l]][2]
      BY <1>1, <2>1
    <3>2. pi[k] = pi[l]
      BY <1>6, <1>9, <3>1 DEF Once
    <3>. QED BY <1>1, <3>2
  <2>. QED BY <1>6, <2>1 DEF Once
<1>. QED BY <1>7, <1>8, <1>9

-----------------------------------------------------------------------------
(* The standard heap functions                                             *)

LEMMA SiftUpIs ==
  ASSUME NEW n \in Nat, NEW h \in [1 .. n -> Entry], NEW i \in 1 .. n
  PROVE  SiftUp(h, i) \in [1 .. n -> Entry] /\ Rearranged(SiftUp(h, i), h, n, {})
<1>1. PICK g : /\ Sifts(h, h[i], 1 .. i, UpStop(h, i), UpNext(i), g)
               /\ SiftUp(h, i) = g[i]
               /\ \A j \in 1 .. i : /\ g[j] \in [1 .. n -> Entry]
                                    /\ \A k \in 1 .. n : k > j => g[j][k] = h[k]
               /\ Rearranged(g[i], h, n, {})
  BY SiftUpRearranges
<1>2. i \in 1 .. i
  OBVIOUS
<1>. QED BY <1>1, <1>2

LEMMA SiftDownIs ==
  ASSUME NEW n \in Nat, NEW h \in [1 .. n -> Entry], NEW i \in 1 .. n
  PROVE  SiftDown(h, i) \in [1 .. n -> Entry] /\ Rearranged(SiftDown(h, i), h, n, {})
<1>1. PICK g : /\ Sifts(h, h[i], i .. n, DownStop(h, n, i), DownNext(h, n, i), g)
               /\ SiftDown(h, i) = g[i]
               /\ \A j \in i .. n : /\ g[j] \in [1 .. n -> Entry]
                                    /\ \A k \in 1 .. n : k < j => g[j][k] = h[k]
               /\ Rearranged(g[i], h, n, {})
  BY SiftDownRearranges
<1>2. i \in i .. n
  OBVIOUS
<1>. QED BY <1>1, <1>2

(* The first entry of a heap is the closest                                *)
LEMMA FirstIsClosest ==
  ASSUME NEW n \in Nat, NEW h \in [1 .. n -> Entry], OrderedBelow(h, 1, n)
  PROVE  \A k \in 1 .. n : ~Farther(h[1], h[k])
<1> DEFINE Good == {k \in 1 .. n : ~Farther(h[1], h[k])}
<1>1. ASSUME NEW k \in 1 .. n, \A l \in 1 .. k - 1 : l \in Good PROVE k \in Good
  <2>1. h[1] \in Entry /\ h[k] \in Entry
    OBVIOUS
  <2>2. CASE k = 1
    BY <2>1, <2>2, FartherOrder
  <2>3. CASE k # 1
    <3>1. k \in 2 .. n /\ k \div 2 \in 1 .. k - 1 /\ k \div 2 \in 1 .. n
      BY <2>3
    <3>2. ~Farther(h[1], h[k \div 2])
      BY <1>1, <3>1
    <3>3. ~Farther(h[k \div 2], h[k]) /\ h[k \div 2] \in Entry
      BY <3>1 DEF OrderedBelow
    <3>. QED BY <2>1, <3>2, <3>3, FartherOrder
  <2>. QED BY <2>2, <2>3
<1>2. n \in Int
  OBVIOUS
<1>3. \A k \in 1 .. n : k \in Good
  <2> HIDE DEF Good
  <2>. QED BY <1>1, <1>2, UpTo
<1>. QED BY <1>3

(* Building a heap: in order from the last parent up                       *)
Builds(n, h, built) ==
  built = [k \in 0 .. n \div 2 |->
             IF k = 0 THEN h ELSE SiftDown(built[k - 1], n \div 2 + 1 - k)]

LEMMA BuildsExists ==
  ASSUME NEW n \in Nat, NEW h \in [1 .. n -> Entry]
  PROVE  \E built : Builds(n, h, built) /\ MakeHeap(h) = built[n \div 2]
<1> DEFINE V == [1 .. n -> Entry]
           m == n \div 2
           D == 0 .. m
           base == [k \in D |-> h]
           prev == [k \in D |-> IF k = 0 THEN 0 ELSE k - 1]
           put == [kw \in D \X V |-> IF kw[1] = 0 THEN h ELSE SiftDown(kw[2], m + 1 - kw[1])]
           rank == [k \in D |-> k]
<1>1. m \in Nat /\ m <= n
  OBVIOUS
<1>2. base \in [D -> V] /\ prev \in [D -> D] /\ rank \in [D -> 0 .. m] /\ {0} \in SUBSET D
  BY <1>1
<1>3. put \in [D \X V -> V]
  <2>1. ASSUME NEW k \in D, NEW w \in V, k # 0 PROVE SiftDown(w, m + 1 - k) \in V
    <3>1. m + 1 - k \in 1 .. n
      BY <1>1, <2>1
    <3>. QED BY <3>1, SiftDownIs
  <2> HIDE DEF D, m
  <2>. QED BY <2>1
<1>4. \A k \in D \ {0} : rank[prev[k]] < rank[k]
  BY <1>1
<1>5. PICK built \in [D -> V] : Recursive(D, {0}, base, prev, put, built)
  <2> HIDE DEF D, V, base, prev, put, rank, m
  <2>. QED BY <1>1, <1>2, <1>3, <1>4, RecursionExists
<1>6. ASSUME NEW k \in D
      PROVE  (IF k \in {0} THEN base[k] ELSE put[<<k, built[prev[k]]>>])
               = IF k = 0 THEN h ELSE SiftDown(built[k - 1], m + 1 - k)
  <2>1. CASE k = 0
    BY <2>1
  <2>2. CASE k # 0
    <3>1. prev[k] = k - 1 /\ k - 1 \in D /\ built[k - 1] \in V
      BY <1>1, <2>2
    <3>2. put[<<k, built[k - 1]>>] = SiftDown(built[k - 1], m + 1 - k)
      BY <2>2, <3>1
    <3>. QED BY <2>2, <3>1, <3>2
  <2>. QED BY <2>1, <2>2
<1>7. built = [k \in D |-> IF k = 0 THEN h ELSE SiftDown(built[k - 1], m + 1 - k)]
  <2> HIDE DEF D, V, base, prev, put
  <2>. QED BY <1>5, <1>6 DEF Recursive
<1>8. \E f : Builds(n, h, f)
  BY <1>7 DEF Builds
<1>9. MakeHeap(h) = (CHOOSE f : Builds(n, h, f))[n \div 2]
  <2>1. Len(h) = n
    BY HeapOfLength
  <2>. QED BY <2>1 DEF MakeHeap, Builds
<1>. QED BY <1>8, <1>9

LEMMA MakeHeapIs ==
  ASSUME NEW n \in Nat, NEW h \in [1 .. n -> Entry]
  PROVE  /\ MakeHeap(h) \in [1 .. n -> Entry]
         /\ Rearranged(MakeHeap(h), h, n, {})
         /\ OrderedBelow(MakeHeap(h), 1, n)
<1>1. PICK built : Builds(n, h, built) /\ MakeHeap(h) = built[n \div 2]
  BY BuildsExists
<1> DEFINE m == n \div 2
           P(k) == /\ built[k] \in [1 .. n -> Entry]
                   /\ Rearranged(built[k], h, n, {})
                   /\ OrderedBelow(built[k], m + 1 - k, n)
           Good == {k \in 1 .. m + 1 : P(k - 1)}
<1>2. m \in Nat /\ m <= n /\ \A k \in 2 .. n : k \div 2 <= m
  OBVIOUS
<1>3. P(0)
  <2>1. built[0] = h
    BY <1>1, <1>2 DEF Builds
  <2>2. OrderedBelow(h, m + 1 - 0, n)
    BY <1>2 DEF OrderedBelow
  <2>3. Rearranged(h, h, n, {})
    BY NotMoved
  <2> HIDE DEF m
  <2>. QED BY <2>1, <2>2, <2>3
<1>4. ASSUME NEW k \in 1 .. m, P(k - 1) PROVE P(k)
  <2> DEFINE b == built[k - 1]
  <2>1. built[k] = SiftDown(b, m + 1 - k)
    BY <1>1, <1>2 DEF Builds
  <2>2. m + 1 - k \in 1 .. n /\ m + 1 - (k - 1) = (m + 1 - k) + 1
    BY <1>2
  <2>3. b \in [1 .. n -> Entry] /\ Rearranged(b, h, n, {}) /\ OrderedBelow(b, (m + 1 - k) + 1, n)
    <3> HIDE DEF m
    <3>. QED BY <1>4, <2>2
  <2> HIDE DEF b, m
  <2>4. built[k] \in [1 .. n -> Entry] /\ Rearranged(built[k], b, n, {})
    BY <2>1, <2>2, <2>3, SiftDownIs
  <2>5. OrderedBelow(built[k], m + 1 - k, n)
    BY <2>1, <2>2, <2>3, SiftDownOrders
  <2>6. Rearranged(built[k], h, n, {})
    BY <2>3, <2>4, MovedTwice
  <2>. QED BY <2>4, <2>5, <2>6
<1>5. \A k \in 1 .. m + 1 : k \in Good
  <2>1. ASSUME NEW k \in 1 .. m + 1, \A l \in 1 .. k - 1 : l \in Good PROVE k \in Good
    <3>1. CASE k = 1
      <4> HIDE DEF P
      <4>. QED BY <1>3, <3>1
    <3>2. CASE k # 1
      <4>1. k - 1 \in 1 .. k - 1 /\ k - 1 \in 1 .. m
        BY <1>2, <3>2
      <4>2. P((k - 1) - 1)
        <5> HIDE DEF P
        <5>. QED BY <2>1, <4>1
      <4>3. P(k - 1)
        <5> HIDE DEF P, m
        <5>. QED BY <1>4, <4>1, <4>2
      <4> HIDE DEF P
      <4>. QED BY <4>3
    <3>. QED BY <3>1, <3>2
  <2>2. m + 1 \in Int
    BY <1>2
  <2> HIDE DEF Good
  <2>. QED BY <2>1, <2>2, UpTo
<1>6. P(m)
  <2>1. m + 1 \in 1 .. m + 1 /\ (m + 1) - 1 = m
    BY <1>2
  <2> HIDE DEF P, m
  <2>. QED BY <1>5, <2>1
<1>7. m + 1 - m = 1
  BY <1>2
<1>. QED
  <2>1. OrderedBelow(built[m], 1, n)
    <3> HIDE DEF m
    <3>. QED BY <1>6, <1>7
  <2>. QED BY <1>1, <1>6, <2>1

-----------------------------------------------------------------------------
(* The operations of the heap                                              *)

LEMMA SeqIsHeap ==
  ASSUME NEW h \in Seq(Entry)
  PROVE  Len(h) \in Nat /\ h \in [1 .. Len(h) -> Entry] /\ DOMAIN h = 1 .. Len(h)
BY SMT

LEMMA ContentEntries ==
  ASSUME NEW h \in Seq(Entry)
  PROVE  Content(h) \in SUBSET Entry
BY DEF Content

(* A new entry is added                                                    *)
LEMMA PushIs ==
  ASSUME NEW h \in Seq(Entry), NEW in \in Entry
  PROVE  /\ Push(h, in) \in Seq(Entry)
         /\ Content(Push(h, in)) = Content(h) \cup {in}
         /\ IsHeap(h) => IsHeap(Push(h, in))
         /\ Once(h) /\ (\A e \in Content(h) : e[2] # in[2]) => Once(Push(h, in))
<1> DEFINE g == Append(h, in)
           n == Len(h) + 1
           s == SiftUp(g, n)
<1>1. /\ n \in Nat \ {0} /\ n \in 1 .. n /\ Len(h) = n - 1
      /\ g \in [1 .. n -> Entry] /\ Len(g) = n /\ g[n] = in
      /\ \A k \in 1 .. n - 1 : g[k] = h[k]
  <2>1. Len(h) \in Nat /\ n \in Nat \ {0} /\ n \in 1 .. n /\ Len(h) = n - 1
    BY SeqIsHeap
  <2>2. /\ g \in Seq(Entry) /\ Len(g) = n /\ g[n] = in
        /\ \A k \in 1 .. Len(h) : g[k] = h[k]
    BY AppendProperties
  <2>3. g \in [1 .. n -> Entry]
    <3> HIDE DEF g, n
    <3>. QED BY <2>2, SeqIsHeap
  <2> HIDE DEF g, n
  <2>. QED BY <2>1, <2>2, <2>3
<1>2. Push(h, in) = s
  BY <1>1 DEF Push, PushHeap
<1> HIDE DEF g, n
<1>3. s \in [1 .. n -> Entry] /\ Rearranged(s, g, n, {})
  BY <1>1, SiftUpIs
<1>4. s \in Seq(Entry) /\ Len(s) = n
  <2> HIDE DEF s
  <2>. QED BY <1>1, <1>3, HeapOfLength
<1>5. Content(s) = Content(g) /\ (Once(g) => Once(s))
  <2> HIDE DEF s
  <2>. QED BY <1>1, <1>3, RearrangedContent
<1>6. Content(g) = Content(h) \cup {in}
  <2>1. 1 .. n = (1 .. n - 1) \cup {n}
    BY <1>1
  <2>. QED BY <1>1, <2>1 DEF Content
<1>7. ASSUME IsHeap(h) PROVE IsHeap(s)
  <2>1. ASSUME NEW k \in 2 .. n - 1 PROVE ~Farther(g[k \div 2], g[k])
    <3>1. k \div 2 \in 1 .. n - 1 /\ k \in 1 .. n - 1 /\ k \div 2 >= 1
      BY <1>1
    <3>2. ~Farther(h[k \div 2], h[k])
      BY <1>1, <1>7, <3>1 DEF IsHeap, OrderedBelow
    <3>. QED BY <1>1, <3>1, <3>2
  <2>2. OrderedBelow(g, 1, n - 1)
    BY <2>1 DEF OrderedBelow
  <2>. QED BY <1>1, <1>4, <2>2, SiftUpOrders DEF IsHeap
<1>8. ASSUME Once(h), \A e \in Content(h) : e[2] # in[2] PROVE Once(s)
  <2>1. \A k \in 1 .. n - 1 : g[k][2] # g[n][2]
    BY <1>1, <1>8 DEF Content
  <2>2. ASSUME NEW k \in 1 .. n, NEW l \in 1 .. n, g[k][2] = g[l][2] PROVE k = l
    <3>1. CASE k \in 1 .. n - 1 /\ l \in 1 .. n - 1
      BY <1>1, <1>8, <2>2, <3>1 DEF Once
    <3>2. CASE ~(k \in 1 .. n - 1 /\ l \in 1 .. n - 1)
      <4>1. k = n \/ l = n
        BY <1>1, <3>2
      <4>2. k \in 1 .. n - 1 => k = l
        BY <2>1, <2>2, <4>1
      <4>3. l \in 1 .. n - 1 => k = l
        BY <2>1, <2>2, <4>1
      <4>. QED BY <1>1, <4>1, <4>2, <4>3
    <3>. QED BY <3>1, <3>2
  <2>3. Once(g)
    BY <1>1, <2>2 DEF Once
  <2>. QED BY <1>5, <2>3
<1>. QED BY <1>2, <1>4, <1>5, <1>6, <1>7, <1>8

(* The first entry is taken off                                            *)
LEMMA PopIs ==
  ASSUME NEW h \in Seq(Entry), h # << >>
  PROVE  /\ PopHeap(h) \in Seq(Entry) /\ Content(PopHeap(h)) \subseteq Content(h)
         /\ IsHeap(h) => IsHeap(PopHeap(h))
         /\ Once(h) => Once(PopHeap(h)) /\ Content(PopHeap(h)) = Content(h) \ {h[1]}
<1> DEFINE n == Len(h)
           g == [h EXCEPT ![1] = h[Len(h)]]
           rest == SubSeq(g, 1, n - 1)
<1>1. n \in Nat \ {0} /\ h \in [1 .. n -> Entry] /\ 1 \in 1 .. n /\ n \in 1 .. n
  BY SeqIsHeap
<1>2. g \in [1 .. n -> Entry] /\ g[1] = h[n] /\ \A k \in 2 .. n : g[k] = h[k]
  BY <1>1
<1>3. /\ rest \in [1 .. n - 1 -> Entry] /\ rest \in Seq(Entry) /\ Len(rest) = n - 1
      /\ \A k \in 1 .. n - 1 : rest[k] = g[k]
  <2>1. g \in Seq(Entry) /\ Len(g) = n
    <3> HIDE DEF g
    <3>. QED BY <1>1, <1>2, HeapOfLength
  <2>. QED
    <3> HIDE DEF g, n
    <3>1. 1 \in 1 .. n /\ n - 1 \in Int /\ n - 1 \in 0 .. n
      BY <1>1
    <3>2. /\ rest \in Seq(Entry) /\ Len(rest) = n - 1
          /\ \A k \in 1 .. n - 1 : rest[k] = g[k]
      BY <1>1, <2>1, <3>1
    <3> HIDE DEF rest
    <3>. QED BY <3>2, SeqIsHeap
<1>4. PopHeap(h) = IF rest = << >> THEN rest ELSE SiftDown(rest, 1)
  BY DEF PopHeap
<1>5. IsHeap(h) => OrderedBelow(rest, 2, n - 1)
  <2> SUFFICES ASSUME IsHeap(h), NEW k \in 2 .. n - 1, k \div 2 >= 2
               PROVE  ~Farther(rest[k \div 2], rest[k])
    BY DEF OrderedBelow
  <2>1. k \div 2 \in 2 .. n - 1 /\ k \in 2 .. n /\ k \div 2 >= 1
    BY <1>1
  <2>2. ~Farther(h[k \div 2], h[k])
    BY <2>1 DEF IsHeap, OrderedBelow
  <2>3. rest[k \div 2] = h[k \div 2] /\ rest[k] = h[k]
    <3> HIDE DEF g, rest
    <3>. QED BY <1>1, <1>2, <1>3, <2>1
  <2>. QED BY <2>2, <2>3
<1>9. Content(rest) \subseteq Content(h)
  <2>1. \A k \in 1 .. n - 1 : \E l \in 1 .. n : rest[k] = h[l]
    <3> HIDE DEF n, g, rest
    <3>. QED BY <1>1, <1>2, <1>3
  <2>. QED BY <1>3, <2>1 DEF Content
<1>6. Once(h) => Once(rest) /\ Content(rest) = Content(h) \ {h[1]}
  <2> SUFFICES ASSUME Once(h) PROVE Once(rest) /\ Content(rest) = Content(h) \ {h[1]}
    OBVIOUS
  <2> DEFINE from(k) == IF k = 1 THEN n ELSE k
  <2> HIDE DEF n, g, rest
  <2>1. \A k \in 1 .. n - 1 : from(k) \in 2 .. n /\ from(k) \in 1 .. n /\ rest[k] = h[from(k)]
    BY <1>1, <1>2, <1>3
  <2>2. \A k, l \in 1 .. n - 1 : from(k) = from(l) => k = l
    BY <1>1
  <2>3. \A k, l \in 1 .. n : h[k][2] = h[l][2] => k = l
    BY DEF Once, n
  <2>4. \A k \in 2 .. n : \E l \in 1 .. n - 1 : from(l) = k
    <3> SUFFICES ASSUME NEW k \in 2 .. n PROVE \E l \in 1 .. n - 1 : from(l) = k
      OBVIOUS
    <3>1. CASE k = n
      <4>1. 1 \in 1 .. n - 1 /\ from(1) = n
        BY <1>1
      <4>. QED BY <3>1, <4>1
    <3>2. CASE k # n
      <4>1. k \in 1 .. n - 1 /\ from(k) = k
        BY <1>1, <3>2
      <4>. QED BY <4>1
    <3>. QED BY <3>1, <3>2
  <2> HIDE DEF from
  <2>5. Once(rest)
    <3> SUFFICES ASSUME NEW k \in 1 .. n - 1, NEW l \in 1 .. n - 1, rest[k][2] = rest[l][2]
                 PROVE  k = l
      BY <1>3 DEF Once
    <3>1. from(k) = from(l)
      BY <2>1, <2>3
    <3>. QED BY <2>2, <3>1
  <2>6. Content(rest) = {h[k] : k \in 2 .. n}
    <3>1. Content(rest) = {rest[k] : k \in 1 .. n - 1}
      BY <1>3 DEF Content
    <3>2. \A k \in 1 .. n - 1 : rest[k] \in {h[l] : l \in 2 .. n}
      BY <2>1
    <3>3. \A l \in 2 .. n : h[l] \in {rest[k] : k \in 1 .. n - 1}
      BY <2>1, <2>4
    <3>. QED BY <3>1, <3>2, <3>3
  <2>7. Content(h) \ {h[1]} = {h[k] : k \in 2 .. n}
    <3>1. Content(h) = {h[k] : k \in 1 .. n}
      BY DEF Content, n
    <3>2. \A k \in 2 .. n : k \in 1 .. n /\ h[k] # h[1]
      BY <1>1, <2>3
    <3>3. \A k \in 1 .. n : k = 1 \/ k \in 2 .. n
      BY <1>1
    <3>. QED BY <3>1, <3>2, <3>3
  <2>. QED BY <2>5, <2>6, <2>7
<1> HIDE DEF n, g, rest
<1>7. CASE rest = << >>
  <2>1. n - 1 = 0
    BY <1>1, <1>3, <1>7
  <2>2. IsHeap(rest)
    BY <1>3, <2>1 DEF IsHeap, OrderedBelow
  <2>. QED BY <1>3, <1>4, <1>6, <1>7, <1>9, <2>2
<1>8. CASE rest # << >>
  <2>1. n - 1 \in Nat /\ 1 \in 1 .. n - 1 /\ 1 + 1 = 2
    <3>1. n - 1 # 0
      BY <1>3, <1>8
    <3>. QED BY <1>1, <3>1
  <2> DEFINE s == SiftDown(rest, 1)
  <2>2. s \in [1 .. n - 1 -> Entry] /\ Rearranged(s, rest, n - 1, {})
    BY <1>3, <2>1, SiftDownIs
  <2>3. IsHeap(h) => OrderedBelow(s, 1, n - 1)
    BY <1>3, <1>5, <2>1, SiftDownOrders
  <2> HIDE DEF s
  <2>4. s \in Seq(Entry) /\ Len(s) = n - 1
    BY <2>1, <2>2, HeapOfLength
  <2>5. Content(s) = Content(rest) /\ (Once(rest) => Once(s))
    BY <1>3, <2>1, <2>2, RearrangedContent
  <2>6. PopHeap(h) = s
    BY <1>4, <1>8 DEF s
  <2>. QED BY <1>6, <1>9, <2>3, <2>4, <2>5, <2>6 DEF IsHeap
<1>. QED BY <1>7, <1>8

LEMMA FindIs ==
  ASSUME NEW h \in Seq(Entry), NEW index
  PROVE  \/ Find(h, index) = 0 /\ \A k \in 1 .. Len(h) : h[k][2] # index
         \/ Find(h, index) \in 1 .. Len(h) /\ h[Find(h, index)][2] = index
<1> DEFINE I == {k \in 1 .. Len(h) : h[k][2] = index}
<1>1. Find(h, index) = IF I # {} THEN Min(I) ELSE 0
  BY DEF Find, SelectInSeq
<1>2. CASE I = {}
  BY <1>1, <1>2
<1>3. CASE I # {}
  <2>1. I \in SUBSET Nat
    BY SeqIsHeap
  <2>2. \E x \in I : \A y \in I : x <= y
    <3> HIDE DEF I
    <3>. QED BY <1>3, <2>1, LeastNatural
  <2>3. Min(I) \in I
    <3> HIDE DEF I
    <3>. QED BY <2>2 DEF Min
  <2>. QED BY <1>1, <1>3, <2>3
<1>. QED BY <1>2, <1>3

(* The entry of a dof gets closer, or a new one is added                   *)
Improved(h, in, g) ==
  /\ Once(g)
  /\ \E best \in Content(h) \cup {in} :
       /\ best[2] = in[2] /\ ~Farther(best, in)
       /\ \A e \in Content(h) : e[2] = in[2] => ~Farther(best, e)
       /\ Content(g) = {e \in Content(h) : e[2] # in[2]} \cup {best}

LEMMA ChangeIs ==
  ASSUME NEW h \in Seq(Entry), NEW in \in Entry
  PROVE  /\ Change(h, in) \in Seq(Entry) /\ Content(Change(h, in)) \subseteq Content(h) \cup {in}
         /\ IsHeap(h) => IsHeap(Change(h, in))
         /\ Once(h) => Improved(h, in, Change(h, in))
<1> DEFINE it == Find(h, in[2])
<1>1. Change(h, in) = IF it = 0 THEN Push(h, in)
                      ELSE IF Farther(h[it], in) THEN MakeHeap([h EXCEPT ![it] = in]) ELSE h
  BY DEF Change
<1>2. \/ it = 0 /\ \A k \in 1 .. Len(h) : h[k][2] # in[2]
      \/ it \in 1 .. Len(h) /\ h[it][2] = in[2]
  BY FindIs
<1>3. Len(h) \in Nat /\ h \in [1 .. Len(h) -> Entry] /\ Content(h) \in SUBSET Entry
  BY SeqIsHeap, ContentEntries
<1> HIDE DEF it
<1>4. CASE it = 0
  <2>1. \A e \in Content(h) : e[2] # in[2]
    BY <1>2, <1>3, <1>4 DEF Content
  <2>2. {e \in Content(h) : e[2] # in[2]} = Content(h)
    BY <2>1
  <2>3. ~Farther(in, in)
    BY FartherOrder
  <2>4. /\ Push(h, in) \in Seq(Entry)
        /\ Content(Push(h, in)) = Content(h) \cup {in}
        /\ IsHeap(h) => IsHeap(Push(h, in))
        /\ Once(h) => Once(Push(h, in))
    BY <2>1, PushIs
  <2>5. Once(h) => Improved(h, in, Push(h, in))
    BY <2>1, <2>2, <2>3, <2>4 DEF Improved
  <2>. QED BY <1>1, <1>4, <2>4, <2>5
<1>5. CASE it \in 1 .. Len(h) /\ h[it][2] = in[2] /\ Farther(h[it], in)
  <2> DEFINE n == Len(h)
             g == [h EXCEPT ![it] = in]
             s == MakeHeap(g)
  <2>1. g \in [1 .. n -> Entry] /\ g[it] = in /\ \A k \in 1 .. n : k # it => g[k] = h[k]
    BY <1>3, <1>5
  <2> HIDE DEF g
  <2>2. s \in [1 .. n -> Entry] /\ Rearranged(s, g, n, {}) /\ OrderedBelow(s, 1, n)
    BY <1>3, <2>1, MakeHeapIs
  <2> HIDE DEF s
  <2>3. s \in Seq(Entry) /\ Len(s) = n /\ Len(g) = n
    BY <1>3, <2>1, <2>2, HeapOfLength
  <2>4. Content(s) = Content(g) /\ (Once(g) => Once(s))
    BY <1>3, <2>1, <2>2, RearrangedContent
  <2>7. Content(g) \subseteq Content(h) \cup {in}
    <3>1. Content(g) = {g[k] : k \in 1 .. n} /\ Content(h) = {h[k] : k \in 1 .. n}
      BY <2>3 DEF Content
    <3>. QED BY <2>1, <3>1
  <2>5. ASSUME Once(h) PROVE Improved(h, in, s)
    <3>1. \A k \in 1 .. n : g[k][2] = h[k][2]
      BY <1>5, <2>1
    <3>2. Once(g)
      BY <2>3, <2>5, <3>1 DEF Once
    <3>3. \A k \in 1 .. n : k # it => h[k][2] # in[2]
      BY <1>5, <2>5 DEF Once
    <3>4. Content(g) = {e \in Content(h) : e[2] # in[2]} \cup {in}
      <4>1. Content(g) = {g[k] : k \in 1 .. n} /\ Content(h) = {h[k] : k \in 1 .. n}
        BY <2>3 DEF Content
      <4>. QED BY <1>5, <2>1, <3>3, <4>1
    <3>5. \A e \in Content(h) : e[2] = in[2] => e = h[it]
      BY <3>3 DEF Content
    <3>6. h[it] \in Entry /\ ~Farther(in, in) /\ ~Farther(in, h[it])
      BY <1>3, <1>5, FartherOrder
    <3>. QED BY <2>4, <3>2, <3>4, <3>5, <3>6 DEF Improved
  <2>6. Change(h, in) = s
    <3>1. it # 0
      BY <1>3, <1>5
    <3>. QED BY <1>1, <1>5, <3>1 DEF s, g
  <2>. QED BY <2>2, <2>3, <2>4, <2>5, <2>6, <2>7 DEF IsHeap
<1>6. CASE it \in 1 .. Len(h) /\ h[it][2] = in[2] /\ ~Farther(h[it], in)
  <2>1. Change(h, in) = h
    <3>1. it # 0
      BY <1>3, <1>6
    <3>. QED BY <1>1, <1>6, <3>1
  <2>2. ASSUME Once(h) PROVE Improved(h, in, h)
    <3>1. \A e \in Content(h) : e[2] = in[2] => e = h[it]
      BY <1>6, <2>2 DEF Once, Content
    <3>2. h[it] \in Content(h) /\ h[it] \in Entry
      BY <1>3, <1>6 DEF Content
    <3>3. ~Farther(h[it], h[it])
      BY <3>2, FartherOrder
    <3>4. Content(h) = {e \in Content(h) : e[2] # in[2]} \cup {h[it]}
      BY <3>1, <3>2
    <3>. QED BY <1>6, <2>2, <3>1, <3>2, <3>3, <3>4 DEF Improved
  <2>. QED BY <2>1, <2>2
<1>. QED BY <1>2, <1>4, <1>5, <1>6

(* The entry of a dof is erased                                            *)
LEMMA RemoveIs ==
  ASSUME NEW h \in Seq(Entry), NEW index
  PROVE  /\ RemoveFromHeap(h, index) \in Seq(Entry)
         /\ Content(RemoveFromHeap(h, index)) \subseteq Content(h)
         /\ Once(h) => /\ Once(RemoveFromHeap(h, index))
                       /\ Content(RemoveFromHeap(h, index)) = {e \in Content(h) : e[2] # index}
<1> DEFINE it == Find(h, index)
           n == Len(h)
           g == RemoveAt(h, it)
<1>1. RemoveFromHeap(h, index) = IF it = 0 THEN h ELSE g
  BY DEF RemoveFromHeap
<1>2. \/ it = 0 /\ \A k \in 1 .. n : h[k][2] # index
      \/ it \in 1 .. n /\ h[it][2] = index
  BY FindIs
<1>3. n \in Nat /\ h \in [1 .. n -> Entry] /\ \A k \in 1 .. n : h[k] \in Entry
  BY SeqIsHeap
<1> HIDE DEF it
<1>4. CASE it = 0 /\ \A k \in 1 .. n : h[k][2] # index
  <2>1. Content(h) = {e \in Content(h) : e[2] # index}
    BY <1>4 DEF Content
  <2>. QED BY <1>1, <1>4, <2>1
<1>5. CASE it \in 1 .. n /\ h[it][2] = index
  <2>1. RemoveFromHeap(h, index) = g
    <3> HIDE DEF g
    <3>. QED BY <1>1, <1>3, <1>5
  <2> DEFINE a == SubSeq(h, 1, it - 1)
             b == SubSeq(h, it + 1, n)
             from(k) == IF k < it THEN k ELSE k + 1
  <2>2. a \in Seq(Entry) /\ Len(a) = it - 1 /\ \A k \in 1 .. it - 1 : a[k] = h[k]
    <3>1. it - 1 \in Int /\ 1 \in Int /\ \A k \in 1 .. it - 1 : h[k] \in Entry
      BY <1>3, <1>5
    <3>. QED BY <1>3, <1>5, <3>1, SubSeqProperties
  <2>3. b \in Seq(Entry) /\ Len(b) = n - it /\ \A k \in 1 .. n - it : b[k] = h[it + k]
    <3>1. it + 1 \in Int /\ n \in Int /\ \A k \in it + 1 .. n : h[k] \in Entry
      BY <1>3, <1>5
    <3>2. /\ b \in Seq(Entry)
          /\ Len(b) = IF it + 1 <= n THEN n - (it + 1) + 1 ELSE 0
          /\ \A k \in 1 .. n - (it + 1) + 1 : b[k] = h[it + 1 + k - 1]
      <4> HIDE DEF n
      <4>. QED BY <3>1, SubSeqProperties
    <3>3. n - (it + 1) + 1 = n - it /\ \A k \in Int : it + 1 + k - 1 = it + k
      BY <1>3, <1>5
    <3> HIDE DEF b, n
    <3>. QED BY <1>3, <1>5, <3>2, <3>3
  <2>4. g = a \o b
    BY DEF RemoveAt
  <2> HIDE DEF a, b, n
  <2>5. g \in Seq(Entry) /\ Len(g) = n - 1 /\ \A k \in 1 .. n - 1 : g[k] = h[from(k)]
    <3>1. /\ a \o b \in Seq(Entry)
          /\ Len(a \o b) = Len(a) + Len(b)
          /\ \A k \in 1 .. Len(a) + Len(b) :
               (a \o b)[k] = IF k <= Len(a) THEN a[k] ELSE b[k - Len(a)]
      BY <2>2, <2>3, ConcatProperties
    <3>2. Len(a) + Len(b) = n - 1
      BY <1>3, <1>5, <2>2, <2>3
    <3>3. ASSUME NEW k \in 1 .. n - 1 PROVE (a \o b)[k] = h[from(k)]
      <4>1. CASE k < it
        BY <1>3, <1>5, <2>2, <3>1, <3>2, <4>1
      <4>2. CASE ~(k < it)
        <5>1. (a \o b)[k] = b[k - (it - 1)]
          BY <1>3, <1>5, <2>2, <3>1, <3>2, <4>2
        <5>2. k - (it - 1) \in 1 .. n - it /\ it + (k - (it - 1)) = k + 1
          BY <1>3, <1>5, <4>2
        <5>. QED BY <2>3, <4>2, <5>1, <5>2
      <4>. QED BY <4>1, <4>2
    <3>. QED BY <2>4, <3>1, <3>2, <3>3
  <2> HIDE DEF g
  <2>6. /\ \A k \in 1 .. n - 1 : from(k) \in 1 .. n /\ from(k) # it
        /\ \A k, l \in 1 .. n - 1 : from(k) = from(l) => k = l
    BY <1>3, <1>5
  <2>7. \A k \in 1 .. n : k # it => \E l \in 1 .. n - 1 : from(l) = k
    <3> SUFFICES ASSUME NEW k \in 1 .. n, k # it PROVE \E l \in 1 .. n - 1 : from(l) = k
      OBVIOUS
    <3>1. CASE k < it
      <4>1. k \in 1 .. n - 1 /\ from(k) = k
        BY <1>3, <1>5, <3>1
      <4>. QED BY <4>1
    <3>2. CASE ~(k < it)
      <4>1. k - 1 \in 1 .. n - 1 /\ from(k - 1) = k
        BY <1>3, <1>5, <3>2
      <4>. QED BY <4>1
    <3>. QED BY <3>1, <3>2
  <2> HIDE DEF from
  <2>8. ASSUME Once(h)
        PROVE  Once(g) /\ Content(g) = {e \in Content(h) : e[2] # index}
    <3>1. \A k, l \in 1 .. n : h[k][2] = h[l][2] => k = l
      BY <2>8 DEF Once, n
    <3>2. Once(g)
      <4> SUFFICES ASSUME NEW k \in 1 .. n - 1, NEW l \in 1 .. n - 1, g[k][2] = g[l][2]
                   PROVE  k = l
        BY <2>5 DEF Once
      <4>1. from(k) = from(l)
        BY <2>5, <2>6, <3>1
      <4>. QED BY <2>6, <4>1
    <3>3. Content(g) = {g[k] : k \in 1 .. n - 1} /\ Content(h) = {h[k] : k \in 1 .. n}
      BY <2>5 DEF Content, n
    <3>4. \A k \in 1 .. n : k # it <=> h[k][2] # index
      BY <1>5, <3>1
    <3>5. \A k \in 1 .. n - 1 : g[k] \in Content(h) /\ g[k][2] # index
      BY <2>5, <2>6, <3>3, <3>4
    <3>6. \A k \in 1 .. n : h[k][2] # index => h[k] \in Content(g)
      BY <2>5, <2>7, <3>3, <3>4
    <3>7. Content(g) \subseteq {e \in Content(h) : e[2] # index}
      BY <3>3, <3>5
    <3>8. {e \in Content(h) : e[2] # index} \subseteq Content(g)
      <4> HIDE DEF Content
      <4>. QED BY <3>3, <3>6
    <3>. QED BY <3>2, <3>7, <3>8
  <2>9. Content(g) \subseteq Content(h)
    <3>1. Content(g) = {g[k] : k \in 1 .. n - 1} /\ Content(h) = {h[k] : k \in 1 .. n}
      BY <2>5 DEF Content, n
    <3>. QED BY <2>5, <2>6, <3>1
  <2>. QED BY <2>1, <2>5, <2>8, <2>9
<1>. QED BY <1>2, <1>4, <1>5

-----------------------------------------------------------------------------
(* Candidates                                                              *)

LEMMA NeighborsAre ==
  /\ Neighbors \in [Dof -> SUBSET Dof]
  /\ \A p \in Dof : \A n \in Neighbors[p] :
       /\ n # p /\ p \in Neighbors[n]
       /\ Length(p, n) \in Nat \ {0}
       /\ \E c \in Cell : p \in c /\ n \in c
<1>1. Cell \subseteq SUBSET Dof /\ \A c \in Cell : \A p, n \in c : p # n => Length(p, n) \in Nat \ {0}
  BY GeometryAssumption
<1>2. Neighbors \in [Dof -> SUBSET Dof]
  BY <1>1 DEF Neighbors
<1>3. ASSUME NEW p \in Dof, NEW n \in Neighbors[p]
      PROVE  /\ n # p /\ p \in Neighbors[n]
             /\ Length(p, n) \in Nat \ {0}
             /\ \E c \in Cell : p \in c /\ n \in c
  <2>1. Neighbors[p] = (UNION {c \in Cell : p \in c}) \ {p}
    BY DEF Neighbors
  <2>2. PICK c \in Cell : p \in c /\ n \in c /\ n # p
    BY <1>3, <2>1
  <2>3. n \in Dof
    BY <1>1, <2>2
  <2>4. Neighbors[n] = (UNION {b \in Cell : n \in b}) \ {n}
    BY <2>3 DEF Neighbors
  <2>5. p \in Neighbors[n]
    BY <2>2, <2>4
  <2>. QED BY <1>1, <2>2, <2>5
<1>. QED BY <1>2, <1>3

(* The candidates that PhiNew chooses from                                 *)
Candidates(p, n, w, st) ==
  {DistFromOne(p, n, w)}
    \cup ({DistFromTwo(p, q, n, w) : q \in {r \in Neighbors[n] \intersect Neighbors[p] :
                                               st[r] = DONE}} \ {0})

(* x is on the side of the value y, not closer, and not zero               *)
IsBeyond(x, y) ==
  /\ x \in Int \ {0}
  /\ Abs(x) >= Abs(y)
  /\ y < 0 => x < 0
  /\ y >= 0 => x > 0

LEMMA CandidatesAre ==
  ASSUME NoObtuseAngle(Int), NEW p \in Dof, NEW n \in Neighbors[p],
         NEW w \in [Dof -> Int], NEW st
  PROVE  \A x \in Candidates(p, n, w, st) : IsBeyond(x, w[p])
<1>1. n \in Dof /\ p \in Neighbors[n] /\ w[p] \in Int /\ Length(p, n) \in Nat \ {0}
  BY NeighborsAre
<1>2. IsBeyond(DistFromOne(p, n, w), w[p])
  BY <1>1 DEF DistFromOne, Beyond, IsBeyond, Abs
<1>3. ASSUME NEW q \in Neighbors[n] \intersect Neighbors[p], DistFromTwo(p, q, n, w) # 0
      PROVE  IsBeyond(DistFromTwo(p, q, n, w), w[p])
  <2> DEFINE dv == IF w[p] < 0 THEN w[p] - w[q] ELSE w[q] - w[p]
             step == Through(p, q, n, dv)
  <2>1. q \in Dof /\ w[q] \in Int
    BY <1>1, NeighborsAre
  <2>2. dv \in Int
    BY <1>1, <2>1
  <2>3. DistFromTwo(p, q, n, w) = IF step = 0 THEN 0 ELSE Beyond(p, w, step)
    BY DEF DistFromTwo
  <2> HIDE DEF dv
  <2>4. step \in Nat
    BY <1>1, <2>2 DEF NoObtuseAngle
  <2> HIDE DEF step
  <2>. QED BY <1>1, <1>3, <2>3, <2>4 DEF Beyond, IsBeyond, Abs
<1>. QED BY <1>2, <1>3 DEF Candidates

LEMMA PhiNewIs ==
  ASSUME NoObtuseAngle(Int), NEW p \in Dof, NEW n \in Neighbors[p],
         NEW w \in [Dof -> Int], NEW st
  PROVE  /\ PhiNew(p, n, w, st) \in Candidates(p, n, w, st)
         /\ \A x \in Candidates(p, n, w, st) : Abs(PhiNew(p, n, w, st)) <= Abs(x)
         /\ IsBeyond(PhiNew(p, n, w, st), w[p])
<1> DEFINE C == Candidates(p, n, w, st)
           S == {Abs(x) : x \in C}
<1>1. \A x \in C : IsBeyond(x, w[p])
  BY CandidatesAre
<1>2. C # {} /\ C \in SUBSET Int
  BY <1>1 DEF Candidates, IsBeyond
<1>3. PhiNew(p, n, w, st) = CHOOSE x \in C : \A y \in C : Abs(x) <= Abs(y)
  BY DEF PhiNew, Candidates
<1> HIDE DEF C
<1>4. S \in SUBSET Nat /\ S # {}
  <2>1. \A x \in C : Abs(x) \in Nat
    BY <1>2 DEF Abs
  <2>. QED BY <1>2, <2>1
<1>5. PICK m \in S : \A k \in S : m <= k
  <2> HIDE DEF S
  <2>. QED BY <1>4, LeastNatural
<1>6. \E x \in C : \A y \in C : Abs(x) <= Abs(y)
  BY <1>5
<1>7. /\ PhiNew(p, n, w, st) \in C
      /\ \A y \in C : Abs(PhiNew(p, n, w, st)) <= Abs(y)
  BY <1>3, <1>6
<1>. QED BY <1>1, <1>7 DEF C

-----------------------------------------------------------------------------
(* The candidates of all the neighbours of p enter the heap                *)

Offers(open, p, w, st, h, offered) ==
  offered = [k \in 0 .. NDof |->
               IF k = 0 THEN h
               ELSE IF k - 1 \notin open THEN offered[k - 1]
               ELSE Change(offered[k - 1], <<PhiNew(p, k - 1, w, st), Index(k - 1)>>)]

LEMMA IndexIs ==
  ASSUME NEW d \in Dof
  PROVE  Index(d) \in Dof /\ (NDof <= IndexModulus => Index(d) = d)
<1>1. d \in Nat /\ IndexModulus \in Nat \ {0} /\ NDof \in Nat /\ d < NDof
  BY GeometryAssumption DEF Dof
<1>2. d % IndexModulus \in Nat /\ d % IndexModulus <= d /\ (d < IndexModulus => d % IndexModulus = d)
  BY <1>1
<1>. QED BY <1>1, <1>2 DEF Index, Dof

LEMMA OffersExists ==
  ASSUME NoObtuseAngle(Int), NEW p \in Dof, NEW w \in [Dof -> Int], NEW st,
         NEW open \in SUBSET Neighbors[p], NEW h \in Seq(Entry)
  PROVE  \E offered : Offers(open, p, w, st, h, offered) /\ Offer(open, p, w, st, h) = offered[NDof]
<1> DEFINE V == Seq(Entry)
           D == 0 .. NDof
           Stop == {k \in D : k = 0}
           in(k) == <<PhiNew(p, k - 1, w, st), Index(k - 1)>>
           base == [k \in D |-> h]
           prev == [k \in D |-> IF k = 0 THEN 0 ELSE k - 1]
           put == [ks \in D \X V |-> IF ks[1] - 1 \notin open THEN ks[2] ELSE Change(ks[2], in(ks[1]))]
           rank == [k \in D |-> k]
<1>1. NDof \in Nat
  BY GeometryAssumption
<1>2. base \in [D -> V] /\ prev \in [D -> D] /\ rank \in [D -> 0 .. NDof] /\ Stop \in SUBSET D
  BY <1>1
<1>3. put \in [D \X V -> V]
  <2>1. ASSUME NEW k \in D, NEW s \in V, k - 1 \in open PROVE Change(s, in(k)) \in V
    <3>1. k - 1 \in Neighbors[p] /\ k - 1 \in Dof
      BY <2>1, NeighborsAre
    <3>2. in(k) \in Entry
      <4>1. PhiNew(p, k - 1, w, st) \in Int
        BY <3>1, PhiNewIs DEF IsBeyond
      <4>2. Index(k - 1) \in Nat
        BY <3>1, IndexIs DEF Dof
      <4>. QED BY <4>1, <4>2 DEF Entry
    <3> HIDE DEF in
    <3>. QED BY <3>2, ChangeIs
  <2> HIDE DEF D, V, in
  <2>. QED BY <2>1
<1>4. \A k \in D \ Stop : rank[prev[k]] < rank[k]
  BY <1>1
<1>5. PICK o \in [D -> V] : Recursive(D, Stop, base, prev, put, o)
  <2> HIDE DEF D, V, Stop, base, prev, put, rank
  <2>. QED BY <1>1, <1>2, <1>3, <1>4, RecursionExists
<1>6. ASSUME NEW k \in D
      PROVE  (IF k \in Stop THEN base[k] ELSE put[<<k, o[prev[k]]>>])
               = IF k = 0 THEN h
                 ELSE IF k - 1 \notin open THEN o[k - 1]
                 ELSE Change(o[k - 1], in(k))
  <2> HIDE DEF in
  <2>1. CASE k = 0
    BY <2>1
  <2>2. CASE k # 0
    <3>1. prev[k] = k - 1 /\ k - 1 \in D /\ o[k - 1] \in V
      BY <1>1, <2>2
    <3>2. put[<<k, o[k - 1]>>] = IF k - 1 \notin open THEN o[k - 1] ELSE Change(o[k - 1], in(k))
      BY <3>1
    <3>. QED BY <2>2, <3>1, <3>2
  <2>. QED BY <2>1, <2>2
<1>7. o = [k \in D |-> IF k = 0 THEN h
                       ELSE IF k - 1 \notin open THEN o[k - 1]
                       ELSE Change(o[k - 1], in(k))]
  <2> HIDE DEF D, V, Stop, base, prev, put, in
  <2>. QED BY <1>5, <1>6 DEF Recursive
<1>8. \E f : Offers(open, p, w, st, h, f)
  BY <1>7 DEF Offers
<1>9. Offer(open, p, w, st, h) = (CHOOSE f : Offers(open, p, w, st, h, f))[NDof]
  BY DEF Offer, Offers
<1>. QED BY <1>8, <1>9

(* What p has to say of n is no reason to stay farther away                *)
Candidate(p, n, w, st) == <<PhiNew(p, n, w, st), n>>

Offered(p, w, st, h, g, open) ==
  /\ Once(g)
  /\ \A e \in Content(g) : e \in Content(h) \/ (e[2] \in open /\ e = Candidate(p, e[2], w, st))
  /\ \A e \in Content(h) : e[2] \notin open => e \in Content(g)
  /\ \A n \in open : \E e \in Content(g) :
       /\ e[2] = n /\ ~Farther(e, Candidate(p, n, w, st))
       /\ \A d \in Content(h) : d[2] = n => ~Farther(e, d)

LEMMA OfferedMore ==
  ASSUME NEW p, NEW w, NEW st, NEW h, NEW g, NEW f, NEW open, NEW n, n \notin open,
         Offered(p, w, st, h, g, open), Improved(g, Candidate(p, n, w, st), f)
  PROVE  Offered(p, w, st, h, f, open \cup {n})
<1> DEFINE in == Candidate(p, n, w, st)
<1>1. in[2] = n
  BY DEF Candidate
<1> HIDE DEF in
<1>2. PICK best \in Content(g) \cup {in} :
        /\ best[2] = n /\ ~Farther(best, in)
        /\ \A e \in Content(g) : e[2] = n => ~Farther(best, e)
        /\ Content(f) = {e \in Content(g) : e[2] # n} \cup {best}
  BY <1>1 DEF Improved, in
<1>3. Once(f)
  BY DEF Improved
<1>4. ASSUME NEW e \in Content(f)
      PROVE  e \in Content(h) \/ (e[2] \in open \cup {n} /\ e = Candidate(p, e[2], w, st))
  <2>1. e \in Content(g) \/ e = in
    BY <1>2
  <2>2. CASE e = in
    BY <1>1, <2>2 DEF in
  <2>3. CASE e \in Content(g)
    BY <2>3 DEF Offered
  <2>. QED BY <2>1, <2>2, <2>3
<1>5. ASSUME NEW e \in Content(h), e[2] \notin open \cup {n} PROVE e \in Content(f)
  BY <1>2, <1>5 DEF Offered
<1>6. ASSUME NEW m \in open \cup {n}
      PROVE  \E e \in Content(f) :
               /\ e[2] = m /\ ~Farther(e, Candidate(p, m, w, st))
               /\ \A d \in Content(h) : d[2] = m => ~Farther(e, d)
  <2>1. CASE m = n
    <3>1. best \in Content(f) /\ best[2] = m /\ ~Farther(best, Candidate(p, m, w, st))
      BY <1>2, <2>1 DEF in
    <3>2. \A d \in Content(h) : d[2] = m => ~Farther(best, d)
      BY <1>2, <2>1 DEF Offered
    <3>. QED BY <3>1, <3>2
  <2>2. CASE m # n
    <3>1. PICK e \in Content(g) :
            /\ e[2] = m /\ ~Farther(e, Candidate(p, m, w, st))
            /\ \A d \in Content(h) : d[2] = m => ~Farther(e, d)
      BY <2>2 DEF Offered
    <3>2. e \in Content(f)
      BY <1>2, <2>2, <3>1
    <3>. QED BY <3>1, <3>2
  <2>. QED BY <2>1, <2>2
<1>. QED BY <1>3, <1>4, <1>5, <1>6 DEF Offered

(* The entries of the heap are for dofs                                    *)
IsTyped(h) == h \in Seq(Entry) /\ Content(h) \subseteq Int \X Dof

LEMMA OfferIs ==
  ASSUME NoObtuseAngle(Int), NEW p \in Dof, NEW w \in [Dof -> Int], NEW st,
         NEW open \in SUBSET Neighbors[p], NEW h, IsTyped(h)
  PROVE  /\ IsTyped(Offer(open, p, w, st, h))
         /\ IsHeap(h) => IsHeap(Offer(open, p, w, st, h))
         /\ Once(h) /\ NDof <= IndexModulus => Offered(p, w, st, h, Offer(open, p, w, st, h), open)
<1>1. PICK o : Offers(open, p, w, st, h, o) /\ Offer(open, p, w, st, h) = o[NDof]
  BY OffersExists DEF IsTyped
<1> DEFINE low(k) == {n \in open : n < k}
           P(k) == /\ IsTyped(o[k])
                   /\ IsHeap(h) => IsHeap(o[k])
                   /\ Once(h) /\ NDof <= IndexModulus => Offered(p, w, st, h, o[k], low(k))
           Good == {k \in 1 .. NDof + 1 : P(k - 1)}
<1>2. NDof \in Nat /\ open \subseteq Dof /\ \A n \in open : n \in Nat /\ n < NDof
  BY GeometryAssumption, NeighborsAre DEF Dof
<1>3. P(0)
  <2>1. o[0] = h
    BY <1>1, <1>2 DEF Offers
  <2>2. low(0) = {}
    BY <1>2
  <2>3. Once(h) => Offered(p, w, st, h, h, {})
    BY DEF Offered
  <2> HIDE DEF low
  <2>. QED BY <2>1, <2>2, <2>3
<1>4. ASSUME NEW k \in 1 .. NDof, P(k - 1) PROVE P(k)
  <2> DEFINE b == o[k - 1]
             n == k - 1
             in == <<PhiNew(p, n, w, st), Index(n)>>
  <2>1. o[k] = IF n \notin open THEN b ELSE Change(b, in)
    BY <1>1, <1>2 DEF Offers
  <2>2. n \notin low(n)
    BY <1>2
  <2>3. CASE n \notin open
    <3>1. low(k) = low(n)
      BY <1>2, <2>3
    <3> HIDE DEF low
    <3>. QED BY <1>4, <2>1, <2>3, <3>1
  <2>4. CASE n \in open
    <3>1. low(k) = low(n) \cup {n}
      BY <1>2, <2>4
    <3>2. n \in Neighbors[p] /\ n \in Dof
      BY <1>2, <2>4
    <3>3. Index(n) \in Dof /\ (NDof <= IndexModulus => Index(n) = n)
      BY <3>2, IndexIs
    <3>4. PhiNew(p, n, w, st) \in Int
      BY <3>2, PhiNewIs DEF IsBeyond
    <3>5. in \in Entry /\ in \in Int \X Dof /\ (NDof <= IndexModulus => in = Candidate(p, n, w, st))
      BY <3>3, <3>4 DEF Entry, Dof, Candidate
    <3>6. /\ IsTyped(b)
          /\ IsHeap(h) => IsHeap(b)
          /\ Once(h) /\ NDof <= IndexModulus => Offered(p, w, st, h, b, low(n))
      <4> HIDE DEF low
      <4>. QED BY <1>4
    <3> HIDE DEF in, b, n, low
    <3>7. /\ Change(b, in) \in Seq(Entry) /\ Content(Change(b, in)) \subseteq Content(b) \cup {in}
          /\ IsHeap(b) => IsHeap(Change(b, in))
          /\ Once(b) => Improved(b, in, Change(b, in))
      BY <3>5, <3>6, ChangeIs DEF IsTyped
    <3>8. IsTyped(Change(b, in))
      BY <3>5, <3>6, <3>7 DEF IsTyped
    <3>9. ASSUME Once(h), NDof <= IndexModulus
          PROVE  Offered(p, w, st, h, Change(b, in), low(n) \cup {n})
      <4>1. Offered(p, w, st, h, b, low(n)) /\ Once(b) /\ in = Candidate(p, n, w, st)
        BY <3>5, <3>6, <3>9 DEF Offered
      <4>. QED BY <2>2, <3>7, <4>1, OfferedMore
    <3>10. o[k] = Change(b, in)
      BY <2>1, <2>4
    <3>. QED BY <3>1, <3>6, <3>7, <3>8, <3>9, <3>10
  <2>. QED BY <2>3, <2>4
<1>5. \A k \in 1 .. NDof + 1 : k \in Good
  <2>1. ASSUME NEW k \in 1 .. NDof + 1, \A l \in 1 .. k - 1 : l \in Good PROVE k \in Good
    <3>1. CASE k = 1
      <4> HIDE DEF P
      <4>. QED BY <1>3, <3>1
    <3>2. CASE k # 1
      <4>1. k - 1 \in 1 .. k - 1 /\ k - 1 \in 1 .. NDof
        BY <1>2, <3>2
      <4>2. P((k - 1) - 1)
        <5> HIDE DEF P
        <5>. QED BY <2>1, <4>1
      <4>3. P(k - 1)
        <5> HIDE DEF P
        <5>. QED BY <1>4, <4>1, <4>2
      <4> HIDE DEF P
      <4>. QED BY <4>3
    <3>. QED BY <3>1, <3>2
  <2>2. NDof + 1 \in Int
    BY <1>2
  <2> HIDE DEF Good
  <2>. QED BY <2>1, <2>2, UpTo
<1>6. P(NDof)
  <2>1. NDof + 1 \in 1 .. NDof + 1 /\ (NDof + 1) - 1 = NDof
    BY <1>2
  <2> HIDE DEF P
  <2>. QED BY <1>5, <2>1
<1>7. low(NDof) = open
  BY <1>2
<1> HIDE DEF low
<1>. QED BY <1>1, <1>6, <1>7

-----------------------------------------------------------------------------
(* What a state promises: the function f to reinitialise, the values w,    *)
(* the statuses st, the heap h                                             *)

Status == {DONE, CLOSE, FAR}

Shaped(w, st, h) == w \in [Dof -> Int] /\ st \in [Dof -> Status] /\ IsTyped(h)

(* The heap holds each close dof once and nothing else                     *)
Holds(st, h) ==
  /\ Once(h)
  /\ \A e \in Content(h) : st[e[2]] = CLOSE
  /\ \A d \in Dof : st[d] = CLOSE => \E e \in Content(h) : e[2] = d

(* The neighbours of a done dof were offered, but for those in todo        *)
Reached(st, todo) ==
  \A d \in Dof \ todo : st[d] = DONE => \A n \in Neighbors[d] : st[n] # FAR

Cells(f) == UNION {c \in Cell : Cut(c, f)}

SameSign(x, y) == (x > 0 <=> y > 0) /\ (x < 0 <=> y < 0)

(* Done dofs and candidates have the sign of the function                  *)
Signed(f, w, st, h) ==
  /\ \A d \in Cells(f) : st[d] = DONE
  /\ \A d \in Dof : st[d] = DONE => SameSign(w[d], f[d])
  /\ \A e \in Content(h) : SameSign(e[1], f[e[2]])

OpenTo(p, st) == {n \in Neighbors[p] : st[n] # DONE}

Updated(p, w, st, h, u) ==
  /\ Shaped(u.v, u.status, u.heap) /\ u.v = w
  /\ OpenTo(p, st) \subseteq Dof
  /\ \A n \in Dof : u.status[n] = IF n \in OpenTo(p, st) THEN CLOSE ELSE st[n]
  /\ IsHeap(h) => IsHeap(u.heap)
  /\ Once(h) /\ NDof <= IndexModulus => Offered(p, w, st, h, u.heap, OpenTo(p, st))

LEMMA UpdateIs ==
  ASSUME NoObtuseAngle(Int), NEW p \in Dof, NEW w, NEW st, NEW h, Shaped(w, st, h),
         NEW u, u = FmsHeapUpdate(p, w, st, h)
  PROVE  Updated(p, w, st, h, u)
<1>1. /\ u.v = w /\ u.heap = Offer(OpenTo(p, st), p, w, st, h)
      /\ u.status = [n \in Dof |-> IF n \in OpenTo(p, st) THEN CLOSE ELSE st[n]]
  BY DEF FmsHeapUpdate, OpenTo
<1>2. OpenTo(p, st) \subseteq Neighbors[p] /\ OpenTo(p, st) \subseteq Dof
  BY NeighborsAre DEF OpenTo
<1>3. u.status \in [Dof -> Status]
  BY <1>1 DEF Shaped, Status
<1>4. /\ IsTyped(u.heap)
      /\ IsHeap(h) => IsHeap(u.heap)
      /\ Once(h) /\ NDof <= IndexModulus => Offered(p, w, st, h, u.heap, OpenTo(p, st))
  BY <1>1, <1>2, OfferIs DEF Shaped
<1>. QED BY <1>1, <1>2, <1>3, <1>4 DEF Shaped, Updated

LEMMA UpdateHolds ==
  ASSUME NoObtuseAngle(Int), NDof <= IndexModulus,
         NEW p \in Dof, NEW w, NEW st, NEW h, Shaped(w, st, h), Holds(st, h),
         NEW u, u = FmsHeapUpdate(p, w, st, h)
  PROVE  Holds(u.status, u.heap)
<1>1. /\ OpenTo(p, st) \subseteq Dof
      /\ \A n \in Dof : u.status[n] = IF n \in OpenTo(p, st) THEN CLOSE ELSE st[n]
      /\ Offered(p, w, st, h, u.heap, OpenTo(p, st))
      /\ IsTyped(u.heap)
  <2>1. Updated(p, w, st, h, u)
    BY UpdateIs
  <2>. QED BY <2>1 DEF Updated, Holds, Shaped
<1>2. ASSUME NEW e \in Content(u.heap) PROVE u.status[e[2]] = CLOSE
  <2>1. e[2] \in Dof
    BY <1>1 DEF IsTyped
  <2>2. e \in Content(h) \/ e[2] \in OpenTo(p, st)
    BY <1>1 DEF Offered
  <2>. QED BY <1>1, <2>1, <2>2 DEF Holds
<1>3. ASSUME NEW d \in Dof, u.status[d] = CLOSE PROVE \E e \in Content(u.heap) : e[2] = d
  <2>1. CASE d \in OpenTo(p, st)
    BY <1>1, <2>1 DEF Offered
  <2>2. CASE d \notin OpenTo(p, st)
    BY <1>1, <1>3, <2>2 DEF Offered, Holds
  <2>. QED BY <2>1, <2>2
<1>. QED BY <1>1, <1>2, <1>3 DEF Holds, Offered

LEMMA UpdateReaches ==
  ASSUME NoObtuseAngle(Int),
         NEW p \in Dof, NEW w, NEW st, NEW h, Shaped(w, st, h),
         NEW todo, Reached(st, todo),
         NEW u, u = FmsHeapUpdate(p, w, st, h)
  PROVE  Reached(u.status, todo \ {p})
<1>1. /\ OpenTo(p, st) \subseteq Dof
      /\ \A n \in Dof : u.status[n] = IF n \in OpenTo(p, st) THEN CLOSE ELSE st[n]
  <2>1. Updated(p, w, st, h, u)
    BY UpdateIs
  <2>. QED BY <2>1 DEF Updated
<1>2. ASSUME NEW d \in Dof \ (todo \ {p}), u.status[d] = DONE, NEW n \in Neighbors[d]
      PROVE  u.status[n] # FAR
  <2>1. st[d] = DONE /\ n \in Dof
    BY <1>1, <1>2, NeighborsAre DEF DONE, CLOSE
  <2>2. CASE d = p
    BY <1>1, <2>1, <2>2 DEF OpenTo, DONE, CLOSE, FAR
  <2>3. CASE d # p
    <3>1. st[n] # FAR
      BY <1>2, <2>1, <2>3 DEF Reached
    <3>. QED BY <1>1, <2>1, <3>1 DEF CLOSE, FAR
  <2>. QED BY <2>2, <2>3
<1>. QED BY <1>2 DEF Reached

(* Away from the interface, a dof and its neighbours have the same sign    *)
LEMMA NeighborsSameSign ==
  ASSUME NEW f \in [Dof -> Int], NEW p \in Dof, NEW n \in Neighbors[p], n \notin Cells(f)
  PROVE  f[p] # 0 /\ f[n] # 0 /\ SameSign(f[p], f[n])
<1>1. PICK c \in Cell : p \in c /\ n \in c
  BY NeighborsAre
<1>2. ~Cut(c, f) /\ n \in Dof /\ f[p] \in Int /\ f[n] \in Int
  BY <1>1, NeighborsAre DEF Cells
<1>. QED BY <1>1, <1>2 DEF Cut, SameSign

LEMMA UpdateSigned ==
  ASSUME NoObtuseAngle(Int), NDof <= IndexModulus, NEW f \in [Dof -> Int],
         NEW p \in Dof, NEW w, NEW st, NEW h, Shaped(w, st, h), Holds(st, h),
         Signed(f, w, st, h), st[p] = DONE,
         NEW u, u = FmsHeapUpdate(p, w, st, h)
  PROVE  Signed(f, u.v, u.status, u.heap)
<1>1. /\ OpenTo(p, st) \subseteq Dof /\ u.v = w
      /\ \A n \in Dof : u.status[n] = IF n \in OpenTo(p, st) THEN CLOSE ELSE st[n]
      /\ Offered(p, w, st, h, u.heap, OpenTo(p, st))
  <2>1. Updated(p, w, st, h, u)
    BY UpdateIs
  <2>. QED BY <2>1 DEF Updated, Holds
<1>2. \A d \in Dof : st[d] = DONE <=> u.status[d] = DONE
  BY <1>1 DEF OpenTo, DONE, CLOSE
<1>3. Cells(f) \subseteq Dof
  BY GeometryAssumption DEF Cells
<1>4. ASSUME NEW e \in Content(u.heap) PROVE SameSign(e[1], f[e[2]])
  <2>1. CASE e \in Content(h)
    BY <2>1 DEF Signed
  <2>2. CASE e[2] \in OpenTo(p, st) /\ e = Candidate(p, e[2], w, st)
    <3> DEFINE n == e[2]
    <3>1. n \in Neighbors[p] /\ n \in Dof /\ n \notin Cells(f)
      BY <2>2, NeighborsAre DEF OpenTo, Signed
    <3>2. f[p] # 0 /\ f[n] # 0 /\ SameSign(f[p], f[n])
      BY <3>1, NeighborsSameSign
    <3>3. SameSign(w[p], f[p])
      BY DEF Signed
    <3>4. IsBeyond(PhiNew(p, n, w, st), w[p])
      BY <3>1, PhiNewIs DEF Shaped
    <3>5. e[1] = PhiNew(p, n, w, st)
      BY <2>2 DEF Candidate
    <3>6. w[p] \in Int /\ f[p] \in Int /\ f[n] \in Int
      BY <3>1 DEF Shaped
    <3> HIDE DEF n
    <3>7. SameSign(e[1], f[n])
      BY <3>2, <3>3, <3>4, <3>5, <3>6 DEF SameSign, IsBeyond
    <3>. QED BY <3>7 DEF n
  <2>. QED BY <1>1, <2>1, <2>2 DEF Offered
<1>. QED BY <1>1, <1>2, <1>3, <1>4 DEF Signed

-----------------------------------------------------------------------------
(* A dof d is done, with the value x, and leaves the heap                  *)

Leaves(d, h, g) ==
  /\ IsTyped(g) /\ Content(g) \subseteq Content(h)
  /\ Once(h) => Once(g) /\ Content(g) = {e \in Content(h) : e[2] # d}

LEMMA FirstLeaves ==
  ASSUME NEW h, IsTyped(h), h # << >>
  PROVE  /\ h[1] \in Content(h) /\ h[1][2] \in Dof /\ h[1][1] \in Int
         /\ Leaves(h[1][2], h, PopHeap(h))
<1>1. h[1] \in Content(h)
  <2>1. Len(h) \in Nat \ {0}
    BY DEF IsTyped
  <2>. QED BY <2>1 DEF Content
<1>2. h[1] \in Int \X Dof
  BY <1>1 DEF IsTyped
<1>3. /\ PopHeap(h) \in Seq(Entry) /\ Content(PopHeap(h)) \subseteq Content(h)
      /\ Once(h) => Once(PopHeap(h)) /\ Content(PopHeap(h)) = Content(h) \ {h[1]}
  BY PopIs DEF IsTyped
<1>4. ASSUME Once(h) PROVE Content(h) \ {h[1]} = {e \in Content(h) : e[2] # h[1][2]}
  <2>1. \A e \in Content(h) : e[2] = h[1][2] => e = h[1]
    <3>1. 1 \in 1 .. Len(h)
      BY DEF IsTyped
    <3>. QED BY <1>4, <3>1 DEF Once, Content
  <2>. QED BY <2>1
<1>5. IsTyped(PopHeap(h))
  BY <1>3 DEF IsTyped
<1>. QED BY <1>1, <1>2, <1>3, <1>4, <1>5 DEF Leaves

LEMMA ErasedLeaves ==
  ASSUME NEW h, IsTyped(h), NEW d
  PROVE  Leaves(d, h, RemoveFromHeap(h, d))
<1>1. /\ RemoveFromHeap(h, d) \in Seq(Entry) /\ Content(RemoveFromHeap(h, d)) \subseteq Content(h)
      /\ Once(h) => /\ Once(RemoveFromHeap(h, d))
                    /\ Content(RemoveFromHeap(h, d)) = {e \in Content(h) : e[2] # d}
  BY RemoveIs DEF IsTyped
<1>2. IsTyped(RemoveFromHeap(h, d))
  BY <1>1 DEF IsTyped
<1>. QED BY <1>1, <1>2 DEF Leaves

MarkedDone(w, st, h, d, x, g, a, b) ==
  /\ Shaped(a, b, g)
  /\ Holds(st, h) => Holds(b, g)
  /\ \A todo : Reached(st, todo) => Reached(b, todo \cup {d})
  /\ \A f : Signed(f, w, st, h) /\ SameSign(x, f[d]) /\ Cells(f) \subseteq Dof
              => Signed(f, a, b, g)
  /\ b[d] = DONE

LEMMA DoneIs ==
  ASSUME NEW w, NEW st, NEW h, Shaped(w, st, h), NEW d \in Dof, NEW x \in Int,
         NEW g, Leaves(d, h, g),
         NEW a, a = [w EXCEPT ![d] = x], NEW b, b = [st EXCEPT ![d] = DONE]
  PROVE  MarkedDone(w, st, h, d, x, g, a, b)
<1>1. /\ a \in [Dof -> Int] /\ a[d] = x /\ \A k \in Dof : k # d => a[k] = w[k]
      /\ b \in [Dof -> Status] /\ b[d] = DONE /\ \A k \in Dof : k # d => b[k] = st[k]
  BY DEF Shaped, Status
<1>2. Shaped(a, b, g)
  BY <1>1 DEF Shaped, Leaves
<1>3. ASSUME Holds(st, h) PROVE Holds(b, g)
  <2>1. Once(g) /\ Content(g) = {e \in Content(h) : e[2] # d} /\ Content(g) \subseteq Int \X Dof
    BY <1>3 DEF Leaves, Holds, IsTyped
  <2>2. \A e \in Content(g) : b[e[2]] = CLOSE
    BY <1>1, <1>3, <2>1 DEF Holds
  <2>3. ASSUME NEW k \in Dof, b[k] = CLOSE PROVE \E e \in Content(g) : e[2] = k
    <3>1. k # d /\ st[k] = CLOSE
      BY <1>1, <2>3 DEF DONE, CLOSE
    <3>. QED BY <1>3, <2>1, <3>1 DEF Holds
  <2>. QED BY <2>1, <2>2, <2>3 DEF Holds
<1>4. ASSUME NEW todo, Reached(st, todo) PROVE Reached(b, todo \cup {d})
  <2>1. ASSUME NEW k \in Dof \ (todo \cup {d}), b[k] = DONE, NEW n \in Neighbors[k]
        PROVE  b[n] # FAR
    <3>1. n \in Dof /\ st[k] = DONE /\ k \in Dof \ todo
      BY <1>1, <2>1, NeighborsAre
    <3>2. st[n] # FAR
      BY <1>4, <3>1 DEF Reached
    <3>. QED BY <1>1, <3>1, <3>2 DEF DONE, FAR
  <2>. QED BY <2>1 DEF Reached
<1>5. ASSUME NEW f, Signed(f, w, st, h), SameSign(x, f[d]), Cells(f) \subseteq Dof
      PROVE  Signed(f, a, b, g)
  <2>1. \A k \in Cells(f) : b[k] = DONE
    BY <1>1, <1>5 DEF Signed
  <2>2. \A k \in Dof : b[k] = DONE => SameSign(a[k], f[k])
    BY <1>1, <1>5 DEF Signed
  <2>3. \A e \in Content(g) : SameSign(e[1], f[e[2]])
    BY <1>5 DEF Signed, Leaves
  <2>. QED BY <2>1, <2>2, <2>3 DEF Signed
<1>. QED BY <1>1, <1>2, <1>3, <1>4, <1>5 DEF MarkedDone

-----------------------------------------------------------------------------
(* The steps                                                               *)

TypeOK ==
  /\ phi \in LevelSets
  /\ done \subseteq {d \in Dof : status[d] = DONE}
  /\ Shaped(v, status, heap)

Queued == Holds(status, heap) /\ Reached(status, done)

LEMMA TypeInit == ASSUME Init PROVE TypeOK /\ IsHeap(heap) /\ Queued /\ Signed(phi, v, status, heap)
<1>1. phi \in LevelSets /\ LevelSets \subseteq [Dof -> Int] /\ Cell \subseteq SUBSET Dof
  BY GeometryAssumption DEF Init
<1>2. Interface = Cells(phi) /\ Interface \subseteq Dof /\ done = Interface
  BY <1>1 DEF Interface, Cells, Init
<1>3. /\ status \in [Dof -> Status] /\ v \in [Dof -> Int]
      /\ \A d \in Dof : status[d] = IF d \in Interface THEN DONE ELSE FAR
      /\ \A d \in Interface : v[d] = phi[d]
  BY <1>1, <1>2 DEF Init, Status
<1>4. heap \in Seq(Entry) /\ Len(heap) = 0 /\ Content(heap) = {}
  BY DEF Init, Content
<1>5. TypeOK
  BY <1>1, <1>2, <1>3, <1>4 DEF TypeOK, Shaped, IsTyped
<1>6. IsHeap(heap)
  BY <1>4 DEF IsHeap, OrderedBelow
<1>7. Holds(status, heap)
  BY <1>3, <1>4 DEF Holds, Once, DONE, CLOSE, FAR
<1>8. Reached(status, done)
  BY <1>2, <1>3 DEF Reached, DONE, FAR
<1>9. Signed(phi, v, status, heap)
  BY <1>1, <1>2, <1>3, <1>4 DEF Signed, SameSign, DONE, FAR
<1>. QED BY <1>5, <1>6, <1>7, <1>8, <1>9 DEF Queued

(* The first done dof of the set                                           *)
LEMMA SeedIs ==
  ASSUME TypeOK, Seed
  PROVE  \E p \in done : \E u :
           /\ u = FmsHeapUpdate(p, v, status, heap)
           /\ done' = done \ {p} /\ status' = u.status /\ heap' = u.heap
           /\ phi' = phi /\ v' = v
<1>1. done \in SUBSET Nat /\ done # {}
  BY DEF TypeOK, Dof, Seed
<1>2. \E x \in done : \A y \in done : x <= y
  BY <1>1, LeastNatural
<1>3. (CHOOSE x \in done : \A y \in done : x <= y) \in done
  BY <1>2
<1>. QED BY <1>3 DEF Seed

LEMMA SeedType ==
  ASSUME NoObtuseAngle(Int), TypeOK, Seed
  PROVE  TypeOK' /\ (IsHeap(heap) => IsHeap(heap'))
<1>1. PICK p \in done : \E u :
        /\ u = FmsHeapUpdate(p, v, status, heap)
        /\ done' = done \ {p} /\ status' = u.status /\ heap' = u.heap
        /\ phi' = phi /\ v' = v
  BY SeedIs
<1>2. PICK u : /\ u = FmsHeapUpdate(p, v, status, heap)
               /\ done' = done \ {p} /\ status' = u.status /\ heap' = u.heap
               /\ phi' = phi /\ v' = v
  BY <1>1
<1>3. p \in Dof /\ Shaped(v, status, heap)
  BY <1>1 DEF TypeOK
<1>4. Updated(p, v, status, heap, u)
  BY <1>2, <1>3, UpdateIs
<1>5. \A d \in Dof : status[d] = DONE => u.status[d] = DONE
  BY <1>4 DEF Updated, OpenTo
<1>6. TypeOK'
  BY <1>2, <1>4, <1>5 DEF TypeOK, Updated
<1>. QED BY <1>2, <1>4, <1>6 DEF Updated

LEMMA SeedQueued ==
  ASSUME NoObtuseAngle(Int), NDof <= IndexModulus, TypeOK, Queued, Seed
  PROVE  Queued' /\ (Signed(phi, v, status, heap) => Signed(phi, v, status, heap)')
<1>1. PICK p \in done : \E u :
        /\ u = FmsHeapUpdate(p, v, status, heap)
        /\ done' = done \ {p} /\ status' = u.status /\ heap' = u.heap
        /\ phi' = phi /\ v' = v
  BY SeedIs
<1>2. PICK u : /\ u = FmsHeapUpdate(p, v, status, heap)
               /\ done' = done \ {p} /\ status' = u.status /\ heap' = u.heap
               /\ phi' = phi /\ v' = v
  BY <1>1
<1>3. p \in Dof /\ status[p] = DONE /\ Shaped(v, status, heap) /\ phi \in [Dof -> Int]
  BY <1>1, GeometryAssumption DEF TypeOK
<1>4. Holds(status, heap) /\ Reached(status, done)
  BY DEF Queued
<1>5. Holds(u.status, u.heap)
  BY <1>2, <1>3, <1>4, UpdateHolds
<1>6. Reached(u.status, done \ {p})
  BY <1>2, <1>3, <1>4, UpdateReaches
<1>7. ASSUME Signed(phi, v, status, heap) PROVE Signed(phi, u.v, u.status, u.heap)
  BY <1>2, <1>3, <1>4, <1>7, UpdateSigned
<1>8. u.v = v
  BY <1>2 DEF FmsHeapUpdate
<1>. QED BY <1>2, <1>5, <1>6, <1>7, <1>8 DEF Queued

(* A dof is accepted: it leaves the heap and its neighbours are offered    *)
Accepts(w, st, h, d, x, g, u) ==
  u = FmsHeapUpdate(d, [w EXCEPT ![d] = x], [st EXCEPT ![d] = DONE], g)

LEMMA AcceptIs ==
  ASSUME NoObtuseAngle(Int),
         NEW w, NEW st, NEW h, Shaped(w, st, h), NEW d \in Dof, NEW x \in Int,
         NEW g, Leaves(d, h, g), NEW u, Accepts(w, st, h, d, x, g, u)
  PROVE  Shaped(u.v, u.status, u.heap) /\ (IsHeap(g) => IsHeap(u.heap))
<1> DEFINE a == [w EXCEPT ![d] = x]
           b == [st EXCEPT ![d] = DONE]
<1>1. Shaped(a, b, g)
  <2>1. MarkedDone(w, st, h, d, x, g, a, b)
    BY DoneIs
  <2>. QED BY <2>1 DEF MarkedDone
<1>2. u = FmsHeapUpdate(d, a, b, g)
  BY DEF Accepts
<1> HIDE DEF a, b
<1>3. Updated(d, a, b, g, u)
  BY <1>1, <1>2, UpdateIs
<1>. QED BY <1>3 DEF Updated

LEMMA AcceptQueued ==
  ASSUME NoObtuseAngle(Int), NDof <= IndexModulus,
         NEW w, NEW st, NEW h, Shaped(w, st, h), NEW d \in Dof, NEW x \in Int,
         NEW g, Leaves(d, h, g), NEW u, Accepts(w, st, h, d, x, g, u),
         Holds(st, h), Reached(st, {})
  PROVE  /\ Holds(u.status, u.heap) /\ Reached(u.status, {})
         /\ \A f \in [Dof -> Int] :
              Signed(f, w, st, h) /\ SameSign(x, f[d]) => Signed(f, u.v, u.status, u.heap)
<1> DEFINE a == [w EXCEPT ![d] = x]
           b == [st EXCEPT ![d] = DONE]
<1>1. /\ Shaped(a, b, g) /\ Holds(b, g) /\ b[d] = DONE
      /\ \A todo : Reached(st, todo) => Reached(b, todo \cup {d})
      /\ \A f : Signed(f, w, st, h) /\ SameSign(x, f[d]) /\ Cells(f) \subseteq Dof
                  => Signed(f, a, b, g)
  <2>1. MarkedDone(w, st, h, d, x, g, a, b)
    BY DoneIs
  <2> HIDE DEF a, b
  <2>. QED BY <2>1 DEF MarkedDone
<1>2. u = FmsHeapUpdate(d, a, b, g)
  BY DEF Accepts
<1> HIDE DEF a, b
<1>3. Reached(b, {d})
  <2>1. Reached(b, {} \cup {d})
    BY <1>1
  <2>2. {} \cup {d} = {d}
    OBVIOUS
  <2>. QED BY <2>1, <2>2
<1>4. Reached(u.status, {d} \ {d})
  BY <1>1, <1>2, <1>3, UpdateReaches
<1>5. {d} \ {d} = {}
  OBVIOUS
<1>6. Holds(u.status, u.heap)
  BY <1>1, <1>2, UpdateHolds
<1>7. ASSUME NEW f \in [Dof -> Int], Signed(f, w, st, h), SameSign(x, f[d])
      PROVE  Signed(f, u.v, u.status, u.heap)
  <2>1. Cells(f) \subseteq Dof
    BY GeometryAssumption DEF Cells
  <2>2. Signed(f, a, b, g)
    BY <1>1, <1>7, <2>1
  <2>. QED BY <1>1, <1>2, <2>2, UpdateSigned
<1>8. Reached(u.status, {})
  BY <1>4, <1>5
<1>. QED BY <1>6, <1>7, <1>8

(* The closest dof is accepted, then its image if it has one               *)
LEMMA MarchIs ==
  ASSUME TypeOK, March
  PROVE  \E d \in Dof, x \in Int, s \in {Accepted(heap[1])} :
           /\ d = heap[1][2] /\ x = heap[1][1] /\ heap[1] \in Content(heap)
           /\ Leaves(d, heap, PopHeap(heap))
           /\ Accepts(v, status, heap, d, x, PopHeap(heap), s)
           /\ \/ d \notin DOMAIN Twin /\ v' = s.v /\ status' = s.status /\ heap' = s.heap
              \/ /\ d \in DOMAIN Twin
                 /\ \E r : /\ Accepts(s.v, s.status, s.heap, Twin[d], x,
                                      RemoveFromHeap(s.heap, Index(Twin[d])), r)
                           /\ v' = r.v /\ status' = r.status /\ heap' = r.heap
           /\ phi' = phi /\ done' = done /\ done = {}
<1> DEFINE top == heap[1]
           d == top[2]
           x == top[1]
           s == Accepted(top)
           r == UpdatePeriodicPoint(top, s)
<1>1. heap # << >> /\ IsTyped(heap)
  BY DEF March, TypeOK, Shaped
<1>2. /\ d \in Dof /\ x \in Int /\ top \in Content(heap)
      /\ Leaves(d, heap, PopHeap(heap))
  BY <1>1, FirstLeaves
<1>3. Accepts(v, status, heap, d, x, PopHeap(heap), s)
  BY DEF Accepted, Accepts
<1>4. /\ v' = r.v /\ status' = r.status /\ heap' = r.heap
      /\ phi' = phi /\ done' = done /\ done = {}
  BY DEF March
<1>5. d \notin DOMAIN Twin => r = s
  BY DEF UpdatePeriodicPoint
<1>6. d \in DOMAIN Twin => Accepts(s.v, s.status, s.heap, Twin[d], x,
                                   RemoveFromHeap(s.heap, Index(Twin[d])), r)
  BY DEF UpdatePeriodicPoint, Accepts
<1> HIDE DEF top, d, x, s, r
<1>7. \/ d \notin DOMAIN Twin /\ v' = s.v /\ status' = s.status /\ heap' = s.heap
      \/ /\ d \in DOMAIN Twin
         /\ Accepts(s.v, s.status, s.heap, Twin[d], x,
                    RemoveFromHeap(s.heap, Index(Twin[d])), r)
         /\ v' = r.v /\ status' = r.status /\ heap' = r.heap
  BY <1>4, <1>5, <1>6
<1>8. /\ d = heap[1][2] /\ x = heap[1][1] /\ heap[1] \in Content(heap)
      /\ s \in {Accepted(heap[1])}
  BY <1>2 DEF top, d, x, s
<1>. QED BY <1>2, <1>3, <1>4, <1>7, <1>8

LEMMA MarchType ==
  ASSUME NoObtuseAngle(Int), TypeOK, March
  PROVE  TypeOK' /\ (IsHeap(heap) /\ DOMAIN Twin = {} => IsHeap(heap'))
<1>1. PICK d \in Dof, x \in Int, s \in {Accepted(heap[1])} :
        /\ Leaves(d, heap, PopHeap(heap))
        /\ Accepts(v, status, heap, d, x, PopHeap(heap), s)
        /\ \/ d \notin DOMAIN Twin /\ v' = s.v /\ status' = s.status /\ heap' = s.heap
           \/ /\ d \in DOMAIN Twin
              /\ \E r : /\ Accepts(s.v, s.status, s.heap, Twin[d], x,
                                   RemoveFromHeap(s.heap, Index(Twin[d])), r)
                        /\ v' = r.v /\ status' = r.status /\ heap' = r.heap
        /\ phi' = phi /\ done' = done /\ done = {}
  BY MarchIs
<1>2. Shaped(v, status, heap) /\ IsTyped(heap) /\ heap # << >>
  BY DEF TypeOK, March, Shaped
<1>3. Shaped(s.v, s.status, s.heap) /\ (IsHeap(PopHeap(heap)) => IsHeap(s.heap))
  BY <1>1, <1>2, AcceptIs
<1>4. IsHeap(heap) => IsHeap(PopHeap(heap))
  BY <1>2, PopIs DEF IsTyped
<1>5. CASE d \notin DOMAIN Twin
  <2>1. v' = s.v /\ status' = s.status /\ heap' = s.heap
    BY <1>1, <1>5
  <2>2. TypeOK'
    BY <1>1, <1>3, <2>1 DEF TypeOK
  <2>. QED BY <1>3, <1>4, <2>1, <2>2
<1>6. CASE d \in DOMAIN Twin
  <2>1. PICK r : /\ Accepts(s.v, s.status, s.heap, Twin[d], x,
                            RemoveFromHeap(s.heap, Index(Twin[d])), r)
                 /\ v' = r.v /\ status' = r.status /\ heap' = r.heap
    BY <1>1, <1>6
  <2>2. Twin[d] \in Dof
    BY <1>6, GeometryAssumption
  <2> DEFINE i == Index(Twin[d])
             t == Twin[d]
  <2>3. IsTyped(RemoveFromHeap(s.heap, i))
    BY <1>3, ErasedLeaves DEF Shaped, Leaves
  <2>4. Shaped(r.v, r.status, r.heap)
    <3>1. Shaped([s.v EXCEPT ![t] = x], [s.status EXCEPT ![t] = DONE], RemoveFromHeap(s.heap, i))
      BY <1>3, <2>2, <2>3 DEF Shaped, Status
    <3>2. r = FmsHeapUpdate(t, [s.v EXCEPT ![t] = x], [s.status EXCEPT ![t] = DONE],
                            RemoveFromHeap(s.heap, i))
      BY <2>1 DEF Accepts
    <3>3. Updated(t, [s.v EXCEPT ![t] = x], [s.status EXCEPT ![t] = DONE],
                  RemoveFromHeap(s.heap, i), r)
      BY <2>2, <3>1, <3>2, UpdateIs
    <3>. QED BY <3>3 DEF Updated
  <2>5. TypeOK'
    BY <1>1, <2>1, <2>4 DEF TypeOK
  <2>. QED BY <1>6, <2>5
<1>. QED BY <1>5, <1>6

(* Images have the same sign in the functions to reinitialise              *)
PeriodicSigns ==
  \A f \in LevelSets : \A d \in DOMAIN Twin : SameSign(f[Twin[d]], f[d])

LEMMA MarchQueued ==
  ASSUME NoObtuseAngle(Int), NDof <= IndexModulus, TypeOK, Queued, March
  PROVE  /\ Queued'
         /\ PeriodicSigns /\ Signed(phi, v, status, heap) => Signed(phi, v, status, heap)'
<1>1. PICK d \in Dof, x \in Int, s \in {Accepted(heap[1])} :
        /\ d = heap[1][2] /\ x = heap[1][1] /\ heap[1] \in Content(heap)
        /\ Leaves(d, heap, PopHeap(heap))
        /\ Accepts(v, status, heap, d, x, PopHeap(heap), s)
        /\ \/ d \notin DOMAIN Twin /\ v' = s.v /\ status' = s.status /\ heap' = s.heap
           \/ /\ d \in DOMAIN Twin
              /\ \E r : /\ Accepts(s.v, s.status, s.heap, Twin[d], x,
                                   RemoveFromHeap(s.heap, Index(Twin[d])), r)
                        /\ v' = r.v /\ status' = r.status /\ heap' = r.heap
        /\ phi' = phi /\ done' = done /\ done = {}
  BY MarchIs
<1>2. Shaped(v, status, heap) /\ phi \in [Dof -> Int] /\ phi \in LevelSets
  BY GeometryAssumption DEF TypeOK
<1>3. Holds(status, heap) /\ Reached(status, {})
  BY <1>1 DEF Queued
<1>4. Shaped(s.v, s.status, s.heap)
  BY <1>1, <1>2, AcceptIs
<1>5. /\ Holds(s.status, s.heap) /\ Reached(s.status, {})
      /\ Signed(phi, v, status, heap) /\ SameSign(x, phi[d]) => Signed(phi, s.v, s.status, s.heap)
  BY <1>1, <1>2, <1>3, AcceptQueued
<1>6. Signed(phi, v, status, heap) => SameSign(x, phi[d])
  BY <1>1 DEF Signed
<1>7. CASE d \notin DOMAIN Twin
  <2>1. v' = s.v /\ status' = s.status /\ heap' = s.heap
    BY <1>1, <1>7
  <2>. QED BY <1>1, <1>5, <1>6, <2>1 DEF Queued
<1>8. CASE d \in DOMAIN Twin
  <2>1. PICK r : /\ Accepts(s.v, s.status, s.heap, Twin[d], x,
                            RemoveFromHeap(s.heap, Index(Twin[d])), r)
                 /\ v' = r.v /\ status' = r.status /\ heap' = r.heap
    BY <1>1, <1>8
  <2>2. Twin[d] \in Dof /\ Index(Twin[d]) = Twin[d]
    BY <1>8, GeometryAssumption, IndexIs
  <2>3. Leaves(Twin[d], s.heap, RemoveFromHeap(s.heap, Twin[d]))
    BY <1>4, ErasedLeaves DEF Shaped
  <2>4. Accepts(s.v, s.status, s.heap, Twin[d], x, RemoveFromHeap(s.heap, Twin[d]), r)
    BY <2>1, <2>2
  <2>5. /\ Holds(r.status, r.heap) /\ Reached(r.status, {})
        /\ Signed(phi, s.v, s.status, s.heap) /\ SameSign(x, phi[Twin[d]])
             => Signed(phi, r.v, r.status, r.heap)
    BY <1>2, <1>4, <1>5, <2>2, <2>3, <2>4, AcceptQueued
  <2>6. PeriodicSigns /\ SameSign(x, phi[d]) => SameSign(x, phi[Twin[d]])
    BY <1>2, <1>8 DEF PeriodicSigns, SameSign
  <2>. QED BY <1>1, <1>5, <1>6, <2>1, <2>5, <2>6 DEF Queued
<1>. QED BY <1>7, <1>8

-----------------------------------------------------------------------------
(* The theorems                                                            *)

LEMMA StutterSame ==
  ASSUME UNCHANGED vars
  PROVE  /\ TypeOK => TypeOK'
         /\ Queued => Queued'
         /\ Signed(phi, v, status, heap) => Signed(phi, v, status, heap)'
         /\ IsHeap(heap) => IsHeap(heap')
BY DEF vars, TypeOK, Queued

(* The values, the statuses and the entries of the heap are what they are  *)
(* declared to be, and only done dofs wait in the set of done points       *)
THEOREM TypeOKAlways ==
  ASSUME NoObtuseAngle(Int)
  PROVE  Spec => []TypeOK
<1>1. Init => TypeOK
  BY TypeInit
<1>2. TypeOK /\ [Next]_vars => TypeOK'
  BY SeedType, MarchType, StutterSame DEF Next
<1>. QED BY <1>1, <1>2, PTL DEF Spec

(* Without periodicity the dof that is accepted next is the closest one,   *)
(* through pushes, changes and rebuilds of the heap                        *)
THEOREM TopIsSmallestAlways ==
  ASSUME NoObtuseAngle(Int), DOMAIN Twin = {}
  PROVE  Spec => []TopIsSmallest
<1> DEFINE IInv == TypeOK /\ IsHeap(heap)
<1>1. Init => IInv
  BY TypeInit
<1>2. IInv /\ [Next]_vars => IInv'
  BY SeedType, MarchType, StutterSame DEF Next
<1>3. IInv => TopIsSmallest
  <2> SUFFICES ASSUME TypeOK, IsHeap(heap) PROVE TopIsSmallest
    OBVIOUS
  <2>1. Len(heap) \in Nat /\ heap \in [1 .. Len(heap) -> Entry] /\ DOMAIN heap = 1 .. Len(heap)
    BY SeqIsHeap DEF TypeOK, Shaped, IsTyped
  <2>2. OrderedBelow(heap, 1, Len(heap))
    BY DEF IsHeap
  <2>. QED BY <2>1, <2>2, FirstIsClosest DEF TopIsSmallest
<1>. QED BY <1>1, <1>2, <1>3, PTL DEF Spec

LEMMA QueuedAlways ==
  ASSUME NoObtuseAngle(Int), NDof <= IndexModulus
  PROVE  Spec => [](TypeOK /\ Queued)
<1>1. Init => TypeOK /\ Queued
  BY TypeInit
<1>2. TypeOK /\ Queued /\ [Next]_vars => (TypeOK /\ Queued)'
  BY SeedType, SeedQueued, MarchType, MarchQueued, StutterSame DEF Next
<1>. QED BY <1>1, <1>2, PTL DEF Spec

(* As long as the dofs can be told apart by the index of the heap, the     *)
(* heap holds each close dof once and nothing else, periodic or not        *)
THEOREM HeapHoldsCloseAlways ==
  ASSUME NoObtuseAngle(Int), NDof <= IndexModulus
  PROVE  Spec => []HeapHoldsClose
<1>1. ASSUME TypeOK, Queued PROVE HeapHoldsClose
  <2> DEFINE n == Len(heap)
             C == {d \in Dof : status[d] = CLOSE}
             f == [i \in 1 .. n |-> heap[i][2]]
  <2>1. n \in Nat /\ DOMAIN heap = 1 .. n /\ \A i \in 1 .. n : heap[i][2] \in Dof
    <3>1. IsTyped(heap)
      BY <1>1 DEF TypeOK, Shaped
    <3>2. Len(heap) \in Nat /\ DOMAIN heap = 1 .. Len(heap)
      BY <3>1, SeqIsHeap DEF IsTyped
    <3>. QED BY <3>1, <3>2 DEF IsTyped, Content
  <2>2. Once(heap) /\ Holds(status, heap)
    BY <1>1 DEF Queued, Holds
  <2>3. \A i \in 1 .. n : heap[i][2] \in C
    BY <2>1, <2>2 DEF Holds, Content
  <2>4. \A d \in C : \E i \in 1 .. n : heap[i][2] = d
    BY <2>2 DEF Holds, Content
  <2>5. {heap[i][2] : i \in DOMAIN heap} = C
    BY <2>1, <2>3, <2>4
  <2>6. {Index(d) : d \in C} = C
    BY IndexIs
  <2>7. f \in [1 .. n -> C]
    BY <2>3
  <2>8. f \in Bijection(1 .. n, C)
    <3>1. \A i, j \in 1 .. n : f[i] = f[j] => i = j
      BY <2>2 DEF Once
    <3>2. \A d \in C : \E i \in 1 .. n : f[i] = d
      BY <2>4
    <3> HIDE DEF f, C
    <3>. QED BY <2>7, <3>1, <3>2 DEF Bijection, Injection, Surjection, IsInjective
  <2>9. IsFiniteSet(1 .. n) /\ Cardinality(1 .. n) = n
    BY <2>1, FS_Interval
  <2>10. Cardinality(C) = n
    <3>1. ExistsBijection(1 .. n, C)
      BY <2>8 DEF ExistsBijection
    <3> HIDE DEF f, C, n
    <3>. QED BY <2>9, <3>1, FS_Bijection
  <2>. QED BY <2>5, <2>6, <2>10 DEF HeapHoldsClose
<1>. QED BY <1>1, QueuedAlways, PTL

(* When the loop ends, no dof next to an accepted one was left out         *)
THEOREM AllReachedAlways ==
  ASSUME NoObtuseAngle(Int), NDof <= IndexModulus
  PROVE  Spec => []AllReached
<1>1. ASSUME TypeOK, Queued PROVE AllReached
  <2> SUFFICES ASSUME done = {}, heap = << >>, NEW c \in Cell, NEW p \in c, status[p] = DONE,
                      NEW n \in c
               PROVE  status[n] = DONE
    BY DEF AllReached, Finished
  <2>1. c \subseteq Dof /\ Content(heap) = {}
    BY GeometryAssumption DEF Content
  <2>2. CASE n = p
    BY <2>2
  <2>3. CASE n # p
    <3>1. n \in Neighbors[p]
      BY <2>1, <2>3 DEF Neighbors
    <3>2. status[n] # FAR
      BY <1>1, <2>1, <3>1 DEF Queued, Reached
    <3>3. status[n] # CLOSE
      BY <1>1, <2>1 DEF Queued, Holds
    <3>. QED BY <1>1, <2>1, <3>2, <3>3 DEF TypeOK, Shaped, Status
  <2>. QED BY <2>2, <2>3
<1>. QED BY <1>1, QueuedAlways, PTL

(* The new function is positive and negative where the old one was; with   *)
(* periodicity, if its images have the same sign                           *)
THEOREM SignKeptAlways ==
  ASSUME NoObtuseAngle(Int), NDof <= IndexModulus, PeriodicSigns
  PROVE  Spec => []SignKept
<1> DEFINE IInv == TypeOK /\ Queued /\ Signed(phi, v, status, heap)
<1>1. Init => IInv
  BY TypeInit
<1>2. IInv /\ [Next]_vars => IInv'
  BY SeedType, SeedQueued, MarchType, MarchQueued, StutterSame DEF Next
<1>3. IInv => SignKept
  BY DEF Signed, SameSign, SignKept
<1>. QED BY <1>1, <1>2, <1>3, PTL DEF Spec

-----------------------------------------------------------------------------
(* The abstract marching                                                   *)

(* The distance the heap has for d                                         *)
ValueIn(h, d) == LET i == CHOOSE k \in DOMAIN h : h[k][2] = Index(d) IN Abs(h[i][1])

Close(st) == {x \in Dof : st[x] = CLOSE}

Values(st, h) == [d \in Close(st) |-> ValueIn(h, d)]

LEMMA ValueIs ==
  ASSUME NDof <= IndexModulus, NEW h, IsTyped(h), Once(h), NEW e \in Content(h)
  PROVE  ValueIn(h, e[2]) = Abs(e[1]) /\ Abs(e[1]) \in Nat /\ e[2] \in Dof
<1>1. DOMAIN h = 1 .. Len(h)
  BY SeqIsHeap DEF IsTyped
<1>2. e \in Int \X Dof
  BY DEF IsTyped
<1>3. e[2] \in Dof /\ e[1] \in Int /\ Index(e[2]) = e[2]
  BY <1>2, IndexIs
<1>4. PICK k \in DOMAIN h : h[k] = e
  BY <1>1 DEF Content
<1>5. \A l \in DOMAIN h : h[l][2] = Index(e[2]) <=> l = k
  BY <1>1, <1>3, <1>4 DEF Once
<1>6. (CHOOSE l \in DOMAIN h : h[l][2] = Index(e[2])) = k
  BY <1>5
<1>7. ValueIn(h, e[2]) = Abs(h[k][1])
  BY <1>6 DEF ValueIn
<1>8. Abs(e[1]) \in Nat
  BY <1>3 DEF Abs
<1>. QED BY <1>3, <1>4, <1>7, <1>8

LEMMA ValuesAre ==
  ASSUME NDof <= IndexModulus, NEW w, NEW st, NEW h, Shaped(w, st, h), Holds(st, h)
  PROVE  /\ DOMAIN Values(st, h) = Close(st)
         /\ \A d \in Close(st) : Values(st, h)[d] \in Nat
         /\ \A e \in Content(h) : e[2] \in Close(st) /\ Values(st, h)[e[2]] = Abs(e[1])
<1>1. \A e \in Content(h) : /\ ValueIn(h, e[2]) = Abs(e[1])
                            /\ Abs(e[1]) \in Nat /\ e[2] \in Dof
  BY ValueIs DEF Shaped, Holds
<1>2. \A e \in Content(h) : e[2] \in Close(st)
  BY <1>1 DEF Holds, Close
<1>3. ASSUME NEW d \in Close(st) PROVE Values(st, h)[d] \in Nat
  <2>1. PICK e \in Content(h) : e[2] = d
    BY DEF Holds, Close
  <2>. QED BY <1>1, <2>1 DEF Values
<1>. QED BY <1>1, <1>2, <1>3 DEF Values

(* What p offers is at least as far as p; a candidate only gets closer     *)
LEMMA UpdateSpreads ==
  ASSUME NoObtuseAngle(Int), NDof <= IndexModulus,
         NEW p \in Dof, NEW w, NEW st, NEW h, Shaped(w, st, h), Holds(st, h),
         NEW u, u = FmsHeapUpdate(p, w, st, h), NEW n \in Close(u.status)
  PROVE  /\ Values(u.status, u.heap)[n] \in Nat
         /\ n \in Close(st) => Values(u.status, u.heap)[n] <= Values(st, h)[n]
         /\ n \in Close(st) \ Neighbors[p] => Values(u.status, u.heap)[n] = Values(st, h)[n]
         /\ \/ n \in Close(st) /\ Values(u.status, u.heap)[n] = Values(st, h)[n]
            \/ Values(u.status, u.heap)[n] >= Abs(w[p])
<1>1. Updated(p, w, st, h, u)
  BY UpdateIs
<1>2. Holds(u.status, u.heap)
  BY UpdateHolds
<1>3. /\ Shaped(u.v, u.status, u.heap)
      /\ Offered(p, w, st, h, u.heap, OpenTo(p, st))
  BY <1>1 DEF Updated, Holds
<1>4. /\ \A d \in Close(st) : Values(st, h)[d] \in Nat
      /\ \A e \in Content(h) : e[2] \in Close(st) /\ Values(st, h)[e[2]] = Abs(e[1])
  BY ValuesAre
<1>5. /\ \A d \in Close(u.status) : Values(u.status, u.heap)[d] \in Nat
      /\ \A e \in Content(u.heap) : /\ e[2] \in Close(u.status)
                                    /\ Values(u.status, u.heap)[e[2]] = Abs(e[1])
  BY <1>2, <1>3, ValuesAre
<1>6. PICK e \in Content(u.heap) : e[2] = n
  BY <1>2 DEF Holds, Close
<1>7. CASE e \in Content(h)
  <2>1. n \in Close(st) /\ Values(u.status, u.heap)[n] = Values(st, h)[n]
    BY <1>4, <1>5, <1>6, <1>7
  <2>. QED BY <1>4, <2>1
<1>8. CASE n \in OpenTo(p, st) /\ e = Candidate(p, n, w, st)
  <2>1. n \in Neighbors[p] /\ n \in Dof /\ w[p] \in Int /\ w \in [Dof -> Int]
    BY <1>8, NeighborsAre DEF OpenTo, Shaped
  <2>2. e[1] = PhiNew(p, n, w, st) /\ IsBeyond(PhiNew(p, n, w, st), w[p])
    BY <1>8, <2>1, PhiNewIs DEF Candidate
  <2>3. Values(u.status, u.heap)[n] = Abs(e[1]) /\ Abs(e[1]) >= Abs(w[p])
    BY <1>5, <1>6, <2>2 DEF IsBeyond
  <2>4. ASSUME n \in Close(st) PROVE Abs(e[1]) <= Values(st, h)[n]
    <3>1. PICK d \in Content(h) : d[2] = n
      BY <2>4 DEF Holds, Close
    <3>2. PICK f \in Content(u.heap) : f[2] = n /\ ~Farther(f, d)
      BY <1>3, <1>8, <3>1 DEF Offered
    <3>3. f = e
      BY <1>2, <1>6, <3>2 DEF Holds, Once, Content
    <3>4. e \in Entry /\ d \in Entry
      BY <1>3 DEF Shaped, IsTyped, Entry, Dof
    <3>5. Abs(e[1]) <= Abs(d[1])
      BY <3>2, <3>3, <3>4, FartherOrder
    <3>. QED BY <1>4, <3>1, <3>5
  <2>. QED BY <1>5, <2>1, <2>3, <2>4
<1>. QED BY <1>3, <1>6, <1>7, <1>8 DEF Offered

(* The dofs that are close afterwards                                      *)
LEMMA UpdateCloses ==
  ASSUME NoObtuseAngle(Int), NEW p \in Dof, NEW w, NEW st, NEW h, Shaped(w, st, h),
         NEW u, u = FmsHeapUpdate(p, w, st, h)
  PROVE  /\ Close(u.status) = Close(st) \cup {n \in Neighbors[p] : st[n] # DONE}
         /\ \A d \in Dof : u.status[d] = DONE <=> st[d] = DONE
         /\ u.v = w
<1>1. Updated(p, w, st, h, u)
  BY UpdateIs
<1>. QED BY <1>1 DEF Updated, Close, OpenTo, DONE, CLOSE

(* When the top leaves, the others keep their values                       *)
ValuesKept(st, h, d, b, g) ==
  /\ Close(b) = Close(st) \ {d}
  /\ \A n \in Close(b) : Values(b, g)[n] = Values(st, h)[n]

LEMMA ValuesLeft ==
  ASSUME NDof <= IndexModulus, NEW w, NEW st, NEW h, Shaped(w, st, h), Holds(st, h),
         NEW d \in Dof, NEW a, NEW b, b = [st EXCEPT ![d] = DONE],
         NEW g, Leaves(d, h, g), Shaped(a, b, g), Holds(b, g)
  PROVE  ValuesKept(st, h, d, b, g)
<1>1. Close(b) = Close(st) \ {d}
  BY DEF Close, Shaped, DONE, CLOSE
<1>2. ASSUME NEW n \in Close(b) PROVE Values(b, g)[n] = Values(st, h)[n]
  <2>1. PICK e \in Content(g) : e[2] = n
    BY DEF Holds, Close
  <2>2. e \in Content(h)
    BY <2>1 DEF Leaves
  <2>3. Values(b, g)[n] = Abs(e[1])
    BY <2>1, ValuesAre
  <2>4. Values(st, h)[n] = Abs(e[1])
    BY <2>1, <2>2, ValuesAre
  <2>. QED BY <2>3, <2>4
<1>. QED BY <1>1, <1>2 DEF ValuesKept

(* The first entry of the heap is the closest candidate                    *)
LEMMA FirstIsLeast ==
  ASSUME NDof <= IndexModulus, Shaped(v, status, heap), Holds(status, heap), TopIsSmallest,
         heap[1] \in Content(heap), NEW n \in Close(status)
  PROVE  Values(status, heap)[heap[1][2]] <= Values(status, heap)[n]
<1>1. PICK e \in Content(heap) : e[2] = n
  BY DEF Holds, Close
<1>2. e \in Entry /\ heap[1] \in Entry
  BY DEF Shaped, IsTyped, Entry, Dof
<1>3. ~Farther(heap[1], e)
  <2>1. DOMAIN heap = 1 .. Len(heap)
    BY SeqIsHeap DEF Shaped, IsTyped
  <2>. QED BY <2>1 DEF TopIsSmallest, Content
<1>4. Abs(heap[1][1]) <= Abs(e[1])
  BY <1>2, <1>3, FartherOrder
<1>5. /\ Values(status, heap)[heap[1][2]] = Abs(heap[1][1])
      /\ Values(status, heap)[n] = Abs(e[1])
  BY <1>1, ValuesAre
<1>. QED BY <1>4, <1>5

-----------------------------------------------------------------------------
(* The refinement                                                          *)

DoneDofs(st) == {d \in Dof : st[d] = DONE}

LEMMA AbstractInit == ASSUME Init PROVE Abstract!Init
<1>1. phi \in [Dof -> Int] /\ Cell \subseteq SUBSET Dof
  BY GeometryAssumption DEF Init
<1>2. Interface \subseteq Dof
  BY <1>1 DEF Interface
<1>3. \A d \in Dof : status[d] = IF d \in Interface THEN DONE ELSE FAR
  BY DEF Init
<1>4. {d \in Dof : status[d] = DONE} = Interface
  BY <1>2, <1>3 DEF DONE, FAR
<1>5. {x \in Dof : status[x] = CLOSE} = {}
  BY <1>3 DEF DONE, CLOSE, FAR
<1>6. [d \in {x \in Dof : status[x] = CLOSE} |-> CandidateOf(d)] = << >>
  BY <1>5
<1>7. [d \in Dof |-> Abs(v[d])]
        = [d \in Dof |-> IF d \in Interface THEN [e \in Interface |-> Abs(phi[e])][d] ELSE 0]
  BY <1>2 DEF Init, Abs
<1>8. \A d \in Interface : Abs(phi[d]) \in Nat
  BY <1>1, <1>2 DEF Abs
<1>. QED BY <1>2, <1>4, <1>6, <1>7, <1>8 DEF Abstract!Init, Abstract!Interface, Init

(* The abstract candidates are the values of the close dofs                *)
LEMMA CandidatesOf ==
  /\ [d \in {x \in Dof : status[x] = CLOSE} |-> CandidateOf(d)] = Values(status, heap)
  /\ ([d \in {x \in Dof : status[x] = CLOSE} |-> CandidateOf(d)])' = Values(status', heap')
BY DEF CandidateOf, Values, ValueIn, Close

LEMMA SeedRefines ==
  ASSUME NoObtuseAngle(Int), NDof <= IndexModulus, TypeOK, Queued, Seed
  PROVE  Abstract!Next
<1>1. PICK p \in done : \E u :
        /\ u = FmsHeapUpdate(p, v, status, heap)
        /\ done' = done \ {p} /\ status' = u.status /\ heap' = u.heap
        /\ phi' = phi /\ v' = v
  BY SeedIs
<1>2. PICK u : /\ u = FmsHeapUpdate(p, v, status, heap)
               /\ done' = done \ {p} /\ status' = u.status /\ heap' = u.heap
               /\ phi' = phi /\ v' = v
  BY <1>1
<1>3. p \in Dof /\ Shaped(v, status, heap) /\ Holds(status, heap)
  BY <1>1 DEF TypeOK, Queued
<1>4. /\ Close(status') = Close(status) \cup {n \in Neighbors[p] : status[n] # DONE}
      /\ \A d \in Dof : status'[d] = DONE <=> status[d] = DONE
  BY <1>2, <1>3, UpdateCloses
<1>5. {d \in Dof : status'[d] = DONE} = {d \in Dof : status[d] = DONE}
  BY <1>4
<1>6. DOMAIN Values(status, heap) = Close(status) /\ DOMAIN Values(status', heap') = Close(status')
  BY DEF Values
<1>7. \A n \in Close(status') :
        /\ Values(status', heap')[n] \in Nat
        /\ n \in Close(status) => Values(status', heap')[n] <= Values(status, heap)[n]
        /\ n \in Close(status) \ Neighbors[p] => Values(status', heap')[n] = Values(status, heap)[n]
  BY <1>2, <1>3, UpdateSpreads
<1>8. {n \in Neighbors[p] : status[n] # DONE}
        = (Neighbors[p] \intersect Dof) \ {d \in Dof : status'[d] = DONE}
  BY <1>3, <1>5, NeighborsAre
<1>9. Interface' = Interface
  BY <1>2 DEF Interface
<1>10. \A n \in Close(status') : Values(status', heap')[n] >= 0
  BY <1>7
<1>12. Abstract!Seed(p)
  <2>1. ([d \in Interface |-> Abs(phi[d])])' = [d \in Interface |-> Abs(phi[d])]
    BY <1>2, <1>9
  <2>2. {d \in Dof : status[d] = DONE}' = {d \in Dof : status[d] = DONE}
    BY <1>5
  <2>3. [d \in Dof |-> Abs(v[d])]' = [d \in Dof |-> Abs(v[d])]
    BY <1>2
  <2>4. Close(status') = Close(status) \cup ((Neighbors[p] \intersect Dof) \ {d \in Dof : status'[d] = DONE})
    BY <1>4, <1>8
  <2> HIDE DEF Values
  <2>. QED BY <1>1, <1>2, <1>6, <1>7, <1>10, <2>1, <2>2, <2>3, <2>4, CandidatesOf
       DEF Abstract!Seed, Abstract!Spread
<1>. QED BY <1>3, <1>12 DEF Abstract!Next

LEMMA MarchRefines ==
  ASSUME NoObtuseAngle(Int), NDof <= IndexModulus, DOMAIN Twin = {},
         TypeOK, Queued, TopIsSmallest, March
  PROVE  Abstract!Next
<1>1. PICK d \in Dof, x \in Int, s \in {Accepted(heap[1])} :
        /\ d = heap[1][2] /\ x = heap[1][1] /\ heap[1] \in Content(heap)
        /\ Leaves(d, heap, PopHeap(heap))
        /\ Accepts(v, status, heap, d, x, PopHeap(heap), s)
        /\ \/ d \notin DOMAIN Twin /\ v' = s.v /\ status' = s.status /\ heap' = s.heap
           \/ /\ d \in DOMAIN Twin
              /\ \E r : /\ Accepts(s.v, s.status, s.heap, Twin[d], x,
                                   RemoveFromHeap(s.heap, Index(Twin[d])), r)
                        /\ v' = r.v /\ status' = r.status /\ heap' = r.heap
        /\ phi' = phi /\ done' = done /\ done = {}
  BY MarchIs
<1>2. v' = s.v /\ status' = s.status /\ heap' = s.heap
  BY <1>1
<1>3. Shaped(v, status, heap) /\ Holds(status, heap)
  BY DEF TypeOK, Queued
<1> DEFINE a == [v EXCEPT ![d] = x]
           b == [status EXCEPT ![d] = DONE]
           g == PopHeap(heap)
<1>4. MarkedDone(v, status, heap, d, x, g, a, b)
  BY <1>1, <1>3, DoneIs
<1>5. s = FmsHeapUpdate(d, a, b, g)
  BY <1>1 DEF Accepts
<1>6. /\ a \in [Dof -> Int] /\ a[d] = x /\ b = [status EXCEPT ![d] = DONE]
      /\ \A n \in Dof : b[n] = IF n = d THEN DONE ELSE status[n]
      /\ \A n \in Dof : a[n] = IF n = d THEN x ELSE v[n]
  BY <1>3 DEF Shaped
<1>7. Leaves(d, heap, g)
  BY <1>1
<1> HIDE DEF a, b, g
<1>8. Shaped(a, b, g) /\ Holds(b, g)
  BY <1>3, <1>4 DEF MarkedDone
<1>9. /\ Close(b) = Close(status) \ {d}
      /\ \A n \in Close(b) : Values(b, g)[n] = Values(status, heap)[n]
  <2>1. ValuesKept(status, heap, d, b, g)
    BY <1>3, <1>6, <1>7, <1>8, ValuesLeft
  <2>. QED BY <2>1 DEF ValuesKept
<1>10. /\ Close(status') = Close(b) \cup {n \in Neighbors[d] : b[n] # DONE}
       /\ \A n \in Dof : status'[n] = DONE <=> b[n] = DONE
       /\ v' = a
  BY <1>2, <1>5, <1>8, UpdateCloses
<1>11. \A n \in Close(status') :
         /\ Values(status', heap')[n] \in Nat
         /\ n \in Close(b) => Values(status', heap')[n] <= Values(b, g)[n]
         /\ n \in Close(b) \ Neighbors[d] => Values(status', heap')[n] = Values(b, g)[n]
         /\ \/ n \in Close(b) /\ Values(status', heap')[n] = Values(b, g)[n]
            \/ Values(status', heap')[n] >= Abs(a[d])
  BY <1>2, <1>5, <1>8, UpdateSpreads
<1>12. /\ d \in Close(status) /\ Values(status, heap)[d] = Abs(x)
       /\ \A e \in Content(heap) : e[2] \in Close(status) /\ Values(status, heap)[e[2]] = Abs(e[1])
  BY <1>1, <1>3, ValuesAre
<1>13. \A n \in Close(status) : Values(status, heap)[d] <= Values(status, heap)[n]
  BY <1>1, <1>3, FirstIsLeast
<1>14. {n \in Dof : status'[n] = DONE} = {n \in Dof : status[n] = DONE} \cup {d}
  BY <1>6, <1>10
<1>15. [n \in Dof |-> Abs(v'[n])] = [[n \in Dof |-> Abs(v[n])] EXCEPT ![d] = Values(status, heap)[d]]
  <2>1. \A n \in Dof : Abs(v'[n]) = IF n = d THEN Values(status, heap)[d] ELSE Abs(v[n])
    BY <1>6, <1>10, <1>12
  <2>. QED BY <2>1
<1>16. DOMAIN Values(status, heap) = Close(status) /\ DOMAIN Values(status', heap') = Close(status')
  BY DEF Values
<1>17. Close(status') = (Close(status) \ {d})
                          \cup ((Neighbors[d] \intersect Dof) \ {n \in Dof : status'[n] = DONE})
  <2>1. {n \in Neighbors[d] : b[n] # DONE}
          = (Neighbors[d] \intersect Dof) \ {n \in Dof : status'[n] = DONE}
    BY <1>10, NeighborsAre
  <2>. QED BY <1>9, <1>10, <2>1
<1>18. \A n \in Close(status') :
         /\ Values(status', heap')[n] \in Nat
         /\ n \in Close(status) \ {d} => Values(status', heap')[n] <= Values(status, heap)[n]
         /\ n \in (Close(status) \ {d}) \ Neighbors[d]
              => Values(status', heap')[n] = Values(status, heap)[n]
         /\ \/ n \in Close(status) \ {d} /\ Values(status', heap')[n] = Values(status, heap)[n]
            \/ Values(status', heap')[n] >= Values(status, heap)[d]
  BY <1>6, <1>9, <1>11, <1>12
<1>19. Interface' = Interface
  BY <1>1 DEF Interface
<1>21. Abstract!Accept(d)
  <2>1. ([n \in Interface |-> Abs(phi[n])])' = [n \in Interface |-> Abs(phi[n])]
    BY <1>1, <1>19
  <2>2. {n \in Dof : status[n] = DONE}' = {n \in Dof : status[n] = DONE} \cup {d}
    BY <1>14
  <2>3. [n \in Dof |-> Abs(v[n])]'
          = [[n \in Dof |-> Abs(v[n])] EXCEPT ![d] = Values(status, heap)[d]]
    BY <1>15
  <2>4. d \in DOMAIN Values(status, heap)
    BY <1>12, <1>16
  <2>5. \A e \in DOMAIN Values(status, heap) : Values(status, heap)[d] <= Values(status, heap)[e]
    BY <1>13, <1>16
  <2> HIDE DEF Values
  <2>. QED BY <1>1, <1>16, <1>17, <1>18, <2>1, <2>2, <2>3, <2>4, <2>5, CandidatesOf
       DEF Abstract!Accept, Abstract!Spread
<1>. QED BY <1>21 DEF Abstract!Next

LEMMA StutterRefines == ASSUME UNCHANGED vars PROVE UNCHANGED Abstract!vars
<1>1. /\ Interface' = Interface
      /\ phi' = phi /\ done' = done /\ status' = status /\ v' = v /\ heap' = heap
  BY DEF vars, Interface
<1>2. ([d \in Interface |-> Abs(phi[d])])' = [d \in Interface |-> Abs(phi[d])]
  BY <1>1
<1>3. {d \in Dof : status[d] = DONE}' = {d \in Dof : status[d] = DONE}
  BY <1>1
<1>4. [d \in Dof |-> Abs(v[d])]' = [d \in Dof |-> Abs(v[d])]
  BY <1>1
<1>5. ([d \in {x \in Dof : status[x] = CLOSE} |-> CandidateOf(d)])'
        = [d \in {x \in Dof : status[x] = CLOSE} |-> CandidateOf(d)]
  BY <1>1, CandidatesOf
<1>. QED BY <1>1, <1>2, <1>3, <1>4, <1>5 DEF Abstract!vars

(* The marching with its heap accepts dofs as Marching says: the closest   *)
(* candidate each time, and candidates no closer than where they come from *)
THEOREM ImplementsMarchingAlways ==
  ASSUME NoObtuseAngle(Int), NDof <= IndexModulus, DOMAIN Twin = {}
  PROVE  Spec => ImplementsMarching
<1>1. Init => Abstract!Init
  BY AbstractInit
<1>2. /\ TypeOK /\ Queued /\ TopIsSmallest /\ [Next]_vars
      => [Abstract!Next]_(Abstract!vars)
  BY SeedRefines, MarchRefines, StutterRefines DEF Next
<1>3. Spec => [](TypeOK /\ Queued)
  BY QueuedAlways
<1>4. Spec => []TopIsSmallest
  BY TopIsSmallestAlways
<1>. QED BY <1>1, <1>2, <1>3, <1>4, PTL DEF Spec, ImplementsMarching

AbstractProofs == INSTANCE Marching_proofs WITH
  Nbr <- Neighbors,
  given <- [d \in Interface |-> Abs(phi[d])],
  seeds <- done,
  accepted <- {d \in Dof : status[d] = DONE},
  dist <- [d \in Dof |-> Abs(v[d])],
  cand <- [d \in {x \in Dof : status[x] = CLOSE} |-> CandidateOf(d)]

(* The two instances of the abstract marching are the same                 *)
LEMMA MarchesInOrder ==
  ASSUME NoObtuseAngle(Int), NDof <= IndexModulus, DOMAIN Twin = {}
  PROVE  Spec => AbstractProofs!Spec
<1>1. Abstract!Init => AbstractProofs!Init
  BY DEF Abstract!Init, AbstractProofs!Init, Abstract!Interface, AbstractProofs!Interface
<1>2. [Abstract!Next]_(Abstract!vars) => [AbstractProofs!Next]_(AbstractProofs!vars)
  BY DEF Abstract!Next, Abstract!vars, Abstract!Seed, Abstract!Accept, Abstract!Spread,
         AbstractProofs!Next, AbstractProofs!vars, AbstractProofs!Seed, AbstractProofs!Accept,
         AbstractProofs!Spread
<1>. QED BY <1>1, <1>2, ImplementsMarchingAlways, PTL DEF ImplementsMarching, AbstractProofs!Spec

(* Dofs are accepted by increasing distance, and a value once accepted is  *)
(* final                                                                   *)
THEOREM AcceptedInOrderAlways ==
  ASSUME NoObtuseAngle(Int), NDof <= IndexModulus, DOMAIN Twin = {}
  PROVE  Spec => AcceptedInOrder
<1>1. AbstractProofs!Spec => AbstractProofs!AcceptedInOrder
  BY AbstractProofs!AcceptedInOrderAlways
<1>. QED BY <1>1, MarchesInOrder, PTL
     DEF AcceptedInOrder, Abstract!AcceptedInOrder, AbstractProofs!AcceptedInOrder,
         Abstract!Marched, AbstractProofs!Marched, Abstract!Interface, AbstractProofs!Interface,
         Abstract!vars, AbstractProofs!vars

-----------------------------------------------------------------------------
(* The values are those of the local problems                              *)

(* n may have the value x by a dof of P, alone or with one of D            *)
AllowsBy(x, n, p, w, D) ==
  \/ x = DistFromOne(p, n, w)
  \/ \E q \in Neighbors[n] \intersect Neighbors[p] \intersect D :
       x = DistFromTwo(p, q, n, w) /\ x # 0

Allows(x, n, w, P, D) == \E p \in Neighbors[n] \intersect P : AllowsBy(x, n, p, w, D)

(* Dofs of D allow x at n, and dofs of P nothing closer                    *)
Solves(x, n, w, P, D) ==
  /\ Allows(x, n, w, D, D)
  /\ \A y \in Int : Allows(y, n, w, P, P) => Abs(x) <= Abs(y)

Best(f, w, st, h, todo) ==
  /\ \A e \in Content(h) : Solves(e[1], e[2], w, DoneDofs(st) \ todo, DoneDofs(st))
  /\ \A n \in DoneDofs(st) \ Cells(f) :
       Solves(w[n], n, w, DoneDofs(st) \ todo, DoneDofs(st))

(* Two dofs of the same sign allow the same value in either order          *)
LEMMA TwoSame ==
  ASSUME NoObtuseAngle(Int), SameFront(Int), NEW n \in Dof, NEW p \in Neighbors[n],
         NEW q \in Neighbors[n] \intersect Neighbors[p], NEW w \in [Dof -> Int],
         w[p] < 0 <=> w[q] < 0
  PROVE  DistFromTwo(p, q, n, w) = DistFromTwo(q, p, n, w)
<1>1. p \in Dof /\ q \in Dof /\ w[p] \in Int /\ w[q] \in Int
  BY NeighborsAre
<1>2. q \in Neighbors[n] /\ p \in Neighbors[n] \intersect Neighbors[q]
  BY <1>1, NeighborsAre
<1> DEFINE dv == IF w[p] < 0 THEN w[p] - w[q] ELSE w[q] - w[p]
           ev == IF w[q] < 0 THEN w[q] - w[p] ELSE w[p] - w[q]
           s == Through(p, q, n, dv)
           t == Through(q, p, n, ev)
<1>3. dv \in Int /\ ev = -dv /\ dv = -ev /\ ev \in Int
  BY <1>1
<1>4. /\ DistFromTwo(p, q, n, w) = IF s = 0 THEN 0 ELSE Beyond(p, w, s)
      /\ DistFromTwo(q, p, n, w) = IF t = 0 THEN 0 ELSE Beyond(q, w, t)
  BY DEF DistFromTwo
<1>5. dv = IF w[p] < 0 THEN w[p] - w[q] ELSE w[q] - w[p]
  OBVIOUS
<1> HIDE DEF dv, ev
<1>6. s \in Nat /\ t \in Nat
  BY <1>2, <1>3 DEF NoObtuseAngle
<1>7. Through(q, p, n, -dv) = IF Through(p, q, n, dv) = 0 THEN 0 ELSE Through(p, q, n, dv) - dv
  BY <1>3 DEF SameFront
<1>8. Through(p, q, n, -ev) = IF Through(q, p, n, ev) = 0 THEN 0 ELSE Through(q, p, n, ev) - ev
  BY <1>2, <1>3 DEF SameFront
<1>9. t = IF s = 0 THEN 0 ELSE s - dv
  BY <1>3, <1>7
<1>10. s = IF t = 0 THEN 0 ELSE t - ev
  BY <1>3, <1>8
<1> HIDE DEF s, t
<1>11. CASE s = 0
  BY <1>4, <1>9, <1>11
<1>12. CASE s # 0
  <2>1. t # 0 /\ t = s - dv
    BY <1>9, <1>10, <1>12
  <2>2. Beyond(p, w, s) = Beyond(q, w, t)
    BY <1>1, <1>3, <1>5, <1>6, <2>1 DEF Beyond
  <2>. QED BY <1>4, <1>12, <2>1, <2>2
<1>. QED BY <1>11, <1>12

(* What p allows is among the candidates computed from it                  *)
LEMMA AllowsCandidate ==
  ASSUME NEW p, NEW n, NEW w, NEW st, NEW D \in SUBSET DoneDofs(st), NEW x
  PROVE  AllowsBy(x, n, p, w, D) => x \in Candidates(p, n, w, st)
BY DEF AllowsBy, Candidates, DoneDofs

(* When p is new in P: by the others, or by p and the other ones           *)
LEMMA AllowsMore ==
  ASSUME NoObtuseAngle(Int), SameFront(Int), NEW n \in Dof, NEW w \in [Dof -> Int],
         NEW P \in SUBSET Dof, NEW p \in Dof,
         \A q, r \in Neighbors[n] \intersect (P \cup {p}) : w[q] < 0 <=> w[r] < 0,
         NEW y, Allows(y, n, w, P \cup {p}, P \cup {p})
  PROVE  \/ Allows(y, n, w, P, P)
         \/ p \in Neighbors[n] /\ AllowsBy(y, n, p, w, P \cup {p})
<1>1. PICK r \in Neighbors[n] \intersect (P \cup {p}) : AllowsBy(y, n, r, w, P \cup {p})
  BY DEF Allows
<1>2. CASE r = p
  BY <1>1, <1>2
<1>3. CASE r # p /\ y = DistFromOne(r, n, w)
  <2>1. AllowsBy(y, n, r, w, P)
    BY <1>3 DEF AllowsBy
  <2>. QED BY <1>1, <1>3, <2>1 DEF Allows
<1>4. ASSUME r # p, NEW q \in Neighbors[n] \intersect Neighbors[r] \intersect (P \cup {p}),
             y = DistFromTwo(r, q, n, w), y # 0
      PROVE  \/ Allows(y, n, w, P, P)
             \/ p \in Neighbors[n] /\ AllowsBy(y, n, p, w, P \cup {p})
  <2>1. CASE q \in P
    <3>1. AllowsBy(y, n, r, w, P)
      BY <1>4, <2>1 DEF AllowsBy
    <3>. QED BY <1>1, <1>4, <3>1 DEF Allows
  <2>2. CASE q = p
    <3>1. w[r] < 0 <=> w[q] < 0
      BY <1>1
    <3>2. DistFromTwo(r, q, n, w) = DistFromTwo(q, r, n, w)
      BY <1>1, <3>1, TwoSame
    <3>3. r \in Neighbors[n] \intersect Neighbors[q] \intersect (P \cup {p})
      BY <1>1, NeighborsAre
    <3>. QED BY <1>4, <2>2, <3>2, <3>3 DEF AllowsBy
  <2>. QED BY <2>1, <2>2
<1>. QED BY <1>1, <1>2, <1>3, <1>4 DEF AllowsBy

(* A dof next to one that is not done is away from the interface: there    *)
(* all the done values have one sign                                       *)
LEMMA SignsAgree ==
  ASSUME NEW f \in [Dof -> Int], NEW w \in [Dof -> Int], NEW st, NEW h, Signed(f, w, st, h),
         NEW n \in Dof, n \notin Cells(f),
         NEW q \in Neighbors[n] \intersect DoneDofs(st), NEW r \in Neighbors[n] \intersect DoneDofs(st)
  PROVE  w[q] < 0 <=> w[r] < 0
<1>1. q \in Dof /\ n \in Neighbors[q] /\ r \in Dof /\ n \in Neighbors[r]
  BY NeighborsAre
<1>2. SameSign(f[q], f[n]) /\ SameSign(f[r], f[n])
  BY <1>1, NeighborsSameSign
<1>3. SameSign(w[q], f[q]) /\ SameSign(w[r], f[r])
  BY <1>1 DEF Signed, DoneDofs
<1>. QED BY <1>2, <1>3 DEF SameSign

(* A candidate that p offers is the closest one p allows, and those of the *)
(* other dofs were offered before                                          *)
LEMMA UpdateSolves ==
  ASSUME NoObtuseAngle(Int), SameFront(Int), NDof <= IndexModulus, NEW f \in [Dof -> Int],
         NEW p \in Dof, NEW w, NEW st, NEW h, Shaped(w, st, h), Holds(st, h),
         Signed(f, w, st, h), st[p] = DONE,
         NEW todo, Reached(st, todo),
         NEW D, D = DoneDofs(st), NEW P \in SUBSET D, P = D \ todo,
         \A e \in Content(h) : Solves(e[1], e[2], w, P, D),
         NEW u, u = FmsHeapUpdate(p, w, st, h), NEW e \in Content(u.heap)
  PROVE  Solves(e[1], e[2], w, P \cup {p}, D)
<1> DEFINE n == e[2]
           x == e[1]
<1>1. /\ Shaped(u.v, u.status, u.heap)
      /\ \A k \in Dof : u.status[k] = IF k \in OpenTo(p, st) THEN CLOSE ELSE st[k]
      /\ Offered(p, w, st, h, u.heap, OpenTo(p, st))
  <2>1. Updated(p, w, st, h, u)
    BY UpdateIs
  <2>. QED BY <2>1 DEF Updated, Holds
<1>2. Holds(u.status, u.heap)
  BY UpdateHolds
<1>3. n \in Dof /\ x \in Int /\ u.status[n] = CLOSE
  BY <1>1, <1>2 DEF Shaped, IsTyped, Holds
<1>4. st[n] # DONE /\ (n \in Neighbors[p] => n \in OpenTo(p, st))
  BY <1>1, <1>3 DEF OpenTo, CLOSE, DONE
<1>5. n \notin Cells(f) /\ w \in [Dof -> Int] /\ p \in D /\ D \in SUBSET Dof /\ P \in SUBSET Dof
  BY <1>4 DEF Signed, Shaped, DoneDofs
<1>6. (p \in Neighbors[n] <=> n \in Neighbors[p])
  BY <1>3, NeighborsAre
<1> HIDE DEF n, x
<1>7. \A q, r \in Neighbors[n] \intersect (P \cup {p}) : w[q] < 0 <=> w[r] < 0
  BY <1>3, <1>5, SignsAgree
<1>8. ASSUME NEW y \in Int, Allows(y, n, w, P \cup {p}, P \cup {p})
      PROVE  \/ Allows(y, n, w, P, P)
             \/ p \in Neighbors[n] /\ y \in Candidates(p, n, w, st)
  <2>1. \/ Allows(y, n, w, P, P)
        \/ p \in Neighbors[n] /\ AllowsBy(y, n, p, w, P \cup {p})
    BY <1>3, <1>5, <1>7, <1>8, AllowsMore
  <2>2. (P \cup {p}) \in SUBSET DoneDofs(st)
    BY <1>5
  <2>. QED BY <2>1, <2>2, AllowsCandidate
<1>9. ASSUME n \in Neighbors[p], NEW y \in Candidates(p, n, w, st)
      PROVE  Abs(PhiNew(p, n, w, st)) <= Abs(y) /\ Abs(y) \in Nat /\ PhiNew(p, n, w, st) \in Int
  <2>1. Abs(PhiNew(p, n, w, st)) <= Abs(y) /\ IsBeyond(PhiNew(p, n, w, st), w[p])
    BY <1>5, <1>9, PhiNewIs
  <2>2. IsBeyond(y, w[p])
    BY <1>5, <1>9, CandidatesAre
  <2>. QED BY <2>1, <2>2 DEF IsBeyond, Abs
<1>10. CASE e \in Content(h)
  <2>1. Allows(x, n, w, D, D) /\ \A y \in Int : Allows(y, n, w, P, P) => Abs(x) <= Abs(y)
    BY <1>10 DEF Solves, n, x
  <2>2. ASSUME NEW y \in Int, Allows(y, n, w, P \cup {p}, P \cup {p}) PROVE Abs(x) <= Abs(y)
    <3>1. CASE Allows(y, n, w, P, P)
      BY <2>1, <3>1
    <3>2. CASE p \in Neighbors[n] /\ y \in Candidates(p, n, w, st)
      <4>1. n \in Neighbors[p] /\ n \in OpenTo(p, st)
        BY <1>4, <1>6, <3>2
      <4>2. PICK g \in Content(u.heap) : g[2] = n /\ ~Farther(g, Candidate(p, n, w, st))
        BY <1>1, <4>1 DEF Offered
      <4>3. g = e
        BY <1>2, <4>2 DEF Holds, Once, Content, n
      <4>4. ~Farther(e, Candidate(p, n, w, st))
        BY <4>2, <4>3
      <4>5. Abs(x) <= Abs(PhiNew(p, n, w, st))
        <5>1. PhiNew(p, n, w, st) \in Int
          BY <1>9, <3>2, <4>1
        <5>. QED BY <1>3, <4>4, <5>1 DEF Farther, Candidate, Abs, x
      <4>. QED BY <1>3, <1>9, <3>2, <4>1, <4>5 DEF Abs
    <3>. QED BY <1>8, <2>2, <3>1, <3>2
  <2>. QED BY <2>1, <2>2 DEF Solves, n, x
<1>11. CASE n \in OpenTo(p, st) /\ e = Candidate(p, n, w, st)
  <2>1. n \in Neighbors[p] /\ p \in Neighbors[n] /\ x = PhiNew(p, n, w, st)
    BY <1>6, <1>11 DEF OpenTo, Candidate, x
  <2>2. Allows(x, n, w, D, D)
    <3>1. x \in Candidates(p, n, w, st)
      BY <1>5, <2>1, PhiNewIs
    <3>2. AllowsBy(x, n, p, w, D)
      BY <1>3, <3>1, NeighborsAre DEF Candidates, AllowsBy, DoneDofs
    <3>. QED BY <1>5, <2>1, <3>2 DEF Allows
  <2>3. ASSUME NEW y \in Int, Allows(y, n, w, P, P) PROVE Abs(x) <= Abs(y)
    <3>1. PICK r \in Neighbors[n] \intersect P : AllowsBy(y, n, r, w, P)
      BY <2>3 DEF Allows
    <3>2. r \in Dof \ todo /\ st[r] = DONE /\ n \in Neighbors[r]
      BY <1>3, <3>1, NeighborsAre DEF DoneDofs
    <3>3. st[n] = CLOSE
      BY <1>3, <1>4, <3>2 DEF Reached, Shaped, Status
    <3>4. PICK d \in Content(h) : d[2] = n
      BY <1>3, <3>3 DEF Holds
    <3>5. PICK g \in Content(u.heap) : g[2] = n /\ ~Farther(g, d)
      BY <1>1, <1>11, <3>4 DEF Offered
    <3>6. g = e
      BY <1>2, <3>5 DEF Holds, Once, Content, n
    <3>7. Abs(d[1]) <= Abs(y)
      BY <2>3, <3>4 DEF Solves
    <3>8. d[1] \in Int
      BY <3>4 DEF Shaped, IsTyped
    <3>9. Abs(x) <= Abs(d[1])
      BY <1>3, <3>5, <3>6, <3>8 DEF Farther, Abs, x
    <3>. QED BY <1>3, <3>7, <3>8, <3>9 DEF Abs
  <2>4. ASSUME NEW y \in Int, Allows(y, n, w, P \cup {p}, P \cup {p}) PROVE Abs(x) <= Abs(y)
    BY <1>8, <1>9, <2>1, <2>3, <2>4
  <2>. QED BY <2>2, <2>4 DEF Solves, n, x
<1>12. e \in Content(h) \/ (n \in OpenTo(p, st) /\ e = Candidate(p, n, w, st))
  BY <1>1 DEF Offered, n
<1>. QED BY <1>10, <1>11, <1>12

(* The value of a dof that is not in D is not used                         *)
LEMMA AllowsSame ==
  ASSUME NEW D \in SUBSET Dof, NEW d \in Dof \ D, NEW w \in [Dof -> Int], NEW x \in Int,
         NEW a, a = [w EXCEPT ![d] = x], NEW n \in Dof, NEW y
  PROVE  Allows(y, n, w, D, D) <=> Allows(y, n, a, D, D)
<1>1. \A q \in D : a[q] = w[q]
  OBVIOUS
<1>2. ASSUME NEW p \in D PROVE DistFromOne(p, n, w) = DistFromOne(p, n, a)
  BY <1>1 DEF DistFromOne, Beyond
<1>3. ASSUME NEW p \in D, NEW q \in D PROVE DistFromTwo(p, q, n, w) = DistFromTwo(p, q, n, a)
  BY <1>1 DEF DistFromTwo, Beyond
<1>. QED BY <1>2, <1>3 DEF Allows, AllowsBy

LEMMA AllowsWider ==
  ASSUME NEW D, NEW E, D \subseteq E, NEW y, NEW n, NEW w, Allows(y, n, w, D, D)
  PROVE  Allows(y, n, w, E, E)
BY DEF Allows, AllowsBy

(* A value stays the closest one when d, which is no closer, is done       *)
LEMMA SolvesLater ==
  ASSUME NoObtuseAngle(Int), SameFront(Int), NEW D \in SUBSET Dof, NEW d \in Dof \ D,
         NEW w \in [Dof -> Int], NEW x \in Int, NEW a, a = [w EXCEPT ![d] = x],
         NEW n \in Dof, NEW y \in Int, Solves(y, n, w, D, D), n # d => Abs(y) <= Abs(x),
         \A q, r \in Neighbors[n] \intersect (D \cup {d}) : a[q] < 0 <=> a[r] < 0
  PROVE  Solves(y, n, a, D \cup {d}, D \cup {d})
<1> DEFINE E == D \cup {d}
<1>1. Allows(y, n, w, D, D) /\ \A z \in Int : Allows(z, n, w, D, D) => Abs(y) <= Abs(z)
  BY DEF Solves
<1>2. \A z : Allows(z, n, w, D, D) <=> Allows(z, n, a, D, D)
  BY AllowsSame
<1>3. Allows(y, n, a, E, E)
  <2>1. Allows(y, n, a, D, D)
    BY <1>1, <1>2
  <2>. QED BY <2>1, AllowsWider
<1>4. \A z \in Int : Allows(z, n, a, D, D) => Abs(y) <= Abs(z)
  BY <1>1, <1>2
<1>5. ASSUME NEW z \in Int, Allows(z, n, a, E, E) PROVE Abs(y) <= Abs(z)
  <2>1. CASE Allows(z, n, a, D, D)
    BY <1>4, <2>1
  <2>2. CASE d \in Neighbors[n] /\ AllowsBy(z, n, d, a, E)
    <3>1. n \in Neighbors[d] /\ n # d
      BY <2>2, NeighborsAre
    <3>2. E \in SUBSET DoneDofs([k \in Dof |-> DONE])
      BY DEF DoneDofs
    <3>3. a \in [Dof -> Int] /\ a[d] = x
      OBVIOUS
    <3>4. z \in Candidates(d, n, a, [k \in Dof |-> DONE])
      BY <2>2, <3>2, AllowsCandidate
    <3>5. IsBeyond(z, x)
      BY <3>1, <3>3, <3>4, CandidatesAre
    <3>. QED BY <3>1, <3>5 DEF IsBeyond, Abs
  <2>3. Allows(z, n, a, D, D) \/ (d \in Neighbors[n] /\ AllowsBy(z, n, d, a, E))
    <3>1. a \in [Dof -> Int]
      OBVIOUS
    <3>. QED BY <1>5, <3>1, AllowsMore
  <2>. QED BY <2>1, <2>2, <2>3
<1>. QED BY <1>3, <1>5 DEF Solves

LEMMA AllowsInt ==
  ASSUME NoObtuseAngle(Int), NEW n \in Dof, NEW w \in [Dof -> Int], NEW st, NEW x,
         Allows(x, n, w, DoneDofs(st), DoneDofs(st))
  PROVE  x \in Int
<1>1. PICK p \in Neighbors[n] \intersect DoneDofs(st) : AllowsBy(x, n, p, w, DoneDofs(st))
  BY DEF Allows
<1>2. n \in Neighbors[p] /\ p \in Dof
  BY <1>1, NeighborsAre
<1>3. x \in Candidates(p, n, w, st)
  BY <1>1, AllowsCandidate
<1>. QED BY <1>2, <1>3, CandidatesAre DEF IsBeyond

(* When the loop ends, what the dofs allow is what Solution has            *)
LEMMA SolutionIs ==
  ASSUME NoObtuseAngle(Int), NEW n \in Dof, v \in [Dof -> Int], NEW x
  PROVE  x \in Solution(n) \ {0} <=> Allows(x, n, v, DoneDofs(status), DoneDofs(status))
<1> DEFINE D == DoneDofs(status)
           near == {p \in Neighbors[n] : status[p] = DONE}
<1>1. near = Neighbors[n] \intersect D /\ near \subseteq Dof
  BY NeighborsAre DEF DoneDofs
<1>2. Solution(n) = {DistFromOne(p, n, v) : p \in near}
        \cup UNION {{DistFromTwo(p, q, n, v) : q \in near \intersect Neighbors[p]} : p \in near}
  BY DEF Solution
<1>3. ASSUME NEW p \in near PROVE DistFromOne(p, n, v) # 0
  <2>1. n \in Neighbors[p] /\ p \in Dof
    BY <1>1, NeighborsAre
  <2>2. DistFromOne(p, n, v) \in Candidates(p, n, v, status)
    BY DEF Candidates
  <2>3. IsBeyond(DistFromOne(p, n, v), v[p])
    BY <2>1, <2>2, CandidatesAre
  <2>. QED BY <2>3 DEF IsBeyond
<1> HIDE DEF near, D
<1>4. x \in Solution(n) \ {0} => Allows(x, n, v, D, D)
  BY <1>1, <1>2 DEF Allows, AllowsBy
<1>5. Allows(x, n, v, D, D) => x \in Solution(n) \ {0}
  BY <1>1, <1>2, <1>3 DEF Allows, AllowsBy
<1>. QED BY <1>4, <1>5 DEF D

(* What the order of acceptance says about the values                      *)
Ordered(f, w, st, h, todo) ==
  /\ \A m \in DoneDofs(st) \ Cells(f) : \A c \in Close(st) : Abs(w[m]) <= Values(st, h)[c]
  /\ todo # {} => DoneDofs(st) \subseteq Cells(f)

LEMMA OrderedIs ==
  ASSUME TypeOK, AbstractProofs!IInv
  PROVE  Ordered(phi, v, status, heap, done)
<1>1. DOMAIN [d \in Interface |-> Abs(phi[d])] = Cells(phi)
  BY DEF Interface, Cells
<1>2. DoneDofs(status) = {d \in Dof : status[d] = DONE}
  BY DEF DoneDofs
<1>3. AbstractProofs!Marched = DoneDofs(status) \ Cells(phi)
  BY <1>1, <1>2 DEF AbstractProofs!Marched, AbstractProofs!Interface
<1>4. done # {} => AbstractProofs!Marched = {}
  BY DEF AbstractProofs!IInv, AbstractProofs!Apart
<1>5. \A m \in AbstractProofs!Marched : \A c \in Close(status) : Abs(v[m]) <= Values(status, heap)[c]
  <2>1. DOMAIN Values(status, heap) = Close(status)
    BY DEF Values
  <2>2. \A m \in AbstractProofs!Marched : m \in Dof
    BY <1>2, <1>3
  <2> HIDE DEF Values, Close
  <2>. QED BY <2>1, <2>2, CandidatesOf DEF AbstractProofs!IInv, AbstractProofs!InOrder
<1>. QED BY <1>3, <1>4, <1>5 DEF Ordered

LEMMA SeedBest ==
  ASSUME NoObtuseAngle(Int), SameFront(Int), NDof <= IndexModulus, TypeOK, Queued,
         Signed(phi, v, status, heap), Ordered(phi, v, status, heap, done),
         Best(phi, v, status, heap, done), Seed
  PROVE  Best(phi, v, status, heap, done)'
<1>1. PICK p \in done : \E u :
        /\ u = FmsHeapUpdate(p, v, status, heap)
        /\ done' = done \ {p} /\ status' = u.status /\ heap' = u.heap
        /\ phi' = phi /\ v' = v
  BY SeedIs
<1>2. PICK u : /\ u = FmsHeapUpdate(p, v, status, heap)
               /\ done' = done \ {p} /\ status' = u.status /\ heap' = u.heap
               /\ phi' = phi /\ v' = v
  BY <1>1
<1>3. /\ p \in Dof /\ status[p] = DONE /\ Shaped(v, status, heap) /\ phi \in [Dof -> Int]
      /\ Holds(status, heap) /\ Reached(status, done)
  BY <1>1, GeometryAssumption DEF TypeOK, Queued
<1> DEFINE D == DoneDofs(status)
           P == D \ done
<1>4. DoneDofs(status') = D
  <2>1. \A d \in Dof : status'[d] = DONE <=> status[d] = DONE
    BY <1>2, <1>3, UpdateCloses
  <2>. QED BY <2>1 DEF DoneDofs
<1>5. DoneDofs(status') \ done' = P \cup {p}
  BY <1>1, <1>2, <1>3, <1>4 DEF DoneDofs
<1>6. P \in SUBSET D /\ P = D \ done /\ D = DoneDofs(status)
  OBVIOUS
<1>7. \A e \in Content(heap) : Solves(e[1], e[2], v, P, D)
  BY DEF Best
<1> HIDE DEF D, P
<1>8. \A e \in Content(u.heap) : Solves(e[1], e[2], v, P \cup {p}, D)
  BY <1>2, <1>3, <1>6, <1>7, UpdateSolves
<1>9. D \ Cells(phi) = {}
  BY <1>1, <1>6 DEF Ordered
<1>. QED BY <1>2, <1>4, <1>5, <1>8, <1>9 DEF Best

LEMMA AcceptBest ==
  ASSUME NoObtuseAngle(Int), SameFront(Int), NDof <= IndexModulus, NEW f \in [Dof -> Int],
         NEW w, NEW st, NEW h, Shaped(w, st, h), Holds(st, h), Reached(st, {}),
         Signed(f, w, st, h), Ordered(f, w, st, h, {}), Best(f, w, st, h, {}),
         NEW d \in Dof, NEW x \in Int, <<x, d>> \in Content(h), 
         \A c \in Close(st) : Values(st, h)[d] <= Values(st, h)[c],
         NEW g, Leaves(d, h, g), NEW s, Accepts(w, st, h, d, x, g, s)
  PROVE  Best(f, s.v, s.status, s.heap, {})
<1> DEFINE a == [w EXCEPT ![d] = x]
           b == [st EXCEPT ![d] = DONE]
           D == DoneDofs(st)
           E == DoneDofs(b)
<1>1. st[d] = CLOSE /\ SameSign(x, f[d]) /\ Cells(f) \in SUBSET Dof /\ w \in [Dof -> Int]
  BY GeometryAssumption DEF Holds, Signed, Cells, Shaped
<1>2. /\ Shaped(a, b, g) /\ Holds(b, g) /\ b[d] = DONE
      /\ Reached(b, {d}) /\ Signed(f, a, b, g)
  <2>1. MarkedDone(w, st, h, d, x, g, a, b)
    BY DoneIs
  <2>2. {} \cup {d} = {d}
    OBVIOUS
  <2> HIDE DEF a, b
  <2>3. /\ Shaped(a, b, g) /\ Holds(b, g) /\ b[d] = DONE
        /\ Reached(b, {} \cup {d}) /\ Signed(f, a, b, g)
    BY <1>1, <2>1 DEF MarkedDone
  <2>. QED BY <2>2, <2>3
<1>3. /\ D \in SUBSET Dof /\ d \in Dof \ D /\ E = D \cup {d} /\ D = E \ {d} /\ D \in SUBSET E
      /\ d \notin Cells(f)
  BY <1>1 DEF DoneDofs, Shaped, CLOSE, DONE, Signed
<1>4. s = FmsHeapUpdate(d, a, b, g)
  BY DEF Accepts
<1>5. /\ a = [w EXCEPT ![d] = x] /\ a[d] = x /\ \A m \in D : a[m] = w[m]
      /\ D = DoneDofs(st) /\ E = DoneDofs(b)
  BY <1>1, <1>3
<1> HIDE DEF a, b, D, E
<1>6. ASSUME NEW n \in Dof \ Cells(f)
      PROVE  \A q, r \in Neighbors[n] \intersect (D \cup {d}) : a[q] < 0 <=> a[r] < 0
  <2>1. a \in [Dof -> Int]
    BY <1>2 DEF Shaped
  <2>2. ASSUME NEW q \in Neighbors[n] \intersect (D \cup {d}),
               NEW r \in Neighbors[n] \intersect (D \cup {d})
        PROVE  a[q] < 0 <=> a[r] < 0
    <3>1. /\ q \in Neighbors[n] \intersect DoneDofs(b) /\ r \in Neighbors[n] \intersect DoneDofs(b)
          /\ n \in Dof /\ n \notin Cells(f)
      BY <1>3, <1>5, <1>6, <2>2
    <3>. QED BY <1>2, <2>1, <3>1, SignsAgree
  <2>. QED BY <2>2
<1>7. \A e \in Content(h) : Solves(e[1], e[2], w, D, D)
  <2>1. D \ {} = D
    OBVIOUS
  <2>. QED BY <1>5, <2>1 DEF Best
<1>8. ASSUME NEW e \in Content(g) PROVE Solves(e[1], e[2], a, D, E)
  <2>1. e \in Content(h) /\ e[1] \in Int /\ e[2] \in Dof \ Cells(f)
    <3>1. e \in Content(h) /\ e[2] \in Dof /\ e[1] \in Int
      BY DEF Leaves, Shaped, IsTyped
    <3>2. st[e[2]] = CLOSE
      BY <3>1 DEF Holds
    <3>. QED BY <3>1, <3>2 DEF Signed, CLOSE, DONE
  <2>2. Solves(e[1], e[2], w, D, D)
    BY <1>7, <2>1
  <2>3. Allows(e[1], e[2], a, E, E) /\ \A y \in Int : Allows(y, e[2], a, D, D) => Abs(e[1]) <= Abs(y)
    <3>1. \A y : Allows(y, e[2], w, D, D) <=> Allows(y, e[2], a, D, D)
      <4> DEFINE n == e[2]
      <4>1. n \in Dof
        BY <2>1
      <4> HIDE DEF n
      <4>2. \A y : Allows(y, n, w, D, D) <=> Allows(y, n, a, D, D)
        BY <1>1, <1>3, <1>5, <4>1, AllowsSame
      <4>. QED BY <4>2 DEF n
    <3>2. Allows(e[1], e[2], a, D, D)
      BY <2>2, <3>1 DEF Solves
    <3>. QED BY <1>3, <2>2, <3>1, <3>2, AllowsWider DEF Solves
  <2>. QED BY <2>3 DEF Solves
<1>9. \A e \in Content(s.heap) : Solves(e[1], e[2], a, D \cup {d}, E)
  BY <1>2, <1>3, <1>4, <1>5, <1>8, UpdateSolves
<1>10. ASSUME NEW m \in E \ Cells(f) PROVE Solves(a[m], m, a, E, E)
  <2>1. m \in Dof /\ a[m] \in Int /\ m \in Dof \ Cells(f)
    BY <1>2, <1>3 DEF Shaped
  <2>2. Solves(a[m], m, w, D, D) /\ (m # d => Abs(a[m]) <= Abs(x))
    <3>1. CASE m = d
      BY <1>5, <1>7, <3>1
    <3>2. CASE m # d
      <4>1. m \in D \ Cells(f) /\ a[m] = w[m] /\ D \ {} = D
        BY <1>3, <1>5, <3>2
      <4>2. Solves(w[m], m, w, D, D)
        BY <1>5, <4>1 DEF Best
      <4>3. Values(st, h)[d] = Abs(x)
        BY ValuesAre
      <4>4. d \in Close(st)
        BY <1>1 DEF Close
      <4>5. Abs(w[m]) <= Values(st, h)[d]
        BY <1>5, <4>1, <4>4 DEF Ordered
      <4>. QED BY <4>1, <4>2, <4>3, <4>5
    <3>. QED BY <3>1, <3>2
  <2>3. \A q, r \in Neighbors[m] \intersect (D \cup {d}) : a[q] < 0 <=> a[r] < 0
    BY <1>6, <2>1
  <2>4. Solves(a[m], m, a, D \cup {d}, D \cup {d})
    BY <1>1, <1>3, <1>5, <2>1, <2>2, <2>3, SolvesLater
  <2>. QED BY <1>3, <2>4
<1>11. DoneDofs(s.status) = E /\ s.v = a
  <2>1. (\A k \in Dof : s.status[k] = DONE <=> b[k] = DONE) /\ s.v = a
    BY <1>2, <1>4, UpdateCloses
  <2>. QED BY <1>5, <2>1 DEF DoneDofs
<1>12. E \ {} = E
  OBVIOUS
<1>13. \A e \in Content(s.heap) : Solves(e[1], e[2], a, E, E)
  BY <1>3, <1>9
<1>. QED BY <1>10, <1>11, <1>12, <1>13 DEF Best

LEMMA MarchBest ==
  ASSUME NoObtuseAngle(Int), SameFront(Int), NDof <= IndexModulus, DOMAIN Twin = {},
         TypeOK, Queued, TopIsSmallest, Signed(phi, v, status, heap),
         Ordered(phi, v, status, heap, done), Best(phi, v, status, heap, done), March
  PROVE  Best(phi, v, status, heap, done)'
<1>1. PICK d \in Dof, x \in Int, s \in {Accepted(heap[1])} :
        /\ d = heap[1][2] /\ x = heap[1][1] /\ heap[1] \in Content(heap)
        /\ Leaves(d, heap, PopHeap(heap))
        /\ Accepts(v, status, heap, d, x, PopHeap(heap), s)
        /\ \/ d \notin DOMAIN Twin /\ v' = s.v /\ status' = s.status /\ heap' = s.heap
           \/ /\ d \in DOMAIN Twin
              /\ \E r : /\ Accepts(s.v, s.status, s.heap, Twin[d], x,
                                   RemoveFromHeap(s.heap, Index(Twin[d])), r)
                        /\ v' = r.v /\ status' = r.status /\ heap' = r.heap
        /\ phi' = phi /\ done' = done /\ done = {}
  BY MarchIs
<1>2. /\ v' = s.v /\ status' = s.status /\ heap' = s.heap
      /\ phi' = phi /\ done' = {} /\ done = {}
  BY <1>1
<1>3. /\ Shaped(v, status, heap) /\ Holds(status, heap) /\ Reached(status, {})
      /\ phi \in [Dof -> Int]
  BY <1>2, GeometryAssumption DEF TypeOK, Queued
<1>4. heap[1] = <<x, d>> /\ <<x, d>> \in Content(heap)
  <2>1. heap[1] \in Int \X Dof
    BY <1>1, <1>3 DEF Shaped, IsTyped
  <2>. QED BY <1>1, <2>1
<1>5. \A c \in Close(status) : Values(status, heap)[d] <= Values(status, heap)[c]
  BY <1>1, <1>3, FirstIsLeast
<1>6. /\ Ordered(phi, v, status, heap, {}) /\ Best(phi, v, status, heap, {})
      /\ Leaves(d, heap, PopHeap(heap)) /\ Accepts(v, status, heap, d, x, PopHeap(heap), s)
  BY <1>1, <1>2
<1>7. Best(phi, s.v, s.status, s.heap, {})
  BY <1>3, <1>4, <1>5, <1>6, AcceptBest
<1>. QED BY <1>2, <1>7

(* When the loop ends, each dof it marched over has the closest value that *)
(* all its neighbours allow, those accepted after it included              *)
THEOREM SolvesDistanceAlways ==
  ASSUME NoObtuseAngle(Int), SameFront(Int), NDof <= IndexModulus, DOMAIN Twin = {}
  PROVE  Spec => []SolvesDistance
<1> DEFINE IInv == TypeOK /\ Queued /\ Signed(phi, v, status, heap)
           JInv == IInv /\ Best(phi, v, status, heap, done)
<1>1. PeriodicSigns
  BY DEF PeriodicSigns
<1>2. Init => JInv
  <2>1. ASSUME Init PROVE Best(phi, v, status, heap, done)
    <3>1. Content(heap) = {}
      BY <2>1 DEF Init, Content
    <3>2. DoneDofs(status) \subseteq Cells(phi)
      BY <2>1 DEF Init, DoneDofs, Interface, Cells, DONE, FAR
    <3>. QED BY <3>1, <3>2 DEF Best
  <2>. QED BY <2>1, TypeInit
<1>3. JInv /\ TopIsSmallest /\ AbstractProofs!IInv /\ [Next]_vars => JInv'
  <2>1. ASSUME JInv, TopIsSmallest, AbstractProofs!IInv, [Next]_vars PROVE JInv'
    <3>1. Ordered(phi, v, status, heap, done)
      BY <2>1, OrderedIs
    <3>2. IInv'
      BY <1>1, <2>1, SeedType, SeedQueued, MarchType, MarchQueued, StutterSame DEF Next
    <3>3. CASE Seed
      BY <2>1, <3>1, <3>2, <3>3, SeedBest
    <3>4. CASE March
      BY <2>1, <3>1, <3>2, <3>4, MarchBest
    <3>5. CASE UNCHANGED vars
      BY <2>1, <3>2, <3>5 DEF vars
    <3>. QED BY <2>1, <3>3, <3>4, <3>5 DEF Next
  <2>. QED BY <2>1
<1>4. JInv => SolvesDistance
  <2>1. SUFFICES ASSUME JInv, Finished, NEW n \in Dof \ Interface, status[n] = DONE
                 PROVE  /\ v[n] \in Solution(n) \ {0}
                        /\ \A x \in Solution(n) \ {0} : Abs(v[n]) <= Abs(x)
    BY DEF SolvesDistance
  <2>2. v \in [Dof -> Int] /\ n \in Dof
    BY <2>1 DEF TypeOK, Shaped
  <2>3. DoneDofs(status) \ done = DoneDofs(status) /\ n \in DoneDofs(status) \ Cells(phi)
    BY <2>1 DEF Finished, DoneDofs, Interface, Cells
  <2>4. Solves(v[n], n, v, DoneDofs(status), DoneDofs(status))
    BY <2>1, <2>3 DEF Best
  <2>5. \A x : x \in Solution(n) \ {0} <=> Allows(x, n, v, DoneDofs(status), DoneDofs(status))
    BY <2>2, SolutionIs
  <2>6. \A x : Allows(x, n, v, DoneDofs(status), DoneDofs(status)) => x \in Int
    BY <2>2, AllowsInt
  <2>. QED BY <2>4, <2>5, <2>6 DEF Solves
<1>5. Spec => []TopIsSmallest
  BY TopIsSmallestAlways
<1>6. Spec => []AbstractProofs!IInv
  BY MarchesInOrder, AbstractProofs!Invariant, PTL
<1>. QED BY <1>2, <1>3, <1>4, <1>5, <1>6, PTL DEF Spec

=============================================================================
