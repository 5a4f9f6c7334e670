--------------------------- MODULE HeatSheet_proofs ---------------------------
(***************************************************************************)
(* Proofs about HeatSheet, for any entries, clubs, heat sizes, officials   *)
(* and bounds.                                                             *)
(***************************************************************************)
EXTENDS HeatSheet, RankingFacts

-----------------------------------------------------------------------------
(* Division. *)

LEMMA Division ==
  ASSUME NEW i \in Nat, NEW h \in Nat \ {0}
  PROVE  /\ i \div h \in Nat /\ i % h \in 0..(h - 1)
         /\ i = h * (i \div h) + (i % h)
OBVIOUS

LEMMA DivisionIsUnique ==
  ASSUME NEW h \in Nat \ {0}, NEW b \in Nat, NEW r \in 0..(h - 1)
  PROVE  (h * b + r) \div h = b /\ (h * b + r) % h = r
OBVIOUS

LEMMA DivisionIsMonotone ==
  ASSUME NEW i \in Nat, NEW h \in Nat \ {0}, NEW q \in Nat, i < h * q
  PROVE  i \div h < q
OBVIOUS

-----------------------------------------------------------------------------
(* The serpentine: each run of heats positions has one for every heat, in    *)
(* turn forwards and backwards.                                              *)

\* The positions of a heat.
Members(heatOf, u) == {i \in DOMAIN heatOf : heatOf[i] = u}

LEMMA SerpentineTyped ==
  ASSUME NEW n \in Nat, NEW heats \in Nat \ {0}
  PROVE  /\ Serpentine(n, heats) \in [0..(n - 1) -> 1..heats]
         /\ \A i \in 0..(n - 1) : i < heats => Serpentine(n, heats)[i] = i + 1
<1> DEFINE plain == Serpentine(n, heats)
<1>1. \A i \in 0..(n - 1) :
        plain[i] = 1 + IF (i \div heats) % 2 = 0 THEN i % heats ELSE heats - 1 - (i % heats)
  BY DEF Serpentine
<1>2. plain \in [0..(n - 1) -> 1..heats]
  <2>1. \A i \in 0..(n - 1) : plain[i] \in 1..heats
    <3> TAKE i \in 0..(n - 1)
    <3>1. i % heats \in 0..(heats - 1)
      BY Division
    <3>2. plain[i] = 1 + (i % heats) \/ plain[i] = 1 + (heats - 1 - (i % heats))
      BY <1>1
    <3> HIDE DEF plain
    <3> QED
      BY <3>1, <3>2
  <2> QED
    BY <2>1 DEF Serpentine
<1>3. ASSUME NEW i \in 0..(n - 1), i < heats
      PROVE  plain[i] = i + 1
  <2>1. i = heats * 0 + i /\ i \in 0..(heats - 1)
    BY <1>3
  <2>2. i \div heats = 0 /\ i % heats = i
    BY <2>1, DivisionIsUnique
  <2> HIDE DEF plain
  <2> QED
    BY <1>1, <2>2
<1> QED
  BY <1>2, <1>3

\* Of one heat no two are in the same run.
LEMMA OnePerRun ==
  ASSUME NEW n \in Nat, NEW heats \in Nat \ {0}, NEW i \in 0..(n - 1), NEW j \in 0..(n - 1),
         Serpentine(n, heats)[i] = Serpentine(n, heats)[j], i \div heats = j \div heats
  PROVE  i = j
<1>1. i % heats \in 0..(heats - 1) /\ j % heats \in 0..(heats - 1)
      /\ i = heats * (i \div heats) + (i % heats)
      /\ j = heats * (j \div heats) + (j % heats)
  BY Division
<1>2. i % heats = j % heats
  BY <1>1 DEF Serpentine
<1> QED
  BY <1>1, <1>2

\* Every full run has one for each heat.
LEMMA SomebodyPerRun ==
  ASSUME NEW n \in Nat, NEW heats \in Nat \ {0}, NEW u \in 1..heats, NEW b \in Nat,
         heats * b + heats <= n
  PROVE  \E i \in 0..(n - 1) : Serpentine(n, heats)[i] = u /\ i \div heats = b
<1> DEFINE r == IF b % 2 = 0 THEN u - 1 ELSE heats - u
           i == heats * b + r
<1>1. r \in 0..(heats - 1)
  OBVIOUS
<1> HIDE DEF r
<1>2. i \in 0..(n - 1)
  <2>1. heats * b \in Nat
    OBVIOUS
  <2> QED
    BY <1>1, <2>1
<1>3. i \div heats = b /\ i % heats = r
  BY <1>1, DivisionIsUnique
<1> HIDE DEF i
<1>4. Serpentine(n, heats)[i] = u
  <2>1. Serpentine(n, heats)[i] = 1 + IF b % 2 = 0 THEN r ELSE heats - 1 - r
    BY <1>2, <1>3 DEF Serpentine
  <2> QED
    BY <2>1 DEF r
<1> QED
  BY <1>2, <1>3, <1>4

\* The heats are even: as many as there are full runs, or one more; and when the
\* runs are no more than the size, none is larger than it.
LEMMA SerpentineEven ==
  ASSUME NEW n \in Nat, NEW heats \in Nat \ {0}, NEW u \in 1..heats
  PROVE  LET in == Members(Serpentine(n, heats), u)
         IN  /\ IsFiniteSet(in) /\ Cardinality(in) \in Nat
             /\ n \div heats <= Cardinality(in) /\ Cardinality(in) <= (n \div heats) + 1
             /\ \A size \in Nat : n <= heats * size => Cardinality(in) <= size
<1> DEFINE plain == Serpentine(n, heats)
           in == Members(plain, u)
           q == n \div heats
<1>0. \A b \in Nat : heats * b + heats <= n
        => \E i \in 0..(n - 1) : plain[i] = u /\ i \div heats = b
  <2> SUFFICES ASSUME NEW b \in Nat, heats * b + heats <= n
               PROVE  \E i \in 0..(n - 1) : Serpentine(n, heats)[i] = u /\ i \div heats = b
    OBVIOUS
  <2> QED
    BY SomebodyPerRun
<1>1. in = {i \in 0..(n - 1) : plain[i] = u}
  BY SerpentineTyped DEF Members
<1>2. IsFiniteSet(in) /\ Cardinality(in) \in Nat
  <2>1. IsFiniteSet(0..(n - 1)) /\ in \in SUBSET (0..(n - 1))
    BY <1>1, FS_Interval
  <2> QED
    BY <2>1, FS_Subset, FS_CardinalityType
<1>3. q \in Nat /\ n % heats \in 0..(heats - 1) /\ n = heats * q + (n % heats)
  BY Division
<1>4. ASSUME NEW m \in Nat, n <= heats * m
      PROVE  Cardinality(in) <= m
  <2> DEFINE run == [i \in in |-> i \div heats]
  <2>1. \A i \in in : run[i] \in 0..(m - 1)
    <3> TAKE i \in in
    <3>1. i \in Nat /\ i < heats * m
      BY <1>1, <1>4
    <3>2. i \div heats \in Nat /\ i \div heats < m
      BY <3>1, Division, DivisionIsMonotone
    <3> QED
      BY <3>2
  <2>2. \A i, j \in in : run[i] = run[j] => i = j
    BY <1>1, OnePerRun
  <2>3. run \in Injection(in, 0..(m - 1))
    BY <2>1, <2>2 DEF Injection, IsInjective
  <2>4. IsFiniteSet(0..(m - 1)) /\ Cardinality(0..(m - 1)) = m
    <3>1. IsFiniteSet(0..(m - 1))
          /\ Cardinality(0..(m - 1)) = IF 0 > m - 1 THEN 0 ELSE m - 1 - 0 + 1
      BY FS_Interval
    <3> QED
      BY <3>1
  <2> HIDE DEF run, in
  <2> QED
    BY <2>3, <2>4, FS_Injection
<1>5. Cardinality(in) <= q + 1
  <2>1. n <= heats * (q + 1)
    BY <1>3
  <2> QED
    BY <1>3, <1>4, <2>1
<1>6. q <= Cardinality(in)
  <2> DEFINE full == {i \in in : i \div heats < q}
             run == [i \in full |-> i \div heats]
  <2>1. run \in [full -> 0..(q - 1)]
    <3>1. \A i \in full : run[i] \in 0..(q - 1)
      <4> TAKE i \in full
      <4>1. i \in Nat
        BY <1>1
      <4>2. i \div heats \in Nat /\ i \div heats < q
        BY <4>1, Division
      <4> QED
        BY <1>3, <4>2
    <3> QED
      BY <3>1
  <2>2. \A b \in 0..(q - 1) : \E i \in full : run[i] = b
    <3> TAKE b \in 0..(q - 1)
    <3>1. heats * b + heats <= n
      <4>1. heats * (b + 1) <= heats * q
        BY <1>3
      <4> QED
        BY <1>3, <4>1
    <3>2. PICK i \in 0..(n - 1) : plain[i] = u /\ i \div heats = b
      <4>1. b \in Nat
        OBVIOUS
      <4> HIDE DEF q
      <4> QED
        BY <1>0, <3>1, <4>1
    <3> QED
      BY <1>1, <1>3, <3>2
  <2>3. run \in Surjection(full, 0..(q - 1))
    BY <2>1, <2>2 DEF Surjection
  <2>4. IsFiniteSet(full) /\ Cardinality(full) <= Cardinality(in) /\ Cardinality(full) \in Nat
    <3>1. full \in SUBSET in
      OBVIOUS
    <3> HIDE DEF full, in
    <3> QED
      BY <1>2, <3>1, FS_Subset, FS_CardinalityType
  <2>5. Cardinality(0..(q - 1)) = q
    <3>1. Cardinality(0..(q - 1)) = IF 0 > q - 1 THEN 0 ELSE q - 1 - 0 + 1
      <4> HIDE DEF q
      <4> QED
        BY <1>3, FS_Interval
    <3> QED
      BY <1>3, <3>1
  <2>6. Cardinality(0..(q - 1)) <= Cardinality(full)
    <3> HIDE DEF run, full
    <3> QED
      BY <2>3, <2>4, FS_Surjection
  <2> HIDE DEF full, in, q
  <2> QED
    BY <1>2, <1>3, <2>4, <2>5, <2>6
<1> QED
  BY <1>2, <1>4, <1>5, <1>6
-----------------------------------------------------------------------------
(* Parting clubmates. *)

Swapped(f, a, b) == [f EXCEPT ![a] = f[b], ![b] = f[a]]

\* Two who change places leave both heats as large as they were.
LEMMA SwapKeepsSizes ==
  ASSUME NEW D, IsFiniteSet(D), NEW f, f = [d \in D |-> f[d]], NEW a \in D, NEW b \in D,
         f[a] # f[b], NEW u
  PROVE  Cardinality(Members(Swapped(f, a, b), u))
           = Cardinality(Members(f, u))
<1> DEFINE g == Swapped(f, a, b)
           old == Members(f, u)
<1>1. Members(g, u) = {d \in D : g[d] = u} /\ old = {d \in D : f[d] = u}
  BY DEF Members, Swapped
<1>2. g[a] = f[b] /\ g[b] = f[a] /\ \A d \in D \ {a, b} : g[d] = f[d]
  BY DEF Swapped
<1>3. IsFiniteSet(old) /\ Cardinality(old) \in Nat
  <2>1. old \in SUBSET D
    BY <1>1
  <2> QED
    BY <2>1, FS_Subset, FS_CardinalityType
<1>4. ASSUME NEW x, NEW y, x \in old, y \notin old
      PROVE  Cardinality((old \ {x}) \union {y}) = Cardinality(old)
  <2>1. IsFiniteSet(old \ {x}) /\ Cardinality(old \ {x}) = Cardinality(old) - 1
    BY <1>3, <1>4, FS_RemoveElement
  <2>2. Cardinality((old \ {x}) \union {y}) = Cardinality(old \ {x}) + 1
    BY <1>4, <2>1, FS_AddElement
  <2> QED
    BY <1>3, <2>1, <2>2
<1> HIDE DEF g, old
<1>5. Cardinality(Members(g, u)) = Cardinality(old)
  <2>1. CASE u = f[a]
    <3>1. Members(g, u) = (old \ {a}) \union {b} /\ a \in old /\ b \notin old
      BY <1>1, <1>2, <2>1
    <3> QED
      BY <1>4, <3>1
  <2>2. CASE u = f[b]
    <3>1. Members(g, u) = (old \ {b}) \union {a} /\ b \in old /\ a \notin old
      BY <1>1, <1>2, <2>2
    <3> QED
      BY <1>4, <3>1
  <2>3. CASE u # f[a] /\ u # f[b]
    <3>1. Members(g, u) = old
      BY <1>1, <1>2, <2>3
    <3> QED
      BY <3>1
  <2> QED
    BY <2>1, <2>2, <2>3
<1> QED
  BY <1>5 DEF g, old

\* What every round of separateClubs keeps of the serpentine.
SeededWell(heatOf, S, heats) ==
  LET n == Cardinality(S)
      plain == Serpentine(n, heats)
  IN  /\ heatOf \in [0..(n - 1) -> 1..heats]
      /\ \A u \in 1..heats : Cardinality(Members(heatOf, u)) = Cardinality(Members(plain, u))
      /\ \A i \in 0..(n - 1) : i < heats => heatOf[i] = i + 1
      /\ \A i, j \in 0..(n - 1) :
           i # j /\ heatOf[i] = heatOf[j] /\ Clubmates(i, j, S) => plain[i] = plain[j]

LEMMA ExchangeKeeps ==
  ASSUME NEW S, Cardinality(S) \in Nat, NEW heats \in Nat \ {0}, NEW heatOf,
         SeededWell(heatOf, S, heats), NEW i \in 0..(Cardinality(S) - 1)
  PROVE  SeededWell(Exchange(heatOf, i, S), S, heats)
<1> DEFINE n == Cardinality(S)
           plain == Serpentine(n, heats)
           new == [heatOf EXCEPT ![i + 1] = heatOf[i + 2], ![i + 2] = heatOf[i + 1]]
           Swaps == /\ i + 2 \in DOMAIN heatOf
                    /\ heatOf[i] = heatOf[i + 1] /\ Clubmates(i, i + 1, S)
                    /\ heatOf[i + 2] # heatOf[i + 1]
                    /\ ~WouldCollide(i + 1, heatOf[i + 2], heatOf, S)
                    /\ ~WouldCollide(i + 2, heatOf[i + 1], heatOf, S)
<1>1. /\ heatOf \in [0..(n - 1) -> 1..heats] /\ n \in Nat
      /\ \A u \in 1..heats : Cardinality(Members(heatOf, u)) = Cardinality(Members(plain, u))
      /\ \A k \in 0..(n - 1) : k < heats => heatOf[k] = k + 1
      /\ \A k, j \in 0..(n - 1) :
           k # j /\ heatOf[k] = heatOf[j] /\ Clubmates(k, j, S) => plain[k] = plain[j]
  BY DEF SeededWell
<1> HIDE DEF n, plain
<1>2. CASE ~Swaps
  <2>1. Exchange(heatOf, i, S) = heatOf
    BY <1>2 DEF Exchange
  <2> QED
    BY <2>1
<1>3. CASE Swaps
  <2>1. Exchange(heatOf, i, S) = new
    BY <1>3 DEF Exchange
  <2>2. i + 1 \in 0..(n - 1) /\ i + 2 \in 0..(n - 1) /\ i \in 0..(n - 1)
    BY <1>1, <1>3 DEF n
  <2>3. /\ new \in [0..(n - 1) -> 1..heats]
        /\ new[i + 1] = heatOf[i + 2] /\ new[i + 2] = heatOf[i + 1]
        /\ \A k \in 0..(n - 1) : k # i + 1 /\ k # i + 2 => new[k] = heatOf[k]
    BY <1>1, <2>2
  <2>4. \A u \in 1..heats : Cardinality(Members(new, u)) = Cardinality(Members(plain, u))
    <3>1. IsFiniteSet(0..(n - 1))
      BY <1>1, FS_Interval
    <3>2. heatOf \in [0..(n - 1) -> 1..heats] /\ heatOf[i + 1] # heatOf[i + 2]
      BY <1>1, <1>3
    <3>3. PICK a, b : a = i + 1 /\ b = i + 2
      OBVIOUS
    <3>4. new = Swapped(heatOf, a, b)
      BY <3>3 DEF Swapped
    <3>5. a \in 0..(n - 1) /\ b \in 0..(n - 1) /\ heatOf[a] # heatOf[b]
      BY <2>2, <3>2, <3>3
    <3>6. \A u : Cardinality(Members(Swapped(heatOf, a, b), u)) = Cardinality(Members(heatOf, u))
      <4>1. heatOf = [k \in 0..(n - 1) |-> heatOf[k]]
        BY <3>2
      <4> DEFINE P == 0..(n - 1)
      <4>2. IsFiniteSet(P) /\ heatOf = [k \in P |-> heatOf[k]] /\ a \in P /\ b \in P
        BY <3>1, <3>5, <4>1
      <4> HIDE DEF new, P
      <4> QED
        BY <3>5, <4>2, SwapKeepsSizes
    <3> HIDE DEF new
    <3> QED
      BY <1>1, <3>4, <3>6
  <2>5. \A k \in 0..(n - 1) : k < heats => new[k] = k + 1
    <3>1. ~(i + 1 < heats)
      <4> SUFFICES ASSUME i + 1 < heats PROVE FALSE
        OBVIOUS
      <4>1. heatOf[i] = i + 1 /\ heatOf[i + 1] = i + 2
        BY <1>1, <2>2
      <4> QED
        BY <1>3, <2>2, <4>1
    <3>2. \A k \in 0..(n - 1) : k < heats => k # i + 1 /\ k # i + 2
      BY <1>1, <2>2, <3>1
    <3> QED
      BY <1>1, <2>3, <3>2
  <2>6. \A k \in 0..(n - 1) : k # i + 1 /\ heatOf[k] = heatOf[i + 2] => ~Clubmates(i + 1, k, S)
    BY <1>1, <1>3 DEF WouldCollide
  <2>7. \A k \in 0..(n - 1) : k # i + 2 /\ heatOf[k] = heatOf[i + 1] => ~Clubmates(i + 2, k, S)
    BY <1>1, <1>3 DEF WouldCollide
  <2>8. \A k, j : Clubmates(k, j, S) => Clubmates(j, k, S)
    BY DEF Clubmates
  <2>9. ASSUME NEW k \in 0..(n - 1), NEW j \in 0..(n - 1), k # j, new[k] = new[j],
               Clubmates(k, j, S)
        PROVE  plain[k] = plain[j]
    <3>1. k # i + 1
      <4> SUFFICES ASSUME k = i + 1 PROVE FALSE
        OBVIOUS
      <4>1. j = i + 2
        BY <2>3, <2>6, <2>9
      <4> QED
        BY <1>3, <2>2, <2>3, <2>9, <4>1
    <3>2. j # i + 1
      <4> SUFFICES ASSUME j = i + 1 PROVE FALSE
        OBVIOUS
      <4>1. k = i + 2
        BY <2>3, <2>6, <2>8, <2>9
      <4> QED
        BY <1>3, <2>2, <2>3, <2>9, <4>1
    <3>3. k # i + 2
      BY <2>3, <2>7, <2>9, <3>1, <3>2
    <3>4. j # i + 2
      BY <2>3, <2>7, <2>8, <2>9, <3>1, <3>2
    <3> QED
      BY <1>1, <2>3, <2>9, <3>1, <3>2, <3>3, <3>4
  <2> HIDE DEF new
  <2> QED
    BY <2>1, <2>3, <2>4, <2>5, <2>9 DEF SeededWell, n, plain
<1> QED
  BY <1>2, <1>3

LEMMA SerpentineIsSeededWell ==
  ASSUME NEW S, Cardinality(S) \in Nat, NEW heats \in Nat \ {0}
  PROVE  SeededWell(Serpentine(Cardinality(S), heats), S, heats)
BY SerpentineTyped DEF SeededWell

\* separateClubs' rounds are well defined, and their result is seeded well.
LEMMA SeparatedWell ==
  ASSUME NEW S, Cardinality(S) \in Nat, NEW heats \in Nat \ {0}
  PROVE  SeededWell(Separated(S, heats)[Cardinality(S)], S, heats)
<1> DEFINE n == Cardinality(S)
           D == {heatOf \in [0..(n - 1) -> 1..heats] : SeededWell(heatOf, S, heats)}
           F == [k \in 1..n |-> [heatOf \in D |-> Exchange(heatOf, k - 1, S)]]
           c == Serpentine(n, heats)
<1>1. c \in D
  BY SerpentineIsSeededWell DEF SeededWell
<1>2. \A k \in 1..n : F[k] \in [D -> D]
  <2>1. \A k \in 1..n, heatOf \in D : Exchange(heatOf, k - 1, S) \in D
    <3> TAKE k \in 1..n, heatOf \in D
    <3>1. k - 1 \in 0..(n - 1)
      OBVIOUS
    <3>2. SeededWell(Exchange(heatOf, k - 1, S), S, heats)
      BY <3>1, ExchangeKeeps
    <3> QED
      BY <3>2 DEF SeededWell
  <2> HIDE DEF D, n
  <2> QED
    BY <2>1
<1>3. PICK g \in [0..n -> D] : g[0] = c /\ \A k \in 1..n : g[k] = F[k][g[k - 1]]
  <2>1. n \in Nat
    OBVIOUS
  <2>2. Recursions(n, D, c, F) # {}
    <3> HIDE DEF n, D, F, c
    <3> QED
      BY <1>1, <1>2, <2>1, RecursionExists
  <2> HIDE DEF n, D, F, c
  <2> QED
    BY <2>2 DEF Recursions
<1>4. g = [k \in 0..n |-> IF k = 0 THEN c ELSE Exchange(g[k - 1], k - 1, S)]
  <2>1. \A k \in 1..n : g[k] = Exchange(g[k - 1], k - 1, S)
    <3> TAKE k \in 1..n
    <3>1. k - 1 \in 0..n
      OBVIOUS
    <3>2. g[k - 1] \in D
      BY <3>1
    <3> HIDE DEF D
    <3> QED
      BY <1>3, <3>2
  <2>2. \A k \in 0..n : g[k] = IF k = 0 THEN c ELSE Exchange(g[k - 1], k - 1, S)
    <3> TAKE k \in 0..n
    <3>1. k = 0 \/ k \in 1..n
      OBVIOUS
    <3> HIDE DEF n, D, F, c
    <3> QED
      BY <1>3, <2>1, <3>1
  <2> HIDE DEF n, D, F, c
  <2> QED
    BY <2>2
<1> DEFINE f == Separated(S, heats)
<1>5. f = [k \in 0..n |-> IF k = 0 THEN c ELSE Exchange(f[k - 1], k - 1, S)]
  BY <1>4 DEF Separated
<1>6. ASSUME NEW m \in 0..n, f[m] \notin D
      PROVE  FALSE
  <2> DEFINE T == {k \in 0..n : f[k] \notin D}
  <2>1. PICK k \in T : \A l \in T : k <= l
    <3>1. T \in SUBSET Nat
      OBVIOUS
    <3>2. m \in T
      BY <1>6
    <3> HIDE DEF T
    <3> QED
      BY <3>1, <3>2, LeastNatural
  <2>2. k \in 0..n /\ f[k] \notin D
    OBVIOUS
  <2> HIDE DEF f
  <2>3. k # 0
    <3> HIDE DEF D, c
    <3> QED
      BY <1>1, <1>5, <2>2
  <2>4. k \in 1..n /\ k - 1 \in 0..n
    BY <2>2, <2>3
  <2>5. f[k - 1] \in D
    <3>1. k - 1 \notin T
      BY <2>1, <2>4
    <3> QED
      BY <2>4, <3>1
  <2>6. f[k] = F[k][f[k - 1]]
    <3>1. f[k] = Exchange(f[k - 1], k - 1, S)
      <4> HIDE DEF n, c
      <4> QED
        BY <1>5, <2>2, <2>3
    <3> HIDE DEF D, n
    <3> QED
      BY <2>4, <2>5, <3>1
  <2> HIDE DEF D, F
  <2> QED
    BY <1>2, <2>2, <2>4, <2>5, <2>6
<1>7. f[n] \in D
  BY <1>6
<1> QED
  BY <1>7
-----------------------------------------------------------------------------
(* From positions to entries. *)

\* RankCandidates puts every candidate in a place of their own, and leaves none free.
LEMMA PlacesOfCandidates ==
  ASSUME NEW S \in SUBSET Entries
  PROVE  /\ IsFiniteSet(S) /\ Cardinality(S) \in Nat
         /\ \A e \in S : Position(e, S) \in 0..(Cardinality(S) - 1)
         /\ \A e, d \in S : Position(e, S) = Position(d, S) => e = d
         /\ \A i \in 0..(Cardinality(S) - 1) : \E e \in S : Position(e, S) = i
         /\ \A e \in S : EntryAt(Position(e, S), S) = e
<1> DEFINE R == {p \in Entries \X Entries : Rank[p[1]] < Rank[p[2]]}
<1>1. IsFiniteSet(S) /\ Cardinality(S) \in Nat
  BY RankAssumption, FS_Subset, FS_CardinalityType
<1>2. TotalOrder(R, S)
  BY RankAssumption DEF TotalOrder
<1>3. \A e \in S : Positions(R, S)[e] = Position(e, S)
  <2> TAKE e \in S
  <2>1. AheadOf(e, R, S) = {d \in S : Rank[d] < Rank[e]}
    BY DEF AheadOf
  <2> QED
    BY <2>1 DEF Positions, Position
<1> HIDE DEF R
<1>4. /\ \A e \in S : Position(e, S) \in 0..(Cardinality(S) - 1)
      /\ \A e, d \in S : Position(e, S) = Position(d, S) => e = d
      /\ \A i \in 0..(Cardinality(S) - 1) : \E e \in S : Position(e, S) = i
  BY <1>1, <1>2, <1>3, PositionsBijective
<1>5. \A e \in S : EntryAt(Position(e, S), S) = e
  BY <1>4 DEF EntryAt
<1> QED
  BY <1>1, <1>4, <1>5

\* SeedHeats: the heats of the positions, passed on to the entries.
LEMMA SeedsAreThePlaces ==
  ASSUME NEW S \in SUBSET Entries, NEW heats \in Nat \ {0}
  PROVE  \E places :
           /\ SeededWell(places, S, heats)
           /\ SeedHeats(S, heats) \in [S -> 1..heats]
           /\ \A e \in S : SeedHeats(S, heats)[e] = places[Position(e, S)]
<1> DEFINE places == Separated(S, heats)[Cardinality(S)]
<1>1. Cardinality(S) \in Nat /\ \A e \in S : Position(e, S) \in 0..(Cardinality(S) - 1)
  BY PlacesOfCandidates
<1>2. SeededWell(places, S, heats)
  BY <1>1, SeparatedWell
<1> HIDE DEF places
<1>3. SeedHeats(S, heats) = [e \in S |-> places[Position(e, S)]]
  BY DEF SeedHeats, places
<1>4. places \in [0..(Cardinality(S) - 1) -> 1..heats]
  BY <1>2 DEF SeededWell
<1> QED
  BY <1>1, <1>2, <1>3, <1>4

\* A heat has as many entries as it has places.
LEMMA AsManyAsPlaces ==
  ASSUME NEW S \in SUBSET Entries, NEW places, DOMAIN places = 0..(Cardinality(S) - 1), NEW u
  PROVE  Cardinality({e \in S : places[Position(e, S)] = u}) = Cardinality(Members(places, u))
<1> DEFINE P == 0..(Cardinality(S) - 1)
           heat == {e \in S : places[Position(e, S)] = u}
           in == Members(places, u)
           at == [e \in heat |-> Position(e, S)]
<1>1. /\ Cardinality(S) \in Nat /\ IsFiniteSet(S)
      /\ \A e \in S : Position(e, S) \in P
      /\ \A e, d \in S : Position(e, S) = Position(d, S) => e = d
      /\ \A i \in P : \E e \in S : Position(e, S) = i
  BY PlacesOfCandidates
<1>2. in = {i \in P : places[i] = u}
  BY DEF Members
<1> HIDE DEF P, in
<1>3. at \in Bijection(heat, in)
  <2>1. at \in [heat -> in]
    BY <1>1, <1>2
  <2>2. \A e, d \in heat : at[e] = at[d] => e = d
    BY <1>1
  <2>3. \A i \in in : \E e \in heat : at[e] = i
    BY <1>1, <1>2
  <2> HIDE DEF at, heat
  <2> QED
    BY <2>1, <2>2, <2>3 DEF Bijection, Injection, IsInjective, Surjection
<1>4. IsFiniteSet(heat)
  BY <1>1, FS_Subset
<1> HIDE DEF at, heat
<1>5. Cardinality(heat) = Cardinality(in)
  BY <1>3, <1>4, FS_Bijection DEF ExistsBijection
<1> QED
  BY <1>5 DEF heat, in

-----------------------------------------------------------------------------
(* The inductive invariant. *)

\* A row nobody is in is blank.
Filled(sheet) == \A u \in Units, e \in Entries : ~sheet[u][e].in => sheet[u][e] = NoRow

\* A generation under way has somebody to seed in heats the round can get, and
\* goes by a sheet whose units the round still has.
GenerationOK(g) ==
  /\ g.at # "idle" => g.pool # {} /\ HeatCount(g) \in Units
  /\ Filled(g.rows)
  /\ \A u \in Units, e \in Entries : g.rows[u][e].in => u <= unitCount

HeatInv ==
  /\ HeatTypeOK
  /\ Filled(rows)
  /\ \A o \in Offices : GenerationOK(gens[o])

LEMMA NothingUnderWay ==
  /\ NoGeneration \in Generation /\ GenerationOK(NoGeneration)
  /\ NoForm \in Form /\ EmptySheet \in Sheet /\ Filled(EmptySheet)
<1>1. EmptySheet \in Sheet /\ Filled(EmptySheet)
  BY DEF EmptySheet, Sheet, Row, NoRow, Filled
<1>2. \A u \in Units, e \in Entries : ~EmptySheet[u][e].in
  BY DEF EmptySheet, NoRow
<1>3. NoGeneration \in Generation
  BY <1>1, RequestsAssumption DEF NoGeneration, Generation
<1>4. NoGeneration.rows = EmptySheet /\ NoGeneration.at = "idle"
  BY DEF NoGeneration
<1>5. GenerationOK(NoGeneration)
  BY <1>1, <1>2, <1>4 DEF GenerationOK
<1>6. NoForm \in Form
  BY RankAssumption DEF NoForm, Form
<1> QED
  BY <1>1, <1>3, <1>5, <1>6

LEMMA HeatInitially == HeatInit => HeatInv
<1> SUFFICES ASSUME HeatInit PROVE HeatInv
  OBVIOUS
<1>1. status \in [Entries -> {"entered", "confirmed", "dns"}]
  BY DEF HeatInit
<1>2. rows \in Sheet /\ Filled(rows) /\ (\A u \in Units, e \in Entries : ~rows[u][e].in)
  BY NothingUnderWay DEF HeatInit, EmptySheet, NoRow
<1>3. gens \in [Offices -> Generation] /\ \A o \in Offices : GenerationOK(gens[o])
  BY NothingUnderWay DEF HeatInit
<1>4. forms \in [Offices -> Form]
  BY NothingUnderWay DEF HeatInit
<1>5. unitCount \in Units /\ closing \subseteq Entries /\ coded \subseteq Entries
  BY HeatBoundsAssumption, AtStartAssumption DEF HeatInit, Units
<1> QED
  BY <1>1, <1>2, <1>3, <1>4, <1>5, HeatBoundsAssumption DEF HeatInit, HeatInv, HeatTypeOK

\* Changes of the pool leave the sheet and the requests alone.
LEMMA PoolStepKeeps ==
  ASSUME HeatInv, PoolStep
  PROVE  HeatInv' /\ UNCHANGED <<later, clubOf, rows, unitCount, gens, forms>>
<1>1. /\ status' \in [Entries -> {"entered", "confirmed", "dns"}]
      /\ closing' \subseteq Entries /\ coded' \subseteq Entries
      /\ changes' \in 0..MaxChanges
      /\ UNCHANGED <<later, clubOf, rows, unitCount, gens, forms, generations, overrides>>
  <2> HIDE DEF NoGeneration, NoForm
  <2>1. /\ status \in [Entries -> {"entered", "confirmed", "dns"}]
        /\ closing \subseteq Entries /\ coded \subseteq Entries /\ changes \in 0..MaxChanges
        /\ MaxChanges \in Nat
    BY HeatBoundsAssumption DEF HeatInv, HeatTypeOK
  <2>2. ASSUME NEW e \in Entries, Confirm(e) \/ Reinstate(e)
        PROVE  <1>1!:
    BY <2>1, <2>2 DEF Confirm, Reinstate, SetStatus, PoolChange, sheetVars
  <2>3. ASSUME NEW e \in Entries, CloseMark(e)
        PROVE  <1>1!:
    BY <2>1, <2>3 DEF CloseMark, SetStatus, sheetVars
  <2>4. ASSUME NEW e \in Entries, Advance(e)
        PROVE  <1>1!:
    BY <2>1, <2>4 DEF Advance, PoolChange, sheetVars
  <2>5. CASE CloseList
    BY <2>1, <2>5 DEF CloseList, sheetVars
  <2>6. CASE CodesWiped
    BY <2>1, <2>6 DEF CodesWiped, PoolChange, sheetVars
  <2> QED
    BY <2>2, <2>3, <2>4, <2>5, <2>6 DEF PoolStep
<1>2. HeatTypeOK'
  BY <1>1 DEF HeatInv, HeatTypeOK
<1>3. Filled(rows)' /\ \A o \in Offices : GenerationOK(gens[o])'
  BY <1>1 DEF HeatInv, GenerationOK, HeatCount
<1> QED
  BY <1>1, <1>2, <1>3 DEF HeatInv

\* There are heats enough for everybody, and at least one.
LEMMA HeatsEnough ==
  ASSUME NEW n \in Nat \ {0}, NEW size \in Nat \ {0}
  PROVE  ChooseHeatCount(n, size) \in Nat \ {0} /\ n <= ChooseHeatCount(n, size) * size
<1> DEFINE q == (n + size - 1) \div size
           r == (n + size - 1) % size
<1>1. q \in Nat /\ r \in 0..(size - 1) /\ n + size - 1 = size * q + r
  <2> DEFINE m == n + size - 1
  <2>1. m \in Nat
    OBVIOUS
  <2> HIDE DEF m
  <2> QED
    BY <2>1, Division DEF m
<1> HIDE DEF q, r
<1>2. size * q = q * size /\ size * q \in Nat /\ size * 0 = 0
  BY <1>1
<1>3. q # 0
  BY <1>1, <1>2
<1> QED
  BY <1>1, <1>2, <1>3 DEF ChooseHeatCount, q

LEMMA HeatSizeIsPositive ==
  ASSUME NEW r \in Requests
  PROVE  HeatSize(r) \in Nat \ {0}
<1>1. r \in [size : Nat, lanes : Nat]
  BY RequestsAssumption
<1> QED
  BY <1>1 DEF HeatSize, DefaultMaxHeatSize

LEMMA PoolIsEntries ==
  ASSUME HeatInv
  PROVE  /\ Pool \subseteq Entries
         /\ Pool # {} => Cardinality(Pool) \in Nat \ {0}
<1>1. Pool \subseteq Entries
  BY DEF HeatInv, HeatTypeOK, Pool
<1>2. IsFiniteSet(Pool)
  BY <1>1, RankAssumption, FS_Subset
<1> QED
  BY <1>1, <1>2, FS_CardinalityType, FS_EmptySet

LEMMA ReadPoolKeeps ==
  ASSUME HeatInv, NEW o \in Offices, NEW r \in Requests, ReadPool(o, r)
  PROVE  HeatInv'
<1> DEFINE g == [NoGeneration EXCEPT !.at = "pooled", !.request = r, !.pool = Pool]
<1>1. NoGeneration \in [at : {"idle", "pooled", "read"}, request : Requests,
                        pool : SUBSET Entries, rows : Sheet]
  BY NothingUnderWay DEF Generation
<1>2. /\ g.at = "pooled" /\ g.request = r /\ g.pool = Pool /\ g.rows = NoGeneration.rows
      /\ g \in [at : {"idle", "pooled", "read"}, request : Requests,
                pool : SUBSET Entries, rows : Sheet]
  BY <1>1, PoolIsEntries
<1> HIDE DEF g
<1>3. GenerationOK(g)
  <2>1. HeatCount(g) \in Units /\ g.pool # {}
    <3>1. ChooseHeatCount(Cardinality(Pool), HeatSize(r)) \in Nat \ {0}
      BY PoolIsEntries, HeatSizeIsPositive, HeatsEnough DEF ReadPool
    <3> QED
      BY <1>2, <3>1, HeatBoundsAssumption DEF ReadPool, HeatCount, Units
  <2> QED
    BY <1>2, <2>1, NothingUnderWay DEF GenerationOK
<1>4. gens' = [gens EXCEPT ![o] = g] /\ gens \in [Offices -> Generation]
  BY DEF ReadPool, g, HeatInv, HeatTypeOK
<1>5. gens' \in [Offices -> Generation]
  BY <1>2, <1>4 DEF Generation
<1>6. UNCHANGED <<later, clubOf, status, closing, coded, rows, unitCount, forms, overrides, changes>>
      /\ generations' \in 0..MaxGenerations
  BY HeatBoundsAssumption DEF ReadPool, HeatInv, HeatTypeOK, poolVars, sheetVars
<1>7. HeatTypeOK'
  BY <1>5, <1>6 DEF HeatInv, HeatTypeOK
<1>8. \A p \in Offices : GenerationOK(gens[p])'
  BY <1>3, <1>4, <1>6 DEF HeatInv, GenerationOK, HeatCount
<1> QED
  BY <1>6, <1>7, <1>8 DEF HeatInv, Filled

LEMMA ReadRowsKeeps ==
  ASSUME HeatInv, NEW o \in Offices, ReadRows(o)
  PROVE  HeatInv'
<1> DEFINE g == [gens[o] EXCEPT !.at = "read", !.rows = rows]
<1>1. gens[o] \in [at : {"idle", "pooled", "read"}, request : Requests,
                   pool : SUBSET Entries, rows : Sheet]
      /\ rows \in Sheet
  BY DEF HeatInv, HeatTypeOK, Generation
<1>2. gens' = [gens EXCEPT ![o] = g] /\ gens \in [Offices -> Generation]
  BY <1>1 DEF ReadRows, HeatInv, HeatTypeOK
<1>3. /\ g.at = "read" /\ g.request = gens[o].request /\ g.pool = gens[o].pool /\ g.rows = rows
      /\ g \in [at : {"idle", "pooled", "read"}, request : Requests,
                pool : SUBSET Entries, rows : Sheet]
  BY <1>1
<1> HIDE DEF g
<1>4. HeatCount(g) = HeatCount(gens[o])
  BY <1>3 DEF HeatCount
<1>5. GenerationOK(g)
  <2>1. \A u \in Units, e \in Entries : rows[u][e].in => u <= unitCount
    BY DEF HeatInv, HeatTypeOK
  <2>2. g.pool # {} /\ HeatCount(g) \in Units
    BY <1>3, <1>4 DEF ReadRows, HeatInv, GenerationOK
  <2> QED
    BY <1>3, <2>1, <2>2 DEF HeatInv, GenerationOK
<1>6. gens' \in [Offices -> Generation]
  BY <1>2, <1>3 DEF Generation
<1>7. UNCHANGED <<later, clubOf, status, closing, coded, rows, unitCount, forms, generations,
                  overrides, changes>>
  BY DEF ReadRows, poolVars, sheetVars
<1>8. HeatTypeOK'
  BY <1>6, <1>7 DEF HeatInv, HeatTypeOK
<1>9. \A p \in Offices : GenerationOK(gens[p])'
  BY <1>2, <1>5, <1>7 DEF HeatInv, GenerationOK, HeatCount
<1> QED
  BY <1>7, <1>8, <1>9 DEF HeatInv, Filled

\* A generation that is over, or has not begun, keeps nothing.
LEMMA GenFailsKeeps ==
  ASSUME HeatInv, NEW o \in Offices, GenFails(o)
  PROVE  HeatInv'
<1>1. gens' = [gens EXCEPT ![o] = NoGeneration] /\ gens \in [Offices -> Generation]
  BY DEF GenFails, HeatInv, HeatTypeOK
<1>2. gens' \in [Offices -> Generation]
  BY <1>1, NothingUnderWay
<1>3. UNCHANGED <<later, clubOf, status, closing, coded, rows, unitCount, forms, generations,
                  overrides, changes>>
  BY DEF GenFails, poolVars, sheetVars
<1>4. HeatTypeOK'
  BY <1>2, <1>3 DEF HeatInv, HeatTypeOK
<1>5. \A p \in Offices : GenerationOK(gens[p])'
  BY <1>1, <1>3, NothingUnderWay DEF HeatInv, GenerationOK, HeatCount
<1> QED
  BY <1>3, <1>4, <1>5 DEF HeatInv, Filled

\* What a row of the round may be: blank, or in a unit the round has.
RowOK(row, u, count) ==
  /\ row \in Row
  /\ row.in => u <= count /\ row.version > 0
  /\ ~row.in => row = NoRow

LEMMA RowsAreOK ==
  ASSUME HeatInv
  PROVE  \A u \in Units, e \in Entries : RowOK(rows[u][e], u, unitCount)
BY DEF HeatInv, HeatTypeOK, Sheet, Filled, RowOK

LEMMA SavedIsOK ==
  ASSUME NEW row \in Row, NEW lane \in Nat, NEW manual \in BOOLEAN, NEW u, NEW count, u <= count
  PROVE  RowOK(Saved(row, lane, manual), u, count)
BY DEF Saved, Row, RowOK

LEMMA NoRowIsOK ==
  ASSUME NEW u, NEW count
  PROVE  RowOK(NoRow, u, count)
BY DEF NoRow, Row, RowOK

LEMMA GenerationIsTyped ==
  ASSUME HeatInv, NEW o \in Offices
  PROVE  /\ gens[o].at \in {"idle", "pooled", "read"} /\ gens[o].request \in Requests
         /\ gens[o].pool \subseteq Entries /\ gens[o].rows \in Sheet
         /\ Free(gens[o]) \in SUBSET Entries /\ Free(gens[o]) \subseteq gens[o].pool
         /\ gens[o].request.lanes \in Nat
         /\ GenerationOK(gens[o])
<1>1. gens[o] \in [at : {"idle", "pooled", "read"}, request : Requests,
                   pool : SUBSET Entries, rows : Sheet]
  BY DEF HeatInv, HeatTypeOK, Generation
<1>2. GenerationOK(gens[o])
  BY DEF HeatInv
<1> QED
  BY <1>1, <1>2, RequestsAssumption DEF Free

LEMMA HeatsGivenOut ==
  ASSUME HeatInv, NEW o \in Offices, gens[o].at = "read"
  PROVE  /\ HeatCount(gens[o]) \in Units /\ HeatCount(gens[o]) \in Nat \ {0}
         /\ SeedHeats(Free(gens[o]), HeatCount(gens[o]))
              \in [Free(gens[o]) -> 1..HeatCount(gens[o])]
<1>1. HeatCount(gens[o]) \in Units /\ HeatCount(gens[o]) \in Nat \ {0}
  BY GenerationIsTyped, HeatBoundsAssumption DEF GenerationOK, Units
<1>2. Free(gens[o]) \in SUBSET Entries
  BY GenerationIsTyped
<1> QED
  BY <1>1, <1>2, SeedsAreThePlaces

LEMMA ClearedIsOK ==
  ASSUME HeatInv, NEW o \in Offices, NEW u \in Units, NEW e \in Entries
  PROVE  RowOK(Cleared(gens[o], u, e), u, unitCount)
<1> DEFINE g == gens[o]
<1>1. RowOK(rows[u][e], u, unitCount) /\ rows[u][e] \in Row
  BY RowsAreOK DEF RowOK
<1>2. g.rows[u][e].lane # 0 => u <= unitCount
  <2>1. g.rows[u][e].in \/ g.rows[u][e] = NoRow
    BY GenerationIsTyped DEF GenerationOK, Filled
  <2>2. g.rows[u][e].in => u <= unitCount
    BY GenerationIsTyped DEF GenerationOK
  <2> QED
    BY <2>1, <2>2 DEF NoRow
<1>3. u <= unitCount => RowOK(Saved(rows[u][e], 0, FALSE), u, unitCount)
  BY <1>1, SavedIsOK
<1> QED
  BY <1>1, <1>2, <1>3, NoRowIsOK DEF Cleared

LEMMA GeneratedIsOK ==
  ASSUME HeatInv, NEW o \in Offices, gens[o].at = "read",
         NEW heatOf \in [Free(gens[o]) -> 1..HeatCount(gens[o])],
         NEW draw \in Draws(gens[o], heatOf)
  PROVE  \A u \in Units, e \in Entries :
           RowOK(Generated(gens[o], heatOf, draw)[u][e], u, UnitsAfter(gens[o]))
<1> DEFINE g == gens[o]
<1>1. draw \in [Free(g) -> Nat]
  <2>1. draw \in [Free(g) -> {0}] \/ draw \in [Free(g) -> 1..g.request.lanes]
    BY DEF Draws
  <2> QED
    BY <2>1, GenerationIsTyped
<1>2. /\ HeatCount(g) \in Nat /\ unitCount \in Nat
      /\ unitCount <= UnitsAfter(g) /\ HeatCount(g) <= UnitsAfter(g) /\ UnitsAfter(g) \in Nat
  BY HeatsGivenOut, HeatBoundsAssumption DEF HeatInv, HeatTypeOK, UnitsAfter, Units
<1> TAKE u \in Units, e \in Entries
<1> HIDE DEF g
<1>3. RowOK(Cleared(g, u, e), u, unitCount) /\ Cleared(g, u, e) \in Row
  BY ClearedIsOK DEF RowOK, g
<1>4. RowOK(Cleared(g, u, e), u, UnitsAfter(g))
  BY <1>2, <1>3, HeatBoundsAssumption DEF RowOK, Units
<1>5. ASSUME e \in Free(g), heatOf[e] = u
      PROVE  RowOK(Saved(Cleared(g, u, e), draw[e], FALSE), u, UnitsAfter(g))
  <2>1. u <= UnitsAfter(g) /\ draw[e] \in Nat
    BY <1>1, <1>2, <1>5 DEF g
  <2> QED
    BY <1>3, <2>1, SavedIsOK
<1>6. Generated(g, heatOf, draw)[u][e]
        = IF e \in Free(g) /\ heatOf[e] = u THEN Saved(Cleared(g, u, e), draw[e], FALSE)
          ELSE Cleared(g, u, e)
  BY DEF Generated
<1> QED
  BY <1>4, <1>5, <1>6 DEF g

\* A sheet whose rows are right is a sheet.
LEMMA SheetFromRows ==
  ASSUME NEW sheet, sheet = [u \in Units |-> [e \in Entries |-> sheet[u][e]]], NEW count,
         \A u \in Units, e \in Entries : RowOK(sheet[u][e], u, count)
  PROVE  /\ sheet \in Sheet /\ Filled(sheet)
         /\ \A u \in Units, e \in Entries :
              sheet[u][e].in => u <= count /\ sheet[u][e].version > 0
<1>1. \A u \in Units, e \in Entries : sheet[u][e] \in Row
  BY DEF RowOK
<1>2. sheet \in Sheet
  BY <1>1, Zenon DEF Sheet
<1> QED
  BY <1>2 DEF RowOK, Filled

LEMMA GenCommitKeeps ==
  ASSUME HeatInv, NEW o \in Offices, GenCommit(o)
  PROVE  HeatInv'
<1> DEFINE g == gens[o]
           heatOf == SeedHeats(Free(g), HeatCount(g))
<1>1. PICK draw \in Draws(g, heatOf) : rows' = Generated(g, heatOf, draw)
  BY DEF GenCommit
<1>2. /\ g.at = "read" /\ gens' = [gens EXCEPT ![o] = NoGeneration] /\ unitCount' = UnitsAfter(g)
      /\ UNCHANGED <<later, clubOf, status, closing, coded, forms, generations, overrides, changes>>
      /\ gens \in [Offices -> Generation]
  BY DEF GenCommit, poolVars, HeatInv, HeatTypeOK
<1>3. heatOf \in [Free(g) -> 1..HeatCount(g)]
  BY <1>2, HeatsGivenOut
<1>4. \A u \in Units, e \in Entries : RowOK(rows'[u][e], u, unitCount')
  <2> HIDE DEF heatOf
  <2> QED
    BY <1>1, <1>2, <1>3, GeneratedIsOK
<1>5. /\ rows' \in Sheet /\ Filled(rows')
      /\ \A u \in Units, e \in Entries : rows'[u][e].in => u <= unitCount' /\ rows'[u][e].version > 0
  <2>1. rows' = [u \in Units |-> [e \in Entries |-> rows'[u][e]]]
    <3> HIDE DEF heatOf, g
    <3> QED
      BY <1>1 DEF Generated
  <2> QED
    BY <1>4, <2>1, SheetFromRows
<1>6. unitCount' \in Units /\ unitCount <= unitCount' /\ unitCount \in Units
  BY <1>2, HeatsGivenOut, HeatBoundsAssumption DEF HeatInv, HeatTypeOK, UnitsAfter, Units
<1>7. gens' \in [Offices -> Generation]
  BY <1>2, NothingUnderWay
<1>8. HeatTypeOK'
  <2> HIDE DEF g, heatOf
  <2> QED
    BY <1>2, <1>5, <1>6, <1>7 DEF HeatInv, HeatTypeOK
<1>9. \A p \in Offices : GenerationOK(gens[p])'
  <2>1. GenerationOK(NoGeneration)'
    BY DEF NoGeneration, GenerationOK, Filled, EmptySheet, NoRow
  <2>2. ASSUME NEW p \in Offices, p # o
        PROVE  GenerationOK(gens[p])'
    <3>1. gens'[p] = gens[p] /\ GenerationOK(gens[p])
      BY <1>2, <2>2, GenerationIsTyped
    <3>2. \A u \in Units : u <= unitCount => u <= unitCount'
      BY <1>6, HeatBoundsAssumption DEF Units
    <3> HIDE DEF g, heatOf
    <3> QED
      BY <3>1, <3>2 DEF GenerationOK, HeatCount
  <2>3. gens'[o] = NoGeneration
    BY <1>2
  <2>4. GenerationOK(gens[o])'
    BY <2>1, <2>3 DEF GenerationOK, HeatCount, NoGeneration
  <2> QED
    BY <2>2, <2>4
<1> QED
  BY <1>5, <1>8, <1>9 DEF HeatInv

LEMMA OpenFormKeeps ==
  ASSUME HeatInv, NEW o \in Offices, NEW e \in Entries, OpenForm(o, e)
  PROVE  HeatInv'
<1>1. PICK u \in Units :
        forms' = [forms EXCEPT ![o] = [open |-> TRUE, entry |-> e, version |-> rows[u][e].version]]
  BY DEF OpenForm
<1>2. rows[u][e].version \in Nat
  BY RowsAreOK DEF RowOK, Row
<1>3. forms' \in [Offices -> Form]
  BY <1>1, <1>2 DEF Form, HeatInv, HeatTypeOK
<1>4. UNCHANGED <<later, clubOf, status, closing, coded, rows, unitCount, gens, generations,
                  overrides, changes>>
  BY DEF OpenForm, poolVars, sheetVars
<1>5. HeatTypeOK'
  BY <1>3, <1>4 DEF HeatInv, HeatTypeOK
<1> QED
  BY <1>4, <1>5 DEF HeatInv, Filled, GenerationOK, HeatCount

LEMMA DropFormKeeps ==
  ASSUME HeatInv, NEW o \in Offices, DropForm(o)
  PROVE  HeatInv'
<1>1. forms' \in [Offices -> Form]
  BY NothingUnderWay DEF DropForm, HeatInv, HeatTypeOK
<1>2. UNCHANGED <<later, clubOf, status, closing, coded, rows, unitCount, gens, generations,
                  overrides, changes>>
  BY DEF DropForm, poolVars, sheetVars
<1>3. HeatTypeOK'
  BY <1>1, <1>2 DEF HeatInv, HeatTypeOK
<1> QED
  BY <1>2, <1>3 DEF HeatInv, Filled, GenerationOK, HeatCount

\* The list of the round has a first row for whoever has a seat.
LEMMA FirstRowExists ==
  ASSUME HeatInv, NEW e \in Entries
  PROVE  /\ FirstRow(e) \in Row
         /\ Seated(e) => FirstUnit(e) \in Units /\ rows[FirstUnit(e)][e].in
<1> DEFINE T == {u \in Units : rows[u][e].in}
<1>1. CASE Seated(e)
  <2>1. T \in SUBSET Nat /\ T # {}
    BY <1>1 DEF Seated, Units
  <2>2. PICK u \in T : \A w \in T : u <= w
    <3> HIDE DEF T
    <3> QED
      BY <2>1, LeastNatural
  <2>3. /\ u \in Units /\ u \in Nat /\ rows[u][e].in
        /\ \A w \in 1..(u - 1) : ~rows[w][e].in
    <3>1. \A w \in 1..(u - 1) : w \in Units /\ ~(u <= w)
      BY <2>1, HeatBoundsAssumption DEF Units
    <3> QED
      BY <2>1, <2>2, <3>1
  <2>4. rows[FirstUnit(e)][e].in /\ \A w \in 1..(FirstUnit(e) - 1) : ~rows[w][e].in
    BY <2>3 DEF FirstUnit
  <2>5. FirstUnit(e) \in Units
    BY <2>3 DEF FirstUnit
  <2> QED
    BY <1>1, <2>4, <2>5, RowsAreOK DEF FirstRow, RowOK
<1>2. CASE ~Seated(e)
  BY <1>2 DEF FirstRow, NoRow, Row
<1> QED
  BY <1>1, <1>2

LEMMA MovedIsOK ==
  ASSUME HeatInv, NEW o \in Offices, NEW u \in Units, NEW lane \in Nat, u <= unitCount
  PROVE  \A w \in Units, d \in Entries : RowOK(Moved(o, u, lane)[w][d], w, unitCount)
<1> DEFINE e == forms[o].entry
           swap == Occupants(e, u, lane)
           own == [in |-> TRUE, lane |-> lane, manual |-> TRUE,
                   version |-> FirstRow(e).version + IF swap # {} /\ Seated(e) THEN 2 ELSE 1]
<1>1. e \in Entries
  BY DEF HeatInv, HeatTypeOK, Form
<1>2. FirstRow(e) \in [in : BOOLEAN, lane : Nat, manual : BOOLEAN, version : Nat]
  BY <1>1, FirstRowExists DEF Row
<1>3. RowOK(own, u, unitCount)
  <2>1. FirstRow(e).version + (IF swap # {} /\ Seated(e) THEN 2 ELSE 1) \in Nat \ {0}
    BY <1>2
  <2> HIDE DEF e, swap
  <2> QED
    BY <2>1 DEF RowOK, Row
<1> TAKE w \in Units, d \in Entries
<1>4. RowOK(rows[w][d], w, unitCount) /\ rows[w][d] \in Row
  BY RowsAreOK DEF RowOK
<1>5. w = u => RowOK(Saved(rows[w][d], FirstRow(e).lane, TRUE), w, unitCount)
  BY <1>2, <1>4, SavedIsOK
<1>6. Moved(o, u, lane)[w][d]
        = IF d = e /\ w = u THEN own
          ELSE IF d = e /\ Seated(e) /\ w = FirstUnit(e) THEN NoRow
          ELSE IF w = u /\ d \in swap THEN Saved(rows[w][d], FirstRow(e).lane, TRUE)
          ELSE rows[w][d]
  BY DEF Moved
<1> HIDE DEF e, swap, own
<1> QED
  BY <1>3, <1>4, <1>5, <1>6, NoRowIsOK

LEMMA LanesAreNatural ==
  Lanes \subseteq Nat
BY RequestsAssumption DEF Lanes

LEMMA OverrideKeeps ==
  ASSUME HeatInv, NEW o \in Offices, NEW u \in Units, NEW lane \in Lanes, Override(o, u, lane)
  PROVE  HeatInv'
<1>1. /\ rows' = Moved(o, u, lane) /\ u <= unitCount /\ lane \in Nat
      /\ forms' = [forms EXCEPT ![o] = NoForm] /\ overrides' = overrides + 1 /\ overrides < MaxOverrides
      /\ UNCHANGED <<later, clubOf, status, closing, coded, unitCount, gens, generations, changes>>
  BY LanesAreNatural DEF Override, poolVars
<1>2. \A w \in Units, d \in Entries : RowOK(rows'[w][d], w, unitCount)
  BY <1>1, MovedIsOK
<1>3. /\ rows' \in Sheet /\ Filled(rows')
      /\ \A w \in Units, d \in Entries : rows'[w][d].in => w <= unitCount /\ rows'[w][d].version > 0
  <2>1. rows' = [w \in Units |-> [d \in Entries |-> rows'[w][d]]]
    BY <1>1 DEF Moved
  <2> QED
    BY <1>2, <2>1, SheetFromRows
<1>4. forms' \in [Offices -> Form]
  BY <1>1, NothingUnderWay DEF HeatInv, HeatTypeOK
<1>5. overrides' \in 0..MaxOverrides
  BY <1>1, HeatBoundsAssumption DEF HeatInv, HeatTypeOK
<1>6. HeatTypeOK'
  BY <1>1, <1>3, <1>4, <1>5 DEF HeatInv, HeatTypeOK
<1>7. \A p \in Offices : GenerationOK(gens[p])'
  BY <1>1 DEF HeatInv, GenerationOK, HeatCount
<1> QED
  BY <1>3, <1>6, <1>7 DEF HeatInv

LEMMA HeatKeeps == HeatInv /\ [HeatNext]_vars => HeatInv'
<1> SUFFICES ASSUME HeatInv, [HeatNext]_vars PROVE HeatInv'
  OBVIOUS
<1>1. CASE PoolStep
  BY <1>1, PoolStepKeeps
<1>2. ASSUME NEW o \in Offices, GenStep(o) PROVE HeatInv'
  BY <1>2, ReadPoolKeeps, ReadRowsKeeps, GenCommitKeeps, GenFailsKeeps DEF GenStep
<1>3. ASSUME NEW o \in Offices, FormStep(o) PROVE HeatInv'
  BY <1>3, OpenFormKeeps, OverrideKeeps, DropFormKeeps DEF FormStep
<1>4. CASE UNCHANGED vars
  <2>1. UNCHANGED <<later, clubOf, status, closing, coded, rows, unitCount, gens, forms,
                    generations, overrides, changes>>
    BY <1>4 DEF vars, poolVars, sheetVars
  <2>2. HeatTypeOK'
    BY <2>1 DEF HeatInv, HeatTypeOK
  <2> QED
    BY <2>1, <2>2 DEF HeatInv, Filled, GenerationOK, HeatCount
<1> QED
  BY <1>1, <1>2, <1>3, <1>4 DEF HeatNext

LEMMA HeatInvariant == HeatSpec => []HeatInv
BY HeatInitially, HeatKeeps, PTL DEF HeatSpec

\* The sheet is a sheet: rows only in units the round has, a version on each
\* (unit_entries and heat_units, store/seeding.go).
THEOREM HeatTypeCorrect == HeatSpec => []HeatTypeOK
<1>1. HeatInv => HeatTypeOK
  BY DEF HeatInv
<1> QED
  BY <1>1, HeatInvariant, PTL

-----------------------------------------------------------------------------
(* What a generation writes. *)

\* An override is kept as it is now, not as it was read, and cannot be in the
\* way of the lanes drawn: those that are in the way were cleared, or locked.
LEMMA LanesKeptAreLocked ==
  ASSUME HeatInv, NEW o \in Offices, Quiet(o), ~TwiceOverridden(gens[o]),
         NEW u \in Units, NEW d \in Entries, Cleared(gens[o], u, d).lane # 0
  PROVE  Cleared(gens[o], u, d).lane \in UsedLanes(gens[o], u)
<1> DEFINE g == gens[o]
<1>1. g.rows[u][d] = rows[u][d]
  BY DEF Quiet
<1>2. /\ ~(g.rows[u][d].in /\ d \notin g.pool)
      /\ ~(~g.rows[u][d].manual /\ d \in g.pool /\ g.rows[u][d].lane # 0)
      /\ Cleared(g, u, d) = g.rows[u][d] /\ g.rows[u][d].lane # 0
  BY <1>1 DEF Cleared, NoRow, Saved
<1>3. g.rows[u][d].in
  BY <1>2, GenerationIsTyped DEF GenerationOK, Filled, NoRow
<1>4. d \in Overridden(g, u)
  BY <1>2, <1>3 DEF Overridden
<1>5. \A w \in Units : w > u => d \notin Overridden(g, w)
  <2>1. \A w \in Units : w # u => d \notin Overridden(g, w)
    BY <1>4 DEF TwiceOverridden, Overridden
  <2>2. \A w \in Units : w > u => w # u
    BY HeatBoundsAssumption DEF Units
  <2> QED
    BY <2>1, <2>2
<1> QED
  BY <1>2, <1>4, <1>5 DEF Locked, UsedLanes

LEMMA NobodyIsInTheWay ==
  ASSUME HeatInv
  PROVE  ReshuffleNeverCollides
<1> SUFFICES ASSUME NEW o \in Offices, gens[o].at = "read", Quiet(o), ~TwiceOverridden(gens[o]),
                    NEW draw \in Draws(gens[o], SeedHeats(Free(gens[o]), HeatCount(gens[o]))),
                    Collides(gens[o], SeedHeats(Free(gens[o]), HeatCount(gens[o])), draw)
             PROVE  FALSE
  BY DEF ReshuffleNeverCollides
<1> DEFINE g == gens[o]
           heatOf == SeedHeats(Free(g), HeatCount(g))
<1>1. heatOf \in [Free(g) -> 1..HeatCount(g)] /\ HeatCount(g) \in Units
  BY HeatsGivenOut
<1> HIDE DEF heatOf
<1>2. PICK e \in Free(g), d \in Entries :
        draw[e] # 0 /\ Cleared(g, heatOf[e], d).lane = draw[e]
  BY DEF Collides, heatOf
<1>3. heatOf[e] \in Units
  BY <1>1, <1>2, HeatBoundsAssumption DEF Units
<1>4. draw[e] \in UsedLanes(g, heatOf[e])
  BY <1>2, <1>3, LanesKeptAreLocked
<1>5. draw[e] \notin UsedLanes(g, heatOf[e])
  <2>1. draw \in Draws(g, heatOf)
    BY DEF heatOf
  <2> QED
    BY <1>2, <2>1 DEF Draws
<1> QED
  BY <1>4, <1>5

\* A reshuffle that nothing overtook never trips over the index on unit and
\* lane, whatever lanes are drawn: whoever still has a lane once the old ones
\* are cleared was placed by hand, and those lanes are not given out
\* (the comment on clearing lanes first in GenerateHeats).
THEOREM ReshuffleIsSafe == HeatSpec => []ReshuffleNeverCollides
BY HeatInvariant, NobodyIsInTheWay, PTL

-----------------------------------------------------------------------------
(* The heats a generation gives out. *)

LEMMA FairHeats ==
  ASSUME HeatInv
  PROVE  HeatsAreFair
<1> SUFFICES ASSUME NEW o \in Offices, gens[o].at = "read", Free(gens[o]) = gens[o].pool
             PROVE  LET g == gens[o]
                        S == Free(g)
                        n == Cardinality(S)
                        heats == HeatCount(g)
                        heatOf == SeedHeats(S, heats)
                        plain == Serpentine(n, heats)
                    IN  /\ \A u \in 1..heats :
                             /\ Cardinality(Heat(g, heatOf, u)) <= HeatSize(g.request)
                             /\ \A w \in 1..heats :
                                  Cardinality(Heat(g, heatOf, u)) <= Cardinality(Heat(g, heatOf, w)) + 1
                        /\ \A e, d \in S :
                             /\ e # d /\ Position(e, S) < heats /\ Position(d, S) < heats
                                => heatOf[e] # heatOf[d]
                             /\ e # d /\ heatOf[e] = heatOf[d] /\ clubOf[e] # NoClub
                                /\ clubOf[e] = clubOf[d]
                                => plain[Position(e, S)] = plain[Position(d, S)]
  BY DEF HeatsAreFair
<1> DEFINE g == gens[o]
           S == Free(g)
           n == Cardinality(S)
           heats == HeatCount(g)
           heatOf == SeedHeats(S, heats)
           plain == Serpentine(n, heats)
           size == HeatSize(g.request)
<1>1. heats \in Nat \ {0} /\ S \in SUBSET Entries
  BY HeatsGivenOut, GenerationIsTyped
<1>2. PICK places :
        /\ SeededWell(places, S, heats)
        /\ heatOf \in [S -> 1..heats]
        /\ \A e \in S : heatOf[e] = places[Position(e, S)]
  <2> HIDE DEF g, S, heats
  <2> QED
    BY <1>1, SeedsAreThePlaces
<1>3. /\ n \in Nat
      /\ \A e \in S : Position(e, S) \in 0..(n - 1)
      /\ \A e, d \in S : Position(e, S) = Position(d, S) => e = d
      /\ \A e \in S : EntryAt(Position(e, S), S) = e
  <2> HIDE DEF g, S
  <2> QED
    BY <1>1, PlacesOfCandidates
<1>4. n <= heats * size /\ size \in Nat \ {0}
  <2>1. size \in Nat \ {0} /\ n \in Nat \ {0}
    <3>1. g.request \in Requests /\ S # {} /\ IsFiniteSet(S)
      BY <1>1, GenerationIsTyped, PlacesOfCandidates DEF GenerationOK
    <3> HIDE DEF g, S
    <3> QED
      BY <1>3, <3>1, HeatSizeIsPositive, FS_EmptySet
  <2>2. heats = ChooseHeatCount(n, size)
    BY DEF HeatCount
  <2> HIDE DEF n, size, heats
  <2> QED
    BY <2>1, <2>2, HeatsEnough
<1> HIDE DEF heatOf, heats, S, n, size
<1>5. /\ places \in [0..(n - 1) -> 1..heats]
      /\ \A u \in 1..heats : Cardinality(Members(places, u)) = Cardinality(Members(plain, u))
      /\ \A i \in 0..(n - 1) : i < heats => places[i] = i + 1
      /\ \A i, j \in 0..(n - 1) :
           i # j /\ places[i] = places[j] /\ Clubmates(i, j, S) => plain[i] = plain[j]
  BY <1>2 DEF SeededWell, n
<1>6. \A u \in 1..heats : Cardinality(Heat(g, heatOf, u)) = Cardinality(Members(plain, u))
  <2> TAKE u \in 1..heats
  <2>1. Heat(g, heatOf, u) = {e \in S : places[Position(e, S)] = u}
    BY <1>2 DEF Heat, S
  <2>2. Cardinality({e \in S : places[Position(e, S)] = u}) = Cardinality(Members(places, u))
    <3>1. DOMAIN places = 0..(Cardinality(S) - 1)
      BY <1>5 DEF n
    <3> HIDE DEF g, plain
    <3> QED
      BY <1>1, <3>1, AsManyAsPlaces
  <2> QED
    BY <1>5, <2>1, <2>2
<1>7. \A u \in 1..heats :
        /\ Cardinality(Members(plain, u)) \in Nat
        /\ n \div heats <= Cardinality(Members(plain, u))
        /\ Cardinality(Members(plain, u)) <= (n \div heats) + 1
        /\ Cardinality(Members(plain, u)) <= size
  BY <1>1, <1>3, <1>4, SerpentineEven
<1>8. \A u, w \in 1..heats :
        /\ Cardinality(Heat(g, heatOf, u)) <= size
        /\ Cardinality(Heat(g, heatOf, u)) <= Cardinality(Heat(g, heatOf, w)) + 1
  <2> TAKE u, w \in 1..heats
  <2>1. n \div heats \in Nat
    BY <1>1, <1>3, Division
  <2> HIDE DEF plain, g
  <2> QED
    BY <1>6, <1>7, <2>1
<1>9. ASSUME NEW e \in S, NEW d \in S, e # d
      PROVE  /\ Position(e, S) < heats /\ Position(d, S) < heats => heatOf[e] # heatOf[d]
             /\ heatOf[e] = heatOf[d] /\ clubOf[e] # NoClub /\ clubOf[e] = clubOf[d]
                => plain[Position(e, S)] = plain[Position(d, S)]
  <2>1. PICK i, j : i = Position(e, S) /\ j = Position(d, S)
    OBVIOUS
  <2>2. i \in 0..(n - 1) /\ j \in 0..(n - 1) /\ i # j
    BY <1>3, <1>9, <2>1
  <2>3. heatOf[e] = places[i] /\ heatOf[d] = places[j]
    BY <1>2, <2>1
  <2>4. i < heats /\ j < heats => heatOf[e] # heatOf[d]
    BY <1>5, <2>2, <2>3
  <2>5. clubOf[e] # NoClub /\ clubOf[e] = clubOf[d] => Clubmates(i, j, S)
    BY <1>3, <2>1 DEF Clubmates
  <2> HIDE DEF plain
  <2> QED
    BY <1>5, <2>1, <2>2, <2>3, <2>4, <2>5
<1> QED
  BY <1>8, <1>9 DEF heatOf, heats, S, n, size

\* Without overrides a generation's heats are as wide as asked for and even, the
\* best seeds are apart, and parting clubmates brings no two together who were
\* apart: separateClubs' exchanges keep all that, round after round, whoever
\* the athletes are and whatever their clubs (SeedHeats, separateClubs).
THEOREM HeatsAreEven == HeatSpec => []HeatsAreFair
BY HeatInvariant, FairHeats, PTL

-----------------------------------------------------------------------------
(* What a generation does to the sheet. *)

\* Only its own transaction ends a generation and changes the sheet.
LEMMA WhoCommits ==
  ASSUME HeatInv, HeatNext, NEW o \in Offices, Committed(o)
  PROVE  GenCommit(o)
<1>1. gens[o].at = "read" /\ gens'[o].at = "idle" /\ rows' # rows
  BY DEF Committed
<1>2. gens \in [Offices -> Generation]
  BY DEF HeatInv, HeatTypeOK
<1>3. ~PoolStep
  BY <1>1, PoolStepKeeps
<1>4. ASSUME NEW p \in Offices, FormStep(p)
      PROVE  FALSE
  <2>1. gens' = gens
    BY <1>4 DEF FormStep, OpenForm, Override, DropForm
  <2> QED
    BY <1>1, <2>1
<1>5. ASSUME NEW p \in Offices, GenStep(p)
      PROVE  GenCommit(o)
  <2>1. GenCommit(p)
    BY <1>1, <1>5 DEF GenStep, ReadPool, ReadRows, GenFails, sheetVars
  <2>2. gens' = [gens EXCEPT ![p] = NoGeneration]
    BY <2>1 DEF GenCommit
  <2>3. p = o
    BY <1>1, <1>2, <2>2
  <2> QED
    BY <2>1, <2>3
<1> QED
  BY <1>3, <1>4, <1>5 DEF HeatNext

Writes(g, heatOf, draw) ==
  \A u \in Units, e \in Entries :
    rows'[u][e] = IF e \in Free(g) /\ heatOf[e] = u
                  THEN Saved(Cleared(g, u, e), draw[e], FALSE)
                  ELSE Cleared(g, u, e)

LEMMA CommitWrites ==
  ASSUME HeatInv, NEW o \in Offices, GenCommit(o)
  PROVE  \E heatOf \in [Free(gens[o]) -> Units] : \E draw : Writes(gens[o], heatOf, draw)
<1> DEFINE g == gens[o]
           heatOf == SeedHeats(Free(g), HeatCount(g))
<1>1. PICK draw : rows' = Generated(g, heatOf, draw)
  BY DEF GenCommit
<1>2. heatOf \in [Free(g) -> Units]
  <2>1. heatOf \in [Free(g) -> 1..HeatCount(g)] /\ HeatCount(g) \in Units
    BY HeatsGivenOut DEF GenCommit
  <2> HIDE DEF heatOf, g
  <2> QED
    BY <2>1, HeatBoundsAssumption DEF Units
<1>3. Writes(g, heatOf, draw)
  <2> HIDE DEF heatOf, g
  <2> QED
    BY <1>1 DEF Generated, Writes
<1> HIDE DEF heatOf
<1> QED
  BY <1>2, <1>3

LEMMA KeepsOverrides ==
  ASSUME HeatInv, HeatNext, NEW o \in Offices, Committed(o),
         NEW u \in Units, NEW e \in gens[o].pool, gens[o].rows[u][e].manual
  PROVE  rows'[u][e] = rows[u][e]
<1> DEFINE g == gens[o]
<1>1. e \in Entries /\ e \notin Free(g)
  BY GenerationIsTyped DEF Free
<1>2. PICK heatOf, draw : Writes(g, heatOf, draw)
  BY WhoCommits, CommitWrites
<1>3. rows'[u][e] = Cleared(g, u, e)
  BY <1>1, <1>2 DEF Writes
<1> QED
  BY <1>3 DEF Cleared

\* A generation leaves every override it has read where it is by now, unit and
\* lane, however it interleaves with other offices' generations and overrides,
\* while the athlete is in the pool it read (GenerateHeats' lockedUnit).
THEOREM OverridesAreLeft == HeatSpec => OverridesStand
<1>1. ASSUME HeatInv, [HeatNext]_vars
      PROVE  [\A o \in Offices : Committed(o) =>
                \A u \in Units, e \in gens[o].pool :
                  gens[o].rows[u][e].manual => rows'[u][e] = rows[u][e]]_vars
  BY <1>1, KeepsOverrides
<1> QED
  BY <1>1, HeatInvariant, PTL DEF HeatSpec, OverridesStand

LEMMA SeatsPool ==
  ASSUME HeatInv, HeatNext, NEW o \in Offices, Committed(o), Quiet(o)
  PROVE  {e \in Entries : \E u \in Units : rows'[u][e].in} = gens[o].pool
<1> DEFINE g == gens[o]
<1>0. PICK heatOf \in [Free(g) -> Units] : \E draw : Writes(g, heatOf, draw)
  BY WhoCommits, CommitWrites
<1>1. PICK draw : Writes(g, heatOf, draw)
  BY <1>0
<1>2. g.rows = rows /\ g.pool \subseteq Entries /\ Free(g) \subseteq g.pool
  BY GenerationIsTyped DEF Quiet
<1>3. \A row, lane, manual : Saved(row, lane, manual).in
  BY DEF Saved
<1>4. ASSUME NEW e \in Entries, NEW u \in Units, rows'[u][e].in
      PROVE  e \in g.pool
  <2> SUFFICES ASSUME e \notin g.pool PROVE FALSE
    OBVIOUS
  <2>1. rows'[u][e] = Cleared(g, u, e)
    BY <1>1, <1>2 DEF Writes
  <2>2. Cleared(g, u, e) = NoRow \/ (Cleared(g, u, e) = rows[u][e] /\ ~rows[u][e].in)
    BY <1>2 DEF Cleared
  <2> QED
    BY <1>4, <2>1, <2>2 DEF NoRow
<1>5. ASSUME NEW e \in g.pool
      PROVE  \E u \in Units : rows'[u][e].in
  <2>1. CASE e \in Free(g)
    <3>1. heatOf[e] \in Units
      BY <2>1
    <3>2. PICK u \in Units : u = heatOf[e]
      BY <3>1
    <3>3. rows'[u][e] = Saved(Cleared(g, u, e), draw[e], FALSE)
      BY <1>1, <1>2, <2>1, <3>2 DEF Writes
    <3> QED
      BY <1>3, <3>3
  <2>2. CASE e \notin Free(g)
    <3>1. PICK u \in Units : rows[u][e].manual
      BY <1>2, <2>2 DEF Free
    <3>2. rows[u][e].in
      BY <1>2, <3>1 DEF HeatInv, Filled, NoRow
    <3>3. Cleared(g, u, e) = rows[u][e]
      BY <1>2, <3>1 DEF Cleared
    <3>4. rows'[u][e] = rows[u][e]
      BY <1>1, <1>2, <2>2, <3>3 DEF Writes
    <3> QED
      BY <3>2, <3>4
  <2> QED
    BY <2>1, <2>2
<1> QED
  BY <1>2, <1>4, <1>5

\* A generation that nothing overtook seats exactly the athletes of its pool:
\* those without an override by the seeding, the others where they were put,
\* and nobody else (the deletion in GenerateHeats of rows of scratched athletes).
THEOREM PoolIsSeated == HeatSpec => SeatsThePool
<1>1. ASSUME HeatInv, [HeatNext]_vars
      PROVE  [\A o \in Offices : Committed(o) /\ Quiet(o) =>
                {e \in Entries : \E u \in Units : rows'[u][e].in} = gens[o].pool]_vars
  BY <1>1, SeatsPool
<1> QED
  BY <1>1, HeatInvariant, PTL DEF HeatSpec, SeatsThePool
=============================================================================
