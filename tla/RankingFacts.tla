----------------------------- MODULE RankingFacts -----------------------------
(***************************************************************************)
(* Facts about finite sets in an order, for the proofs about the programs  *)
(* that rank: seeding, progression and standings all sort entries, count   *)
(* who is ahead, and cut a sorted list. An order on a set is a set of      *)
(* pairs.                                                                  *)
(***************************************************************************)
EXTENDS Integers, FiniteSets, FiniteSetTheorems, WellFoundedInduction, TLAPS

\* Of two elements one is ahead.
TotalOrder(R, S) ==
  /\ \A x \in S : <<x, x>> \notin R
  /\ \A x, y, z \in S : <<x, y>> \in R /\ <<y, z>> \in R => <<x, z>> \in R
  /\ \A x, y \in S : x # y => <<x, y>> \in R \/ <<y, x>> \in R

\* Two elements can be level, and what is ahead of one is ahead of the other.
WeakOrder(W, S) ==
  /\ \A x \in S : <<x, x>> \notin W
  /\ \A x, y, z \in S : <<x, y>> \in W => <<x, z>> \in W \/ <<z, y>> \in W
  /\ \A x, y \in S : <<x, y>> \in W => <<y, x>> \notin W

AheadOf(x, R, S) == {y \in S : <<y, x>> \in R}

-----------------------------------------------------------------------------
(* Numbers. *)

\* A set of naturals has a least element: what induction is made of here.
LEMMA LeastNatural ==
  ASSUME NEW T \in SUBSET Nat, T # {}
  PROVE  \E x \in T : \A y \in T : x <= y
<1> DEFINE R == {ss \in Nat \X Nat : ss[1] < ss[2]}
<1>1. IsWellFoundedOn(R, Nat)
  BY NatLessThanWellFounded, Zenon DEF OpToRel
<1>2. \A x, y \in Nat : y < x => <<y, x>> \in R
  OBVIOUS
<1> HIDE DEF R
<1>3. PICK x \in T : \A y \in T : ~(<<y, x>> \in R)
  BY <1>1, WFMin
<1>4. \A y \in T : ~(y < x)
  BY <1>2, <1>3
<1> QED
  BY <1>4

\* A function defined by recursion over 0..n, one given function a step, exists.
Recursions(n, D, c, F) ==
  {g \in [0..n -> D] : g[0] = c /\ \A k \in 1..n : g[k] = F[k][g[k - 1]]}

LEMMA RecursionExists ==
  ASSUME NEW n \in Nat, NEW D, NEW c \in D, NEW F, \A k \in 1..n : F[k] \in [D -> D]
  PROVE  Recursions(n, D, c, F) # {}
<1> DEFINE Upto(m) == \E g \in [0..m -> D] : /\ g[0] = c
                                             /\ \A k \in 1..m : g[k] = F[k][g[k - 1]]
           T == {m \in 0..n : ~Upto(m)}
<1>1. Upto(0)
  <2> DEFINE h == [k \in 0..0 |-> c]
  <2>1. h \in [0..0 -> D] /\ h[0] = c
    OBVIOUS
  <2>2. \A k \in 1..0 : h[k] = F[k][h[k - 1]]
    OBVIOUS
  <2> HIDE DEF h
  <2> QED
    BY <2>1, <2>2
<1>2. ASSUME NEW m \in 0..n, m > 0, Upto(m - 1)
      PROVE  Upto(m)
  <2>1. PICK g \in [0..(m - 1) -> D] :
          g[0] = c /\ \A k \in 1..(m - 1) : g[k] = F[k][g[k - 1]]
    BY <1>2
  <2> DEFINE h == [k \in 0..m |-> IF k < m THEN g[k] ELSE F[m][g[m - 1]]]
  <2>2. F[m][g[m - 1]] \in D
    BY <1>2
  <2>3. h \in [0..m -> D]
    BY <2>2
  <2>4. h[0] = c
    BY <1>2, <2>1
  <2>5. \A k \in 1..m : h[k] = F[k][h[k - 1]]
    <3> TAKE k \in 1..m
    <3>1. CASE k < m
      BY <2>1, <3>1
    <3>2. CASE k = m
      <4>1. h[m] = F[m][g[m - 1]] /\ h[m - 1] = g[m - 1]
        BY <1>2
      <4> QED
        BY <3>2, <4>1
    <3> QED
      BY <3>1, <3>2
  <2> HIDE DEF h
  <2> QED
    BY <2>3, <2>4, <2>5
<1>3. ASSUME T # {}
      PROVE  FALSE
  <2>1. PICK m \in T : \A y \in T : m <= y
    <3> HIDE DEF Upto
    <3>1. T \subseteq Nat
      OBVIOUS
    <3> HIDE DEF T
    <3> QED
      BY <1>3, <3>1, LeastNatural
  <2>2. m > 0
    <3>1. m \in 0..n /\ ~Upto(m)
      OBVIOUS
    <3> HIDE DEF Upto
    <3> QED
      BY <1>1, <3>1
  <2>3. m - 1 \notin T
    BY <2>1, <2>2
  <2> HIDE DEF Upto
  <2> QED
    BY <1>2, <2>2, <2>3
<1>4. Upto(n)
  <2> HIDE DEF Upto
  <2> QED
    BY <1>3
<1> QED
  BY <1>4 DEF Recursions

-----------------------------------------------------------------------------
(* Counting who is ahead. *)

\* Positions, counted from 0, in a total order.
Positions(R, S) == [x \in S |-> Cardinality(AheadOf(x, R, S))]

LEMMA AheadIsFinite ==
  ASSUME NEW S, IsFiniteSet(S), NEW R, NEW x
  PROVE  /\ AheadOf(x, R, S) \subseteq S /\ IsFiniteSet(AheadOf(x, R, S))
         /\ Cardinality(AheadOf(x, R, S)) \in Nat
         /\ Cardinality(AheadOf(x, R, S)) <= Cardinality(S)
<1>1. AheadOf(x, R, S) \in SUBSET S
  BY DEF AheadOf
<1> QED
  BY <1>1, FS_Subset, FS_CardinalityType

\* A subset is no larger, and smaller when something is missing.
LEMMA SmallerWithout ==
  ASSUME NEW S, IsFiniteSet(S), NEW T \in SUBSET S, NEW x \in S, x \notin T
  PROVE  Cardinality(T) < Cardinality(S)
<1>1. Cardinality(T) <= Cardinality(S) /\ (Cardinality(S) = Cardinality(T) => S = T)
  BY FS_Subset
<1>2. Cardinality(T) \in Nat /\ Cardinality(S) \in Nat
  BY FS_Subset, FS_CardinalityType
<1> QED
  BY <1>1, <1>2

\* Who is ahead has the smaller position, and only they do.
LEMMA PositionsOrder ==
  ASSUME NEW S, IsFiniteSet(S), NEW R, TotalOrder(R, S)
  PROVE  /\ \A x \in S : Positions(R, S)[x] \in 0..(Cardinality(S) - 1)
         /\ \A x, y \in S : <<x, y>> \in R <=> Positions(R, S)[x] < Positions(R, S)[y]
<1> DEFINE pos == Positions(R, S)
<1>1. \A x \in S : pos[x] = Cardinality(AheadOf(x, R, S)) /\ pos[x] \in Nat
  BY AheadIsFinite DEF Positions
<1> HIDE DEF pos
<1>2. ASSUME NEW x \in S, NEW y \in S, <<x, y>> \in R
      PROVE  pos[x] < pos[y]
  <2>1. AheadOf(x, R, S) \in SUBSET AheadOf(y, R, S)
    BY <1>2 DEF TotalOrder, AheadOf
  <2>2. x \in AheadOf(y, R, S) /\ x \notin AheadOf(x, R, S)
    BY <1>2 DEF TotalOrder, AheadOf
  <2>3. Cardinality(AheadOf(x, R, S)) < Cardinality(AheadOf(y, R, S))
    BY <2>1, <2>2, AheadIsFinite, SmallerWithout
  <2> QED
    BY <1>1, <2>3
<1>3. ASSUME NEW x \in S
      PROVE  pos[x] \in 0..(Cardinality(S) - 1)
  <2>1. AheadOf(x, R, S) \in SUBSET S /\ x \notin AheadOf(x, R, S)
    BY DEF TotalOrder, AheadOf
  <2>2. Cardinality(AheadOf(x, R, S)) < Cardinality(S)
    BY <2>1, SmallerWithout
  <2>3. Cardinality(S) \in Nat
    BY FS_CardinalityType
  <2> QED
    BY <1>1, <2>2, <2>3
<1>4. ASSUME NEW x \in S, NEW y \in S, pos[x] < pos[y]
      PROVE  <<x, y>> \in R
  <2>1. pos[x] \in Nat /\ pos[y] \in Nat
    BY <1>1
  <2>2. x # y /\ <<y, x>> \notin R
    BY <1>2, <1>4, <2>1
  <2> QED
    BY <2>2 DEF TotalOrder
<1> QED
  BY <1>2, <1>3, <1>4 DEF pos

\* Every position is somebody's, and of one only.
LEMMA PositionsBijective ==
  ASSUME NEW S, IsFiniteSet(S), NEW R, TotalOrder(R, S)
  PROVE  /\ Positions(R, S) \in [S -> 0..(Cardinality(S) - 1)]
         /\ \A x, y \in S : Positions(R, S)[x] = Positions(R, S)[y] => x = y
         /\ \A i \in 0..(Cardinality(S) - 1) : \E x \in S : Positions(R, S)[x] = i
<1> DEFINE pos == Positions(R, S)
           P == 0..(Cardinality(S) - 1)
<1>1. \A x \in S : pos[x] \in P
  BY PositionsOrder
<1>2. pos \in [S -> P]
  BY <1>1 DEF Positions
<1>3. \A x, y \in S : pos[x] = pos[y] => x = y
  <2> SUFFICES ASSUME NEW x \in S, NEW y \in S, pos[x] = pos[y], x # y
               PROVE  FALSE
    OBVIOUS
  <2>1. <<x, y>> \in R \/ <<y, x>> \in R
    BY DEF TotalOrder
  <2>2. pos[x] < pos[y] \/ pos[y] < pos[x]
    BY <2>1, PositionsOrder
  <2>3. pos[x] \in Int
    BY <1>1
  <2> HIDE DEF pos
  <2> QED
    BY <2>2, <2>3
<1>4. Cardinality(S) \in Nat
  BY FS_CardinalityType
<1>5. IsFiniteSet(P) /\ Cardinality(P) = Cardinality(S)
  <2>1. IsFiniteSet(P) /\ Cardinality(P) = IF 0 > Cardinality(S) - 1 THEN 0 ELSE Cardinality(S) - 1 - 0 + 1
    BY <1>4, FS_Interval
  <2> QED
    BY <1>4, <2>1
<1> HIDE DEF pos, P
<1>6. pos \in Injection(S, P)
  BY <1>2, <1>3 DEF Injection, IsInjective
<1>7. pos \in Surjection(S, P)
  BY <1>5, <1>6, FS_Injection
<1>8. \A i \in P : \E x \in S : pos[x] = i
  BY <1>7 DEF Surjection
<1> QED
  BY <1>2, <1>3, <1>8 DEF pos, P

\* As many have one of the first k positions as there are.
LEMMA FirstPositions ==
  ASSUME NEW S, IsFiniteSet(S), NEW R, TotalOrder(R, S), NEW k \in Nat
  PROVE  Cardinality({x \in S : Positions(R, S)[x] < k})
           = IF k <= Cardinality(S) THEN k ELSE Cardinality(S)
<1> DEFINE pos == Positions(R, S)
           n == Cardinality(S)
           m == IF k <= n THEN k ELSE n
           first == {x \in S : pos[x] < k}
<1>1. n \in Nat /\ m \in Nat /\ m <= n
  BY FS_CardinalityType
<1>2. pos \in [S -> 0..(n - 1)] /\ (\A x, y \in S : pos[x] = pos[y] => x = y)
      /\ (\A i \in 0..(n - 1) : \E x \in S : pos[x] = i)
  BY PositionsBijective
<1> HIDE DEF pos
<1> DEFINE f == [x \in first |-> pos[x]]
<1>3. f \in [first -> 0..(m - 1)]
  <2>1. \A x \in first : pos[x] \in 0..(n - 1) /\ pos[x] < k
    BY <1>2
  <2>2. \A x \in first : pos[x] \in 0..(m - 1)
    BY <1>1, <2>1
  <2> QED
    BY <2>2
<1>4. \A x, y \in first : f[x] = f[y] => x = y
  BY <1>2
<1>5. \A i \in 0..(m - 1) : \E x \in first : f[x] = i
  <2> TAKE i \in 0..(m - 1)
  <2>1. i \in 0..(n - 1) /\ i < k
    BY <1>1
  <2>2. PICK x \in S : pos[x] = i
    BY <1>2, <2>1
  <2> QED
    BY <2>1, <2>2
<1>6. IsFiniteSet(first)
  <2>1. first \in SUBSET S
    OBVIOUS
  <2> QED
    BY <2>1, FS_Subset
<1> HIDE DEF first, f
<1>7. f \in Bijection(first, 0..(m - 1))
  BY <1>3, <1>4, <1>5 DEF Bijection, Injection, IsInjective, Surjection
<1>8. Cardinality(0..(m - 1)) = Cardinality(first)
  <2> HIDE DEF m
  <2> QED
    BY <1>6, <1>7, FS_Bijection DEF ExistsBijection
<1>9. Cardinality(0..(m - 1)) = m
  <2>1. Cardinality(0..(m - 1)) = IF 0 > m - 1 THEN 0 ELSE m - 1 - 0 + 1
    <3> HIDE DEF m
    <3> QED
      BY <1>1, FS_Interval
  <2> QED
    BY <1>1, <2>1
<1> QED
  BY <1>8, <1>9 DEF first, pos

-----------------------------------------------------------------------------
(* Ties. *)

\* Any way to part the level makes a total order: a sorted list exists.
LEMMA TiesCanBeParted ==
  ASSUME NEW S, IsFiniteSet(S), NEW W, WeakOrder(W, S)
  PROVE  \E R : TotalOrder(R, S) /\ \A x, y \in S : <<x, y>> \in W => <<x, y>> \in R
<1>1. PICK f : f \in Bijection(1..Cardinality(S), S)
  BY FS_CardinalityType DEF ExistsBijection
<1> DEFINE n == Cardinality(S)
           At(x) == CHOOSE i \in 1..n : f[i] = x
           R == {p \in S \X S : \/ <<p[1], p[2]>> \in W
                                \/ <<p[2], p[1]>> \notin W /\ At(p[1]) < At(p[2])}
<1>2. \A x \in S : At(x) \in 1..n /\ f[At(x)] = x
  <2>1. \A x \in S : \E i \in 1..n : f[i] = x
    BY <1>1 DEF Bijection, Surjection
  <2> QED
    BY <2>1
<1>3. n \in Nat
  BY FS_CardinalityType
<1>4. \A x \in S : At(x) \in Int
  BY <1>2, <1>3
<1>5. \A x, y \in S : x # y => At(x) # At(y)
  BY <1>2
<1> HIDE DEF At, n
<1>6. \A x, y \in S : <<x, y>> \in R <=>
        <<x, y>> \in W \/ (<<y, x>> \notin W /\ At(x) < At(y))
  OBVIOUS
<1> HIDE DEF R
<1>7. \A x, y \in S : x # y => <<x, y>> \in R \/ <<y, x>> \in R
  <2> SUFFICES ASSUME NEW x \in S, NEW y \in S, x # y
               PROVE  <<x, y>> \in R \/ <<y, x>> \in R
    OBVIOUS
  <2>1. At(x) < At(y) \/ At(y) < At(x)
    BY <1>4, <1>5
  <2> QED
    BY <1>6, <2>1
<1>8. \A x \in S : <<x, x>> \notin R
  <2> TAKE x \in S
  <2>1. <<x, x>> \notin W /\ ~(At(x) < At(x))
    BY <1>4 DEF WeakOrder
  <2> QED
    BY <1>6, <2>1
<1>9. \A x, y, z \in S : <<x, y>> \in R /\ <<y, z>> \in R => <<x, z>> \in R
  <2> SUFFICES ASSUME NEW x \in S, NEW y \in S, NEW z \in S, <<x, y>> \in R, <<y, z>> \in R
               PROVE  <<x, z>> \in R
    OBVIOUS
  <2>1. <<y, x>> \notin W /\ <<z, y>> \notin W
    BY <1>6 DEF WeakOrder
  <2>2. <<z, x>> \notin W
    BY <2>1 DEF WeakOrder
  <2>3. CASE <<x, y>> \in W
    BY <1>6, <2>1, <2>3 DEF WeakOrder
  <2>4. CASE <<y, z>> \in W
    BY <1>6, <2>1, <2>4 DEF WeakOrder
  <2>5. CASE At(x) < At(y) /\ At(y) < At(z)
    <3>1. At(x) < At(z)
      BY <1>4, <2>5
    <3> QED
      BY <1>6, <2>2, <3>1
  <2> QED
    BY <1>6, <2>3, <2>4, <2>5
<1> QED
  BY <1>6, <1>7, <1>8, <1>9 DEF TotalOrder

\* Who is last of the first k when the level may be parted either way: fewer
\* than k are ahead of them, at least k are not behind.
LEMMA TheLastWhoFits ==
  ASSUME NEW S, IsFiniteSet(S), NEW W, WeakOrder(W, S), NEW k \in 1..Cardinality(S)
  PROVE  \E x \in S : /\ Cardinality(AheadOf(x, W, S)) < k
                      /\ Cardinality({y \in S : <<x, y>> \notin W}) >= k
<1>1. PICK R : TotalOrder(R, S) /\ \A x, y \in S : <<x, y>> \in W => <<x, y>> \in R
  BY TiesCanBeParted
<1>2. Cardinality(S) \in Nat
  BY FS_CardinalityType
<1> DEFINE pos == Positions(R, S)
           first == {x \in S : pos[x] < k}
<1>3. PICK x \in S : pos[x] = k - 1
  BY <1>1, <1>2, PositionsBijective
<1>4. Cardinality(first) = k
  BY <1>1, <1>2, FirstPositions
<1>5. Cardinality(AheadOf(x, R, S)) = k - 1
  BY <1>3 DEF Positions
<1>6. AheadOf(x, W, S) \in SUBSET AheadOf(x, R, S)
  BY <1>1 DEF AheadOf
<1>7. Cardinality(AheadOf(x, W, S)) < k
  <2>1. Cardinality(AheadOf(x, W, S)) <= k - 1
    BY <1>5, <1>6, AheadIsFinite, FS_Subset
  <2> QED
    BY <1>2, <2>1, AheadIsFinite
<1>8. first \in SUBSET {y \in S : <<x, y>> \notin W}
  <2> SUFFICES ASSUME NEW y \in S, pos[y] < k, <<x, y>> \in W
               PROVE  FALSE
    OBVIOUS
  <2>1. pos[x] < pos[y] /\ pos[y] \in 0..(Cardinality(S) - 1)
    BY <1>1, PositionsOrder
  <2> HIDE DEF pos
  <2> QED
    BY <1>2, <1>3, <2>1
<1>9. Cardinality({y \in S : <<x, y>> \notin W}) >= k
  <2>1. {y \in S : <<x, y>> \notin W} \in SUBSET S
    OBVIOUS
  <2>2. IsFiniteSet({y \in S : <<x, y>> \notin W})
    BY <2>1, FS_Subset
  <2> HIDE DEF first
  <2> QED
    BY <1>4, <1>8, <2>2, FS_Subset, FS_CardinalityType
<1> QED
  BY <1>7, <1>9

\* A listing of S by W: everybody once, nobody behind one they are ahead of.
Listed(row, W, S) ==
  /\ row \in [1..Cardinality(S) -> S]
  /\ \A i, j \in 1..Cardinality(S) : i < j => row[i] # row[j] /\ <<row[j], row[i]>> \notin W

\* A set can be listed in a weak order, everybody once.
LEMMA ListingExists ==
  ASSUME NEW S, IsFiniteSet(S), NEW W, WeakOrder(W, S)
  PROVE  \E row : Listed(row, W, S)
<1>1. PICK R : TotalOrder(R, S) /\ \A x, y \in S : <<x, y>> \in W => <<x, y>> \in R
  BY TiesCanBeParted
<1> DEFINE n == Cardinality(S)
           pos == Positions(R, S)
           row == [i \in 1..n |-> CHOOSE x \in S : pos[x] = i - 1]
<1>2. n \in Nat
  BY FS_CardinalityType
<1>3. \A i \in 1..n : row[i] \in S /\ pos[row[i]] = i - 1
  <2> TAKE i \in 1..n
  <2>1. i - 1 \in 0..(n - 1)
    BY <1>2
  <2>2. \E x \in S : pos[x] = i - 1
    BY <1>1, <2>1, PositionsBijective
  <2> HIDE DEF pos
  <2> QED
    BY <2>2
<1>4. row \in [1..n -> S]
  BY <1>3
<1>5. ASSUME NEW i \in 1..n, NEW j \in 1..n, i < j
      PROVE  row[i] # row[j] /\ <<row[j], row[i]>> \notin W
  <2>1. row[i] \in S /\ row[j] \in S /\ pos[row[i]] < pos[row[j]] /\ pos[row[i]] \in Int
        /\ pos[row[j]] \in Int
    BY <1>2, <1>3, <1>5
  <2>2. <<row[i], row[j]>> \in R
    BY <1>1, <2>1, PositionsOrder
  <2> QED
    BY <1>1, <2>1, <2>2 DEF TotalOrder
<1> HIDE DEF row
<1> QED
  BY <1>4, <1>5 DEF Listed
-----------------------------------------------------------------------------
(* Reading a listing. *)

LEMMA EverybodyIsListed ==
  ASSUME NEW S, IsFiniteSet(S), NEW W, NEW row, Listed(row, W, S)
  PROVE  /\ \A x \in S : \E i \in 1..Cardinality(S) : row[i] = x
         /\ \A i, j \in 1..Cardinality(S) : row[i] = row[j] => i = j
<1> DEFINE n == Cardinality(S)
           P == 1..n
<1>1. n \in Nat
  BY FS_CardinalityType
<1>2. \A i, j \in P : row[i] = row[j] => i = j
  <2>1. \A i, j \in P : i < j => row[i] # row[j]
    BY DEF Listed
  <2>2. \A i, j \in P : i < j \/ j < i \/ i = j
    BY <1>1
  <2> QED
    BY <2>1, <2>2
<1>3. row \in [P -> S]
  BY DEF Listed
<1>4. IsFiniteSet(P) /\ Cardinality(P) = n
  <2>1. Cardinality(P) = IF 1 > n THEN 0 ELSE n - 1 + 1
    BY <1>1, FS_Interval
  <2> QED
    BY <1>1, <2>1, FS_Interval
<1> HIDE DEF P
<1>5. row \in Injection(P, S)
  BY <1>2, <1>3 DEF Injection, IsInjective
<1>6. row \in Surjection(P, S)
  BY <1>4, <1>5, FS_Injection
<1> QED
  BY <1>2, <1>6 DEF Surjection, P

\* Whoever is strictly behind the one before is behind exactly those before;
\* whoever ties with the one before is behind the same.
LEMMA NeighboursTell ==
  ASSUME NEW S, IsFiniteSet(S), NEW W, WeakOrder(W, S), NEW row, Listed(row, W, S),
         NEW i \in 1..Cardinality(S)
  PROVE  /\ (i = 1 \/ <<row[i - 1], row[i]>> \in W) => Cardinality(AheadOf(row[i], W, S)) = i - 1
         /\ (i # 1 /\ <<row[i - 1], row[i]>> \notin W)
               => AheadOf(row[i], W, S) = AheadOf(row[i - 1], W, S)
<1> DEFINE n == Cardinality(S)
           ahead == AheadOf(row[i], W, S)
<1>1. n \in Nat /\ i \in 1..n
  BY FS_CardinalityType
<1>2. /\ \A x \in S : \E j \in 1..n : row[j] = x
      /\ \A j, k \in 1..n : row[j] = row[k] => j = k
  BY EverybodyIsListed
<1>3. /\ \A j \in 1..n : row[j] \in S
      /\ \A j, k \in 1..n : j < k => <<row[k], row[j]>> \notin W
  BY DEF Listed
<1>4. /\ \A x \in S : <<x, x>> \notin W
      /\ \A x, y, z \in S : <<x, y>> \in W => <<x, z>> \in W \/ <<z, y>> \in W
  BY DEF WeakOrder
<1> HIDE DEF n
<1>5. ASSUME i = 1 \/ <<row[i - 1], row[i]>> \in W
      PROVE  Cardinality(ahead) = i - 1
  <2>1. \A j \in 1..n : <<row[j], row[i]>> \in W <=> j < i
    <3> TAKE j \in 1..n
    <3>1. CASE j >= i
      BY <1>1, <1>3, <1>4, <3>1
    <3>2. CASE j < i
      <4>1. PICK k : k = i - 1
        OBVIOUS
      <4>2. k \in 1..n /\ <<row[k], row[i]>> \in W
        BY <1>1, <1>5, <3>2, <4>1
      <4>3. j = k \/ <<row[k], row[j]>> \notin W
        BY <1>1, <1>3, <3>2, <4>1, <4>2
      <4> QED
        BY <1>1, <1>3, <1>4, <3>2, <4>2, <4>3
    <3> QED
      BY <1>1, <3>1, <3>2
  <2> DEFINE P == 1..(i - 1)
             g == [j \in P |-> row[j]]
  <2>2. g \in [P -> ahead]
    BY <1>1, <1>3, <2>1 DEF AheadOf
  <2>3. \A j, k \in P : g[j] = g[k] => j = k
    BY <1>1, <1>2
  <2>4. \A x \in ahead : \E j \in P : g[j] = x
    <3> TAKE x \in ahead
    <3>1. PICK j \in 1..n : row[j] = x
      BY <1>2 DEF AheadOf
    <3>2. j < i
      BY <2>1, <3>1 DEF AheadOf
    <3>3. j \in P
      BY <1>1, <3>2
    <3> QED
      BY <3>1, <3>3
  <2>5. IsFiniteSet(P) /\ Cardinality(P) = i - 1
    <3>1. Cardinality(P) = IF 1 > i - 1 THEN 0 ELSE i - 1 - 1 + 1
      BY <1>1, FS_Interval
    <3> QED
      BY <1>1, <3>1, FS_Interval
  <2> HIDE DEF P, g, ahead
  <2>6. g \in Bijection(P, ahead)
    BY <2>2, <2>3, <2>4 DEF Bijection, Injection, IsInjective, Surjection
  <2>7. Cardinality(ahead) = Cardinality(P)
    BY <2>5, <2>6, FS_Bijection DEF ExistsBijection
  <2> QED
    BY <2>5, <2>7
<1>6. ASSUME i # 1, <<row[i - 1], row[i]>> \notin W
      PROVE  ahead = AheadOf(row[i - 1], W, S)
  <2>1. PICK k : k = i - 1
    OBVIOUS
  <2>2. k \in 1..n /\ k < i /\ <<row[k], row[i]>> \notin W
    BY <1>1, <1>6, <2>1
  <2>3. <<row[i], row[k]>> \notin W /\ row[i] \in S /\ row[k] \in S
    BY <1>1, <1>3, <2>2
  <2>4. \A x \in S : <<x, row[i]>> \in W <=> <<x, row[k]>> \in W
    BY <1>4, <2>2, <2>3
  <2> QED
    BY <2>1, <2>4 DEF AheadOf
<1> QED
  BY <1>5, <1>6

\* Who is ahead has fewer ahead of them, and only they do.
LEMMA FewerAhead ==
  ASSUME NEW S, IsFiniteSet(S), NEW W, WeakOrder(W, S), NEW x \in S, NEW y \in S
  PROVE  <<x, y>> \in W <=> Cardinality(AheadOf(x, W, S)) < Cardinality(AheadOf(y, W, S))
<1>1. /\ <<x, x>> \notin W
      /\ \A z \in S : <<z, x>> \in W => <<z, y>> \in W \/ <<y, x>> \in W
      /\ \A z \in S : <<z, y>> \in W => <<z, x>> \in W \/ <<x, y>> \in W
      /\ <<x, y>> \in W => <<y, x>> \notin W
  BY DEF WeakOrder
<1>2. /\ IsFiniteSet(AheadOf(x, W, S)) /\ Cardinality(AheadOf(x, W, S)) \in Nat
      /\ IsFiniteSet(AheadOf(y, W, S)) /\ Cardinality(AheadOf(y, W, S)) \in Nat
  BY AheadIsFinite
<1>3. ASSUME <<x, y>> \in W
      PROVE  Cardinality(AheadOf(x, W, S)) < Cardinality(AheadOf(y, W, S))
  <2>1. /\ AheadOf(x, W, S) \in SUBSET AheadOf(y, W, S)
        /\ x \in AheadOf(y, W, S) /\ x \notin AheadOf(x, W, S)
    BY <1>1, <1>3 DEF AheadOf
  <2> QED
    BY <1>2, <2>1, SmallerWithout
<1>4. ASSUME <<x, y>> \notin W
      PROVE  ~(Cardinality(AheadOf(x, W, S)) < Cardinality(AheadOf(y, W, S)))
  <2>1. AheadOf(y, W, S) \in SUBSET AheadOf(x, W, S)
    BY <1>1, <1>4 DEF AheadOf
  <2>2. Cardinality(AheadOf(y, W, S)) <= Cardinality(AheadOf(x, W, S))
    BY <1>2, <2>1, FS_Subset
  <2> QED
    BY <1>2, <2>2
<1> QED
  BY <1>3, <1>4

\* Of a row of numbers falling from left to right, those on one side of a bound
\* come first.
LEMMA FirstOnes ==
  ASSUME NEW n \in Nat, NEW I \in SUBSET (1..n), \A i \in I, j \in 1..n : j < i => j \in I
  PROVE  /\ Cardinality(I) \in 0..n
         /\ \A i \in 1..n : i \in I <=> i <= Cardinality(I)
<1>1. \A k \in 0..n : Cardinality(1..k) = k
  <2> TAKE k \in 0..n
  <2>1. Cardinality(1..k) = IF 1 > k THEN 0 ELSE k - 1 + 1
    BY FS_Interval
  <2> QED
    BY <2>1
<1>2. CASE I = 1..n
  BY <1>1, <1>2
<1>3. CASE I # 1..n
  <2> DEFINE T == (1..n) \ I
  <2>1. T \in SUBSET Nat /\ T # {}
    <3>1. T \in SUBSET Nat
      OBVIOUS
    <3>2. T # {}
      BY <1>3
    <3> QED
      BY <3>1, <3>2
  <2>2. PICK k \in T : \A j \in T : k <= j
    <3> HIDE DEF T
    <3> QED
      BY <2>1, LeastNatural
  <2>3. k \in 1..n /\ k \notin I /\ k - 1 \in 0..n
    BY <2>2
  <2>4. \A j \in 1..n : j \in I <=> j < k
    <3> TAKE j \in 1..n
    <3>1. j < k => j \in I
      BY <2>2, <2>3
    <3>2. j > k => j \notin I
      BY <2>3
    <3>3. j = k => j \notin I
      BY <2>3
    <3> QED
      BY <2>3, <3>1, <3>2, <3>3
  <2>5. I = 1..(k - 1)
    <3>1. I \subseteq 1..(k - 1)
      BY <2>3, <2>4
    <3>2. 1..(k - 1) \subseteq I
      <4>1. \A j \in 1..(k - 1) : j \in 1..n /\ j < k
        BY <2>3
      <4> QED
        BY <2>4, <4>1
    <3> QED
      BY <3>1, <3>2
  <2>6. Cardinality(I) = k - 1
    BY <1>1, <2>3, <2>5
  <2> QED
    BY <2>3, <2>4, <2>6
<1> QED
  BY <1>2, <1>3
=============================================================================
