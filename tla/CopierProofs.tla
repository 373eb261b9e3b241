---------------------------- MODULE CopierProofs ----------------------------
(***************************************************************************)
(* What holds of the modules TripStream and Copier for every feed, all       *)
(* options and all sizes of a chunk and of a batch: what the passes of a      *)
(* reader yield, and what a copy writes.                                     *)
(***************************************************************************)
EXTENDS Copier, WellFoundedInduction, FiniteSetTheorems, SequenceTheorems, TLAPS

LEMMA SmallestNumber ==
  ASSUME NEW S, S \subseteq Nat, S # {}
  PROVE  \E m \in S : \A x \in S : m <= x
<1>1. PICK m \in S : \A x \in S : ~(<<x, m>> \in OpToRel(<, Nat))
  BY WFMin, NatLessThanWellFounded, Zenon
<1>2. \A x \in S : <<x, m>> \in Nat \X Nat /\ x < m => <<x, m>> \in OpToRel(<, Nat)
  BY Zenon DEF OpToRel
<1>3. \A x \in S : ~(x < m)
  BY <1>1, <1>2
<1>4. \A x \in S : m <= x
  BY <1>3
<1> QED BY <1>4

\* A set of numbers that holds zero and every successor holds all.
LEMMA AllNumbers ==
  ASSUME NEW X, 0 \in X, \A n \in Nat : n \in X => n + 1 \in X
  PROVE  Nat \subseteq X
<1> DEFINE rest == Nat \ X
<1>1. SUFFICES ASSUME rest # {} PROVE FALSE
  OBVIOUS
<1>2. PICK m \in rest : \A x \in rest : m <= x
  BY <1>1, SmallestNumber, Zenon
<1>3. m # 0 /\ m - 1 \in Nat
  BY <1>2
<1>4. m - 1 \in X
  BY <1>2, <1>3
<1>5. (m - 1) + 1 \in X
  BY <1>3, <1>4
<1>6. (m - 1) + 1 = m
  BY <1>2
<1> QED
  BY <1>2, <1>5, <1>6

\* A finite set in a strict total order: the rank of an element is its position.
Before(D, R, x) == {y \in D : <<y, x>> \in R}

LEMMA RankIsPosition ==
  ASSUME NEW D, IsFiniteSet(D), NEW R,
         \A x \in D : <<x, x>> \notin R,
         \A x, y \in D : x # y => <<x, y>> \in R \/ <<y, x>> \in R,
         \A x, y, z \in D : <<x, y>> \in R /\ <<y, z>> \in R => <<x, z>> \in R
  PROVE  /\ \A x \in D : Cardinality(Before(D, R, x)) + 1 \in 1..Cardinality(D)
         /\ \A x, y \in D : <<x, y>> \in R
                              <=> Cardinality(Before(D, R, x)) < Cardinality(Before(D, R, y))
         /\ \A k \in 1..Cardinality(D) : \E x \in D : Cardinality(Before(D, R, x)) + 1 = k
<1> DEFINE n == Cardinality(D)
           rank == [x \in D |-> Cardinality(Before(D, R, x)) + 1]
<1>0. n \in Nat /\ IsFiniteSet(1..n) /\ Cardinality(1..n) = n
  BY FS_CardinalityType, FS_Interval
<1>1. \A x \in D : /\ IsFiniteSet(Before(D, R, x)) /\ Cardinality(Before(D, R, x)) \in Nat
                   /\ Before(D, R, x) \in SUBSET (D \ {x})
  BY FS_Subset, FS_CardinalityType DEF Before
<1>2. \A x \in D : Cardinality(Before(D, R, x)) + 1 \in 1..n
  <2> TAKE x \in D
  <2>1. IsFiniteSet(D \ {x}) /\ Cardinality(D \ {x}) = n - 1
    BY FS_RemoveElement
  <2>2. Cardinality(Before(D, R, x)) <= Cardinality(D \ {x})
    BY <1>1, <2>1, FS_Subset
  <2> QED BY <1>0, <1>1, <2>1, <2>2
<1>3. ASSUME NEW x \in D, NEW y \in D, <<x, y>> \in R
      PROVE  Cardinality(Before(D, R, x)) < Cardinality(Before(D, R, y))
  <2>1. Before(D, R, x) \cup {x} \in SUBSET Before(D, R, y) /\ x \notin Before(D, R, x)
    BY <1>3 DEF Before
  <2>2. Cardinality(Before(D, R, x) \cup {x}) = Cardinality(Before(D, R, x)) + 1
    BY <1>1, <2>1, FS_AddElement
  <2>3. Cardinality(Before(D, R, x) \cup {x}) <= Cardinality(Before(D, R, y))
    BY <1>1, <2>1, FS_Subset
  <2> QED BY <1>1, <2>2, <2>3
<1>4. \A x, y \in D : <<x, y>> \in R
                        <=> Cardinality(Before(D, R, x)) < Cardinality(Before(D, R, y))
  <2> TAKE x, y \in D
  <2>1. CASE <<x, y>> \in R
    BY <2>1, <1>3
  <2>2. CASE x = y
    BY <2>2, <1>1
  <2>3. CASE <<y, x>> \in R
    <3>1. Cardinality(Before(D, R, y)) < Cardinality(Before(D, R, x))
      BY <2>3, <1>3
    <3>2. <<x, y>> \notin R
      BY <2>3
    <3> QED BY <3>1, <3>2, <1>1
  <2> QED BY <2>1, <2>2, <2>3
<1>5. rank \in Injection(D, 1..n)
  <2>1. rank \in [D -> 1..n]
    BY <1>2
  <2>2. ASSUME NEW x \in D, NEW y \in D, rank[x] = rank[y] PROVE x = y
    <3>1. Cardinality(Before(D, R, x)) = Cardinality(Before(D, R, y))
      BY <2>2, <1>1
    <3> QED BY <3>1, <1>1, <1>4
  <2> QED BY <2>1, <2>2 DEF Injection, IsInjective
<1>6. rank \in Surjection(D, 1..n)
  BY <1>0, <1>5, FS_Injection
<1>7. \A k \in 1..n : \E x \in D : rank[x] = k
  BY <1>6 DEF Surjection
<1> QED BY <1>2, <1>4, <1>7

\* The numbers of a set in order.
Below(S, i) == {j \in S : j < i}
LEMMA BelowIsRank ==
  ASSUME NEW S, S \subseteq Nat, IsFiniteSet(S)
  PROVE  /\ Cardinality(S) \in Nat
         /\ \A x \in S : Cardinality(Below(S, x)) + 1 \in 1..Cardinality(S) /\ Cardinality(Below(S, x)) \in Nat
         /\ \A x, y \in S : x < y <=> Cardinality(Below(S, x)) < Cardinality(Below(S, y))
         /\ \A k \in 1..Cardinality(S) : \E x \in S : Cardinality(Below(S, x)) + 1 = k
<1> DEFINE R == {p \in S \X S : p[1] < p[2]}
<1>1. \A x, y \in S : <<x, y>> \in R <=> x < y
  OBVIOUS
<1>2. \A x \in S : Before(S, R, x) = Below(S, x)
  BY <1>1 DEF Before, Below
<1> HIDE DEF R
<1>3. /\ \A x \in S : <<x, x>> \notin R
      /\ \A x, y \in S : x # y => <<x, y>> \in R \/ <<y, x>> \in R
      /\ \A x, y, z \in S : <<x, y>> \in R /\ <<y, z>> \in R => <<x, z>> \in R
  BY <1>1
<1>4. /\ \A x \in S : Cardinality(Before(S, R, x)) + 1 \in 1..Cardinality(S)
      /\ \A x, y \in S : <<x, y>> \in R
                           <=> Cardinality(Before(S, R, x)) < Cardinality(Before(S, R, y))
      /\ \A k \in 1..Cardinality(S) : \E x \in S : Cardinality(Before(S, R, x)) + 1 = k
  BY <1>3, RankIsPosition
<1>5. Cardinality(S) \in Nat /\ \A x \in S : Cardinality(Below(S, x)) \in Nat
  BY FS_CardinalityType, FS_Subset DEF Below
<1> QED BY <1>1, <1>2, <1>4, <1>5

LEMMA InOrderAt ==
  ASSUME NEW S, S \subseteq Nat, IsFiniteSet(S), NEW x \in S
  PROVE  /\ Cardinality(Below(S, x)) + 1 \in 1..Cardinality(S)
         /\ InOrder(S)[Cardinality(Below(S, x)) + 1] = x
<1> DEFINE k == Cardinality(Below(S, x)) + 1
<1>0. Cardinality(S) \in Nat /\ Cardinality(Below(S, x)) \in Nat /\ k \in 1..Cardinality(S)
  BY BelowIsRank
<1>1. k \in 1..Cardinality(S) /\ Cardinality(Below(S, x)) = k - 1 /\ k - 1 \in Nat
  BY <1>0
<1> HIDE DEF k
<1>2. InOrder(S)[k] = CHOOSE i \in S : Cardinality(Below(S, i)) = k - 1
  BY <1>1 DEF InOrder, Below
<1>3. \A i \in S : Cardinality(Below(S, i)) = k - 1 => i = x
  <2> TAKE i \in S
  <2> HAVE Cardinality(Below(S, i)) = k - 1
  <2>0. \A y, z \in S : y < z <=> Cardinality(Below(S, y)) < Cardinality(Below(S, z))
    BY BelowIsRank
  <2>1. ~(i < x) /\ ~(x < i)
    BY <1>1, <2>0
  <2> QED BY <2>1
<1>4. InOrder(S)[k] = x
  BY <1>1, <1>2, <1>3
<1> QED BY <1>1, <1>4 DEF k

LEMMA InOrderIs ==
  ASSUME NEW S, S \subseteq Nat, IsFiniteSet(S)
  PROVE  /\ InOrder(S) \in [1..Cardinality(S) -> S]
         /\ \A k \in 1..Cardinality(S) : Cardinality(Below(S, InOrder(S)[k])) = k - 1
         /\ \A i, j \in 1..Cardinality(S) : i < j <=> InOrder(S)[i] < InOrder(S)[j]
         /\ \A x \in S : \E k \in 1..Cardinality(S) : InOrder(S)[k] = x
<1>1. \A k \in 1..Cardinality(S) : InOrder(S)[k] \in S /\ Cardinality(Below(S, InOrder(S)[k])) = k - 1
  <2> TAKE k \in 1..Cardinality(S)
  <2>1. PICK x \in S : Cardinality(Below(S, x)) + 1 = k
    BY BelowIsRank
  <2>2. InOrder(S)[k] = x
    BY <2>1, InOrderAt
  <2>3. Cardinality(S) \in Nat /\ Cardinality(Below(S, x)) \in Nat
    BY BelowIsRank
  <2>4. Cardinality(Below(S, x)) = k - 1
    BY <2>1, <2>3
  <2> QED BY <2>2, <2>4
<1>2. \A k \in 1..Cardinality(S) : (CHOOSE i \in S : Cardinality({j \in S : j < i}) = k - 1) \in S
  BY <1>1, Zenon DEF InOrder
<1>3. InOrder(S) \in [1..Cardinality(S) -> S]
  BY <1>2, Zenon DEF InOrder
<1>4. ASSUME NEW i \in 1..Cardinality(S), NEW j \in 1..Cardinality(S)
      PROVE  i < j <=> InOrder(S)[i] < InOrder(S)[j]
  <2>1. Cardinality(S) \in Nat
    BY BelowIsRank
  <2>2. InOrder(S)[i] < InOrder(S)[j]
          <=> Cardinality(Below(S, InOrder(S)[i])) < Cardinality(Below(S, InOrder(S)[j]))
    BY <1>1, BelowIsRank
  <2> QED BY <1>1, <2>1, <2>2
<1> QED BY <1>1, <1>3, <1>4, InOrderAt

\* One more number, greater than all of them, comes last.
LEMMA InOrderNext ==
  ASSUME NEW S, S \subseteq Nat, IsFiniteSet(S), NEW m \in Nat, \A i \in S : i < m
  PROVE  /\ Cardinality(S \cup {m}) = Cardinality(S) + 1 /\ Cardinality(S) \in Nat
         /\ \A k \in 1..Cardinality(S) : InOrder(S \cup {m})[k] = InOrder(S)[k]
         /\ InOrder(S \cup {m})[Cardinality(S) + 1] = m
<1> DEFINE T == S \cup {m}
<1>1. T \subseteq Nat /\ IsFiniteSet(T) /\ Cardinality(T) = Cardinality(S) + 1 /\ Cardinality(S) \in Nat
  BY FS_AddElement, FS_CardinalityType
<1>2. \A x \in S : Below(T, x) = Below(S, x)
  BY DEF Below
<1>3. Below(T, m) = S
  <2>1. \A i \in S : i \in Below(T, m)
    BY DEF Below
  <2>2. ~(m < m)
    OBVIOUS
  <2>3. \A i \in Below(T, m) : i \in S
    BY <2>2 DEF Below
  <2> QED BY <2>1, <2>3
<1>4. ASSUME NEW k \in 1..Cardinality(S) PROVE InOrder(T)[k] = InOrder(S)[k]
  <2>1. InOrder(S)[k] \in S /\ Cardinality(Below(S, InOrder(S)[k])) = k - 1
    BY InOrderIs
  <2> DEFINE x == InOrder(S)[k]
  <2>2. x \in T /\ Cardinality(Below(T, x)) = k - 1
    BY <1>2, <2>1
  <2> HIDE DEF x, T
  <2>3. InOrder(T)[Cardinality(Below(T, x)) + 1] = x
    BY <1>1, <2>2, InOrderAt
  <2>4. Cardinality(Below(T, x)) + 1 = k
    BY <1>1, <2>2
  <2> QED BY <2>3, <2>4 DEF x
<1>5. InOrder(T)[Cardinality(S) + 1] = m
  <2>1. m \in T
    OBVIOUS
  <2> HIDE DEF T
  <2>2. InOrder(T)[Cardinality(Below(T, m)) + 1] = m
    BY <1>1, <2>1, InOrderAt
  <2> QED BY <1>3, <2>2
<1> QED BY <1>1, <1>4, <1>5

\* The rows at some positions.
LEMMA Positions ==
  ASSUME NEW X, NEW s \in Seq(X), NEW D \in SUBSET DOMAIN s
  PROVE  D \subseteq Nat /\ IsFiniteSet(D) /\ Cardinality(D) \in Nat /\ DOMAIN s = 1..Len(s) /\ Len(s) \in Nat
<1>1. DOMAIN s = 1..Len(s) /\ Len(s) \in Nat
  OBVIOUS
<1>2. IsFiniteSet(1..Len(s))
  BY <1>1, FS_Interval
<1> QED BY <1>1, <1>2, FS_Subset, FS_CardinalityType

LEMMA RowsAtIs ==
  ASSUME NEW X, NEW s \in Seq(X), NEW D \in SUBSET DOMAIN s
  PROVE  /\ RowsAt(s, D) \in Seq(X) /\ Len(RowsAt(s, D)) = Cardinality(D)
         /\ \A k \in 1..Cardinality(D) : InOrder(D)[k] \in D /\ RowsAt(s, D)[k] = s[InOrder(D)[k]]
         /\ ToSet(RowsAt(s, D)) = {s[i] : i \in D}
<1>0. D \subseteq Nat /\ IsFiniteSet(D) /\ Cardinality(D) \in Nat
  BY Positions
<1>1. InOrder(D) \in [1..Cardinality(D) -> D] /\ \A x \in D : \E k \in 1..Cardinality(D) : InOrder(D)[k] = x
  BY <1>0, InOrderIs
<1>2. \A k \in 1..Cardinality(D) : s[InOrder(D)[k]] \in X
  BY <1>1
<1>3. RowsAt(s, D) = [k \in 1..Cardinality(D) |-> s[InOrder(D)[k]]]
  BY DEF RowsAt
<1>4. RowsAt(s, D) \in Seq(X) /\ Len(RowsAt(s, D)) = Cardinality(D)
  BY <1>0, <1>2, <1>3
<1>5. DOMAIN RowsAt(s, D) = 1..Cardinality(D)
  BY <1>3
<1>6. ToSet(RowsAt(s, D)) = {s[i] : i \in D}
  <2>1. ASSUME NEW x \in ToSet(RowsAt(s, D)) PROVE x \in {s[i] : i \in D}
    BY <1>1, <1>3, <1>5 DEF ToSet
  <2>2. ASSUME NEW i \in D PROVE s[i] \in ToSet(RowsAt(s, D))
    <3>1. PICK k \in 1..Cardinality(D) : InOrder(D)[k] = i
      BY <1>1
    <3> QED BY <1>3, <1>5, <3>1 DEF ToSet
  <2> QED BY <2>1, <2>2
<1> QED BY <1>1, <1>3, <1>4, <1>6

LEMMA RowsAtNext ==
  ASSUME NEW X, NEW s \in Seq(X), NEW D \in SUBSET DOMAIN s, NEW m \in DOMAIN s, \A i \in D : i < m
  PROVE  RowsAt(s, D \cup {m}) = Append(RowsAt(s, D), s[m])
<1> DEFINE T == D \cup {m}
<1>0. D \subseteq Nat /\ IsFiniteSet(D) /\ Cardinality(D) \in Nat /\ m \in Nat /\ T \in SUBSET DOMAIN s
  BY Positions
<1>1. /\ Cardinality(T) = Cardinality(D) + 1
      /\ \A k \in 1..Cardinality(D) : InOrder(T)[k] = InOrder(D)[k]
      /\ InOrder(T)[Cardinality(D) + 1] = m
  BY <1>0, InOrderNext
<1> HIDE DEF T
<1>2. /\ RowsAt(s, T) \in Seq(X) /\ Len(RowsAt(s, T)) = Cardinality(T)
      /\ \A k \in 1..Cardinality(T) : RowsAt(s, T)[k] = s[InOrder(T)[k]]
  BY <1>0, RowsAtIs
<1>3. /\ RowsAt(s, D) \in Seq(X) /\ Len(RowsAt(s, D)) = Cardinality(D)
      /\ \A k \in 1..Cardinality(D) : RowsAt(s, D)[k] = s[InOrder(D)[k]]
  BY RowsAtIs
<1>4. Append(RowsAt(s, D), s[m]) \in Seq(X) /\ Len(Append(RowsAt(s, D), s[m])) = Cardinality(T)
  BY <1>1, <1>3
<1>5. ASSUME NEW k \in 1..Cardinality(T) PROVE RowsAt(s, T)[k] = Append(RowsAt(s, D), s[m])[k]
  <2>1. CASE k = Cardinality(D) + 1
    BY <1>1, <1>2, <1>3, <2>1
  <2>2. CASE k \in 1..Cardinality(D)
    BY <1>1, <1>2, <1>3, <2>2
  <2>3. k = Cardinality(D) + 1 \/ k \in 1..Cardinality(D)
    BY <1>0, <1>1
  <2> QED BY <2>1, <2>2, <2>3
<1>6. RowsAt(s, T) = Append(RowsAt(s, D), s[m])
  BY <1>2, <1>4, <1>5, SeqEqual
<1> QED BY <1>6 DEF T

LEMMA RowsAtNothing == ASSUME NEW s PROVE RowsAt(s, {}) = <<>>
<1>1. Cardinality({}) = 0
  BY FS_EmptySet
<1> QED BY <1>1 DEF RowsAt

-----------------------------------------------------------------------------
(* FlattenSeq *)
Flattened(ss) ==
  CHOOSE F : F = [i \in 1..Len(ss) |-> IF i = 1 THEN ss[i] ELSE F[i - 1] \o ss[i]]

LEMMA FlattenedIs ==
  ASSUME NEW ss, Len(ss) \in Nat
  PROVE  \A i \in 1..Len(ss) : Flattened(ss)[i] = IF i = 1 THEN ss[i] ELSE Flattened(ss)[i - 1] \o ss[i]
<1> DEFINE Upto(n, F) == \A i \in 1..Len(ss) : i <= n => F[i] = IF i = 1 THEN ss[i] ELSE F[i - 1] \o ss[i]
           Step(F) == [i \in 1..Len(ss) |-> IF i = 1 THEN ss[i] ELSE F[i - 1] \o ss[i]]
           Done == {n \in Nat : \E F : Upto(n, F)}
<1>1. 0 \in Done
  <2>1. \A i \in 1..Len(ss) : ~(i <= 0)
    OBVIOUS
  <2> QED BY <2>1
<1>2. ASSUME NEW n \in Nat, n \in Done PROVE n + 1 \in Done
  <2>1. PICK F : Upto(n, F)
    BY <1>2
  <2> DEFINE G == Step(F)
  <2>2. ASSUME NEW i \in 1..Len(ss), i <= n + 1
        PROVE  G[i] = IF i = 1 THEN ss[i] ELSE G[i - 1] \o ss[i]
    <3>1. CASE i = 1
      BY <3>1
    <3>2. CASE i # 1
      <4>1. i - 1 \in 1..Len(ss) /\ i - 1 <= n
        BY <2>2, <3>2
      <4>2. G[i - 1] = F[i - 1]
        BY <4>1, <2>1
      <4>3. G[i] = F[i - 1] \o ss[i]
        BY <3>2
      <4> QED BY <3>2, <4>2, <4>3
    <3> QED BY <3>1, <3>2
  <2> HIDE DEF G
  <2>3. \E J : Upto(n + 1, J)
    BY <2>2
  <2> QED BY <2>3
<1>3. Nat \subseteq Done
  <2> HIDE DEF Done
  <2> QED BY <1>1, <1>2, AllNumbers
<1>4. PICK F : Upto(Len(ss), F)
  BY <1>3
<1> DEFINE G == Step(F)
<1>5. G = Step(G)
  <2>1. ASSUME NEW i \in 1..Len(ss) PROVE F[i] = G[i]
    BY <1>4
  <2>2. ASSUME NEW i \in 1..Len(ss), i # 1 PROVE i - 1 \in 1..Len(ss)
    BY <2>2
  <2> QED BY <2>1, <2>2
<1> HIDE DEF G
<1>6. Flattened(ss) = Step(Flattened(ss))
  BY <1>5 DEF Flattened
<1> DEFINE H == Flattened(ss)
<1>7. H = Step(H)
  BY <1>6
<1> HIDE DEF H
<1>8. \A i \in 1..Len(ss) : H[i] = IF i = 1 THEN ss[i] ELSE H[i - 1] \o ss[i]
  BY <1>7
<1> QED BY <1>8 DEF H

LEMMA FlattenIs ==
  ASSUME NEW ss, Len(ss) \in Nat
  PROVE  FlattenSeq(ss) = IF Len(ss) = 0 THEN ss ELSE Flattened(ss)[Len(ss)]
BY Zenon DEF FlattenSeq, Flattened

\* The beginning of a list of sequences, flattened.
LEMMA FlattenedPart ==
  ASSUME NEW Y, NEW ss \in Seq(Y), NEW s \in Y
  PROVE  \A i \in 1..Len(ss) : Flattened(Append(ss, s))[i] = Flattened(ss)[i]
<1> DEFINE tt == Append(ss, s)
           Same == {n \in Nat : \A i \in 1..Len(ss) : i <= n => Flattened(tt)[i] = Flattened(ss)[i]}
<1>0. Len(ss) \in Nat /\ Len(tt) = Len(ss) + 1 /\ \A i \in 1..Len(ss) : tt[i] = ss[i] /\ i \in 1..Len(tt)
  OBVIOUS
<1>1. 0 \in Same
  <2>1. \A i \in 1..Len(ss) : ~(i <= 0)
    OBVIOUS
  <2> QED BY <2>1
<1> HIDE DEF tt
<1>2. ASSUME NEW n \in Nat, n \in Same PROVE n + 1 \in Same
  <2>1. ASSUME NEW i \in 1..Len(ss), i <= n + 1 PROVE Flattened(tt)[i] = Flattened(ss)[i]
    <3>1. Flattened(tt)[i] = IF i = 1 THEN tt[i] ELSE Flattened(tt)[i - 1] \o tt[i]
      BY <1>0, FlattenedIs
    <3>2. Flattened(ss)[i] = IF i = 1 THEN ss[i] ELSE Flattened(ss)[i - 1] \o ss[i]
      BY <1>0, FlattenedIs
    <3>3. i # 1 => i - 1 \in 1..Len(ss) /\ i - 1 <= n
      BY <2>1
    <3>4. i # 1 => Flattened(tt)[i - 1] = Flattened(ss)[i - 1]
      BY <3>3, <1>2
    <3> QED BY <3>1, <3>2, <3>4, <1>0
  <2> QED BY <2>1
<1>3. Nat \subseteq Same
  <2> HIDE DEF Same
  <2> QED BY <1>1, <1>2, AllNumbers
<1>4. Len(ss) \in Same
  BY <1>0, <1>3
<1> QED BY <1>0, <1>4 DEF tt

LEMMA FlattenNext ==
  ASSUME NEW X, NEW ss \in Seq(Seq(X)), NEW s \in Seq(X)
  PROVE  FlattenSeq(Append(ss, s)) = FlattenSeq(ss) \o s
<1> DEFINE tt == Append(ss, s)
           n == Len(ss)
<1>0. n \in Nat /\ Len(tt) = n + 1 /\ tt[n + 1] = s /\ n + 1 \in 1..Len(tt)
  OBVIOUS
<1> HIDE DEF tt
<1>1. FlattenSeq(tt) = Flattened(tt)[n + 1]
  BY <1>0, FlattenIs
<1>2. Flattened(tt)[n + 1] = IF n + 1 = 1 THEN tt[n + 1] ELSE Flattened(tt)[(n + 1) - 1] \o tt[n + 1]
  BY <1>0, FlattenedIs
<1>3. CASE n = 0
  <2>1. ss = <<>>
    BY <1>3
  <2>2. FlattenSeq(ss) = <<>>
    BY <2>1, <1>0, <1>3, FlattenIs
  <2>3. <<>> \o s = s
    OBVIOUS
  <2> QED BY <1>0, <1>1, <1>2, <1>3, <2>2, <2>3 DEF tt
<1>4. CASE n # 0
  <2>1. (n + 1) - 1 = n /\ n \in 1..n /\ n + 1 # 1
    BY <1>0, <1>4
  <2>2. Flattened(tt)[n] = Flattened(ss)[n]
    BY <2>1, FlattenedPart DEF tt
  <2>3. FlattenSeq(ss) = Flattened(ss)[n]
    BY <1>0, <1>4, FlattenIs
  <2> QED BY <1>0, <1>1, <1>2, <2>1, <2>2, <2>3 DEF tt
<1> QED BY <1>3, <1>4 DEF tt

LEMMA FlattenNothing == FlattenSeq(<<>>) = <<>>
<1>1. Len(<<>>) = 0
  OBVIOUS
<1> QED BY <1>1, FlattenIs

\* The beginnings of a sequence.
LEMMA Beginnings ==
  ASSUME NEW Y, NEW ss \in Seq(Y)
  PROVE  /\ Len(ss) \in Nat
         /\ SubSeq(ss, 1, 0) = <<>>
         /\ SubSeq(ss, 1, Len(ss)) = ss
         /\ \A n \in 0..Len(ss) : SubSeq(ss, 1, n) \in Seq(Y) /\ Len(SubSeq(ss, 1, n)) = n
         /\ \A n \in Nat : n + 1 <= Len(ss) =>
              n + 1 \in DOMAIN ss /\ ss[n + 1] \in Y
                /\ SubSeq(ss, 1, n + 1) = Append(SubSeq(ss, 1, n), ss[n + 1])
<1>1. Len(ss) \in Nat /\ DOMAIN ss = 1..Len(ss)
  OBVIOUS
<1>2. SubSeq(ss, 1, 0) = <<>>
  BY SubSeqEmpty
<1>3. SubSeq(ss, 1, Len(ss)) = ss
  BY SubSeqFull
<1>4. ASSUME NEW n \in 0..Len(ss)
      PROVE  /\ SubSeq(ss, 1, n) \in Seq(Y) /\ Len(SubSeq(ss, 1, n)) = n
             /\ \A i \in 1..n : SubSeq(ss, 1, n)[i] = ss[i]
  <2>1. n \in Int /\ 1 \in Int /\ \A i \in 1..n : ss[i] \in Y
    BY <1>1
  <2>2. /\ SubSeq(ss, 1, n) \in Seq(Y)
        /\ Len(SubSeq(ss, 1, n)) = IF 1 <= n THEN n - 1 + 1 ELSE 0
        /\ \A i \in 1..(n - 1 + 1) : SubSeq(ss, 1, n)[i] = ss[1 + i - 1]
    BY <2>1, SubSeqProperties
  <2> QED BY <2>1, <2>2
<1>5. ASSUME NEW n \in Nat, n + 1 <= Len(ss)
      PROVE  /\ n + 1 \in DOMAIN ss /\ ss[n + 1] \in Y
             /\ SubSeq(ss, 1, n + 1) = Append(SubSeq(ss, 1, n), ss[n + 1])
  <2>1. n + 1 \in DOMAIN ss /\ ss[n + 1] \in Y /\ n \in 0..Len(ss) /\ n + 1 \in 0..Len(ss)
    BY <1>1, <1>5
  <2> DEFINE a == SubSeq(ss, 1, n)
             b == SubSeq(ss, 1, n + 1)
  <2>2. /\ a \in Seq(Y) /\ Len(a) = n /\ \A i \in 1..n : a[i] = ss[i]
        /\ b \in Seq(Y) /\ Len(b) = n + 1 /\ \A i \in 1..(n + 1) : b[i] = ss[i]
    BY <2>1, <1>4
  <2> HIDE DEF a, b
  <2>3. /\ Append(a, ss[n + 1]) \in Seq(Y) /\ Len(Append(a, ss[n + 1])) = n + 1
        /\ \A i \in 1..n : Append(a, ss[n + 1])[i] = a[i]
        /\ Append(a, ss[n + 1])[n + 1] = ss[n + 1]
    BY <2>1, <2>2
  <2>4. \A i \in 1..(n + 1) : b[i] = Append(a, ss[n + 1])[i]
    BY <2>2, <2>3
  <2>5. b = Append(a, ss[n + 1])
    BY <2>2, <2>3, <2>4, SeqEqual
  <2> QED BY <2>1, <2>5 DEF a, b
<1> QED BY <1>1, <1>2, <1>3, <1>4, <1>5

\* Flattening keeps the type and the members.
LEMMA FlattenMembers ==
  ASSUME NEW X, NEW ss \in Seq(Seq(X))
  PROVE  /\ FlattenSeq(ss) \in Seq(X)
         /\ ToSet(FlattenSeq(ss)) = UNION {ToSet(ss[i]) : i \in DOMAIN ss}
<1> DEFINE Part(n) == SubSeq(ss, 1, n)
           Good == {n \in Nat : n <= Len(ss) =>
                      /\ FlattenSeq(Part(n)) \in Seq(X)
                      /\ ToSet(FlattenSeq(Part(n))) = UNION {ToSet(ss[i]) : i \in 1..n}}
<1>0. /\ Len(ss) \in Nat /\ Part(0) = <<>> /\ Part(Len(ss)) = ss /\ DOMAIN ss = 1..Len(ss)
      /\ \A n \in 0..Len(ss) : Part(n) \in Seq(Seq(X)) /\ Len(Part(n)) = n
      /\ \A n \in Nat : n + 1 <= Len(ss) =>
           n + 1 \in DOMAIN ss /\ ss[n + 1] \in Seq(X) /\ Part(n + 1) = Append(Part(n), ss[n + 1])
  BY Beginnings
<1> HIDE DEF Part
<1>1. 0 \in Good
  <2>1. FlattenSeq(Part(0)) = <<>>
    BY <1>0, FlattenNothing
  <2>2. ToSet(<<>>) = {}
    BY DEF ToSet
  <2>3. UNION {ToSet(ss[i]) : i \in 1..0} = {}
    OBVIOUS
  <2>4. <<>> \in Seq(X)
    OBVIOUS
  <2> QED BY <2>1, <2>2, <2>3, <2>4
<1>2. ASSUME NEW n \in Nat, n \in Good PROVE n + 1 \in Good
  <2> SUFFICES ASSUME n + 1 <= Len(ss)
               PROVE  /\ FlattenSeq(Part(n + 1)) \in Seq(X)
                      /\ ToSet(FlattenSeq(Part(n + 1))) = UNION {ToSet(ss[i]) : i \in 1..(n + 1)}
    OBVIOUS
  <2>1. n <= Len(ss) /\ n \in 0..Len(ss)
    BY <1>0
  <2>2. FlattenSeq(Part(n)) \in Seq(X) /\ ToSet(FlattenSeq(Part(n))) = UNION {ToSet(ss[i]) : i \in 1..n}
    BY <1>2, <2>1
  <2>3. FlattenSeq(Part(n + 1)) = FlattenSeq(Part(n)) \o ss[n + 1]
    BY <1>0, <2>1, FlattenNext
  <2> DEFINE a == FlattenSeq(Part(n))
             b == ss[n + 1]
  <2>4. a \in Seq(X) /\ b \in Seq(X)
    BY <1>0, <2>2
  <2>5. a \o b \in Seq(X) /\ ToSet(a \o b) = ToSet(a) \cup ToSet(b)
    <3> HIDE DEF a, b
    <3>1. /\ a \o b \in Seq(X) /\ Len(a \o b) = Len(a) + Len(b) /\ Len(a) \in Nat /\ Len(b) \in Nat
          /\ DOMAIN a = 1..Len(a) /\ DOMAIN b = 1..Len(b) /\ DOMAIN (a \o b) = 1..Len(a \o b)
          /\ \A i \in 1..Len(a) : (a \o b)[i] = a[i]
          /\ \A i \in 1..Len(b) : (a \o b)[Len(a) + i] = b[i]
      BY <2>4
    <3>2. \A i \in DOMAIN (a \o b) : i \in 1..Len(a) \/ \E j \in 1..Len(b) : i = Len(a) + j
      <4> TAKE i \in DOMAIN (a \o b)
      <4>1. i \in Nat /\ i >= 1 /\ i <= Len(a) + Len(b)
        BY <3>1
      <4>2. CASE i > Len(a)
        <5>1. i - Len(a) \in 1..Len(b) /\ i = Len(a) + (i - Len(a))
          BY <3>1, <4>1, <4>2
        <5> QED BY <5>1
      <4> QED BY <3>1, <4>1, <4>2
    <3>3. \A x \in ToSet(a \o b) : x \in ToSet(a) \cup ToSet(b)
      BY <3>1, <3>2 DEF ToSet
    <3>4. \A x \in ToSet(a) : x \in ToSet(a \o b)
      BY <3>1 DEF ToSet
    <3>5. \A x \in ToSet(b) : x \in ToSet(a \o b)
      <4> TAKE x \in ToSet(b)
      <4>1. PICK i \in 1..Len(b) : b[i] = x
        BY <3>1 DEF ToSet
      <4>2. Len(a) + i \in DOMAIN (a \o b)
        BY <3>1
      <4> QED BY <3>1, <4>1, <4>2 DEF ToSet
    <3> QED BY <3>1, <3>3, <3>4, <3>5
  <2>6. UNION {ToSet(ss[i]) : i \in 1..(n + 1)} = (UNION {ToSet(ss[i]) : i \in 1..n}) \cup ToSet(ss[n + 1])
    <3>1. 1..(n + 1) = (1..n) \cup {n + 1}
      OBVIOUS
    <3> QED BY <3>1
  <2> QED BY <2>2, <2>3, <2>5, <2>6
<1>3. Nat \subseteq Good
  <2> HIDE DEF Good
  <2> QED BY <1>1, <1>2, AllNumbers
<1>4. Len(ss) \in Good
  BY <1>0, <1>3
<1> QED BY <1>0, <1>4

\* Rows that can be put in order.
Sequenced(times) == \A i \in DOMAIN times : times[i].seq \in Int

LEMMA SortExists ==
  ASSUME NEW X, NEW times \in Seq(X), Sequenced(times)
  PROVE  \E at \in [DOMAIN times -> DOMAIN times] : Sorts(at, times)
<1> DEFINE D == DOMAIN times
           R == {p \in D \X D : \/ times[p[1]].seq < times[p[2]].seq
                                \/ times[p[1]].seq = times[p[2]].seq /\ p[1] < p[2]}
           Rank(x) == Cardinality(Before(D, R, x))
           at == [k \in D |-> CHOOSE x \in D : Rank(x) + 1 = k]
           Lesser(x, y) == times[x].seq < times[y].seq \/ (times[x].seq = times[y].seq /\ x < y)
<1>0. D = 1..Len(times) /\ Len(times) \in Nat /\ IsFiniteSet(D) /\ Cardinality(D) = Len(times)
  <2>1. D = 1..Len(times) /\ Len(times) \in Nat
    OBVIOUS
  <2>2. IsFiniteSet(1..Len(times)) /\ Cardinality(1..Len(times)) = Len(times)
    BY <2>1, FS_Interval, SMTT(30)
  <2> QED BY <2>1, <2>2
<1>1. \A x, y \in D : <<x, y>> \in R <=> Lesser(x, y)
  OBVIOUS
<1>2. \A x \in D : times[x].seq \in Int /\ x \in Nat
  BY <1>0 DEF Sequenced
<1> HIDE DEF R
<1>3. /\ \A x \in D : <<x, x>> \notin R
      /\ \A x, y \in D : x # y => <<x, y>> \in R \/ <<y, x>> \in R
      /\ \A x, y, z \in D : <<x, y>> \in R /\ <<y, z>> \in R => <<x, z>> \in R
  <2> HIDE DEF D
  <2>1. \A x \in D : ~Lesser(x, x)
    BY <1>2
  <2>2. \A x, y \in D : x # y => Lesser(x, y) \/ Lesser(y, x)
    BY <1>2
  <2>3. \A x, y, z \in D : Lesser(x, y) /\ Lesser(y, z) => Lesser(x, z)
    BY <1>2
  <2> HIDE DEF Lesser
  <2> QED BY <1>1, <2>1, <2>2, <2>3
<1>4. /\ \A x, y \in D : <<x, y>> \in R <=> Rank(x) < Rank(y)
      /\ \A k \in D : \E x \in D : Rank(x) + 1 = k
  BY <1>0, <1>3, RankIsPosition
<1>5. \A x \in D : Rank(x) \in Nat
  BY <1>0, FS_Subset, FS_CardinalityType DEF Before
<1> HIDE DEF D, Rank
<1>6. \A k \in D : at[k] \in D /\ Rank(at[k]) + 1 = k
  BY <1>4
<1>7. at \in [D -> D]
  BY <1>6
<1> HIDE DEF at
<1>8. IsInjective(at)
  <2>1. \A i, j \in D : at[i] = at[j] => i = j
    BY <1>6
  <2> QED BY <1>7, <2>1 DEF IsInjective
<1>9. ASSUME NEW i \in D, NEW j \in D, i < j PROVE times[at[i]].seq <= times[at[j]].seq
  <2>1. at[i] \in D /\ at[j] \in D /\ Rank(at[i]) + 1 = i /\ Rank(at[j]) + 1 = j
    BY <1>6
  <2>2. Rank(at[i]) < Rank(at[j])
    BY <1>5, <1>9, <2>1
  <2>3. <<at[i], at[j]>> \in R
    BY <1>4, <2>1, <2>2
  <2>4. Lesser(at[i], at[j])
    BY <1>1, <2>1, <2>3
  <2>5. times[at[i]].seq \in Int /\ times[at[j]].seq \in Int
    BY <1>2, <2>1
  <2> QED BY <2>4, <2>5
<1>10. Sorts(at, times)
  BY <1>7, <1>8, <1>9 DEF Sorts, D
<1> QED BY <1>7, <1>10 DEF D

LEMMA InSequenceIs ==
  ASSUME NEW X, NEW times \in Seq(X), Sequenced(times)
  PROVE  /\ InSequence(times) \in Seq(X) /\ Len(InSequence(times)) = Len(times)
         /\ ToSet(InSequence(times)) = ToSet(times)
         /\ \A i, j \in DOMAIN InSequence(times) : i < j => InSequence(times)[i].seq <= InSequence(times)[j].seq
         /\ \A i, j \in DOMAIN InSequence(times) : (\A k, l \in DOMAIN times : times[k] = times[l] => k = l)
                /\ InSequence(times)[i] = InSequence(times)[j] => i = j
<1> DEFINE D == DOMAIN times
           at == CHOOSE at \in [DOMAIN times -> DOMAIN times] : Sorts(at, times)
<1>0. D = 1..Len(times) /\ Len(times) \in Nat /\ IsFiniteSet(D)
  BY FS_Interval
<1>1. Sorts(at, times)
  BY SortExists, Zenon
<1>2. InSequence(times) = [k \in D |-> times[at[k]]]
  BY DEF InSequence
<1> HIDE DEF at
<1>3. /\ at \in [D -> D] /\ \A i, j \in D : at[i] = at[j] => i = j
      /\ \A i, j \in D : i < j => times[at[i]].seq <= times[at[j]].seq
  BY <1>1 DEF Sorts, IsInjective
<1>4. \A x \in D : \E k \in D : at[k] = x
  <2>1. at \in Injection(D, D)
    BY <1>3 DEF Injection, IsInjective
  <2>2. at \in Surjection(D, D)
    BY <2>1, <1>0, FS_Injection
  <2> QED BY <2>2 DEF Surjection
<1>5. InSequence(times) \in [1..Len(times) -> X]
  BY <1>0, <1>2, <1>3
<1>6. InSequence(times) \in Seq(X) /\ Len(InSequence(times)) = Len(times) /\ DOMAIN InSequence(times) = D
  BY <1>0, <1>5
<1>7. ToSet(InSequence(times)) = ToSet(times)
  <2>1. ASSUME NEW x \in ToSet(InSequence(times)) PROVE x \in ToSet(times)
    BY <1>2, <1>3, <1>6 DEF ToSet
  <2>2. ASSUME NEW x \in ToSet(times) PROVE x \in ToSet(InSequence(times))
    <3>1. PICK i \in D : x = times[i]
      BY DEF ToSet
    <3>2. PICK k \in D : at[k] = i
      BY <1>4
    <3> QED BY <1>2, <1>6, <3>1, <3>2 DEF ToSet
  <2> QED BY <2>1, <2>2
<1> HIDE DEF D
<1>8. \A k \in D : InSequence(times)[k] = times[at[k]] /\ at[k] \in D
  BY <1>2, <1>3
<1> QED BY <1>3, <1>6, <1>7, <1>8 DEF D

-----------------------------------------------------------------------------
(* The order of the trs. *)
LEMMA FirstRowOf ==
  ASSUME NEW X, NEW times \in Seq(X), NEW i \in DOMAIN times
  PROVE  \E f \in FirstRows(times) : f <= i /\ times[f].trip = times[i].trip
<1> DEFINE S == {j \in DOMAIN times : j <= i /\ times[j].trip = times[i].trip}
<1>0. DOMAIN times = 1..Len(times) /\ Len(times) \in Nat
  OBVIOUS
<1>1. S \subseteq Nat /\ i \in S
  BY <1>0
<1>2. PICK f \in S : \A j \in S : f <= j
  BY <1>1, SmallestNumber, Zenon
<1>3. f \in DOMAIN times /\ f <= i /\ times[f].trip = times[i].trip
  BY <1>2
<1>4. ASSUME NEW j \in 1..(f - 1) PROVE times[j].trip # times[f].trip
  <2>1. j \in DOMAIN times /\ j <= i /\ ~(f <= j)
    BY <1>0, <1>3
  <2> QED BY <1>2, <1>3, <2>1
<1>5. f \in FirstRows(times)
  BY <1>3, <1>4 DEF FirstRows
<1> QED BY <1>3, <1>5

LEMMA FirstRowsAreApart ==
  ASSUME NEW X, NEW times \in Seq(X), NEW f \in FirstRows(times), NEW g \in FirstRows(times),
         times[f].trip = times[g].trip
  PROVE  f = g
<1>1. f \in Nat /\ g \in Nat /\ f >= 1 /\ g >= 1
  BY DEF FirstRows
<1>2. ~(f < g)
  <2> SUFFICES ASSUME f < g PROVE FALSE
    OBVIOUS
  <2>1. f \in 1..(g - 1)
    BY <1>1
  <2> QED BY <2>1 DEF FirstRows
<1>3. ~(g < f)
  <2> SUFFICES ASSUME g < f PROVE FALSE
    OBVIOUS
  <2>1. g \in 1..(f - 1)
    BY <1>1
  <2> QED BY <2>1 DEF FirstRows
<1> QED BY <1>1, <1>2, <1>3

TripIds(times) == {times[i].trip : i \in DOMAIN times}

LEMMA OrderIs ==
  ASSUME NEW X, NEW times \in Seq(X)
  PROVE  /\ Order(times) \in Seq(TripIds(times))
         /\ Len(Order(times)) = Cardinality(FirstRows(times))
         /\ \A k \in DOMAIN Order(times) : /\ InOrder(FirstRows(times))[k] \in FirstRows(times)
                                           /\ Order(times)[k] = times[InOrder(FirstRows(times))[k]].trip
         /\ ToSet(Order(times)) = TripIds(times)
         /\ \A j, k \in DOMAIN Order(times) : Order(times)[j] = Order(times)[k] => j = k
         /\ \A f \in FirstRows(times) :
              LET k == Cardinality(Below(FirstRows(times), f)) + 1
              IN k \in DOMAIN Order(times) /\ Order(times)[k] = times[f].trip
<1> DEFINE D == FirstRows(times)
           n == Cardinality(D)
<1>0. D \in SUBSET DOMAIN times /\ D \subseteq Nat /\ IsFiniteSet(D) /\ n \in Nat
  <2>1. D \in SUBSET DOMAIN times
    BY DEF FirstRows
  <2> QED BY <2>1, Positions
<1> HIDE DEF D
<1>1. /\ RowsAt(times, D) \in Seq(X) /\ Len(RowsAt(times, D)) = n
      /\ \A k \in 1..n : InOrder(D)[k] \in D /\ RowsAt(times, D)[k] = times[InOrder(D)[k]]
  BY <1>0, RowsAtIs
<1>2. DOMAIN RowsAt(times, D) = 1..n
  BY <1>0, <1>1
<1>3. Order(times) = [k \in 1..n |-> RowsAt(times, D)[k].trip]
  BY <1>2 DEF Order, D
<1>4. /\ InOrder(D) \in [1..n -> D]
      /\ \A i, j \in 1..n : i < j <=> InOrder(D)[i] < InOrder(D)[j]
  BY <1>0, InOrderIs
<1>5. \A k \in 1..n : Order(times)[k] = times[InOrder(D)[k]].trip /\ InOrder(D)[k] \in DOMAIN times
  BY <1>0, <1>1, <1>3
<1>6. Order(times) \in Seq(TripIds(times)) /\ Len(Order(times)) = n /\ DOMAIN Order(times) = 1..n
  <2>1. Order(times) \in [1..n -> TripIds(times)]
    BY <1>3, <1>5 DEF TripIds
  <2> QED BY <1>0, <2>1
<1>7. ASSUME NEW j \in 1..n, NEW k \in 1..n, Order(times)[j] = Order(times)[k] PROVE j = k
  <2>1. InOrder(D)[j] = InOrder(D)[k]
    BY <1>1, <1>5, <1>7, FirstRowsAreApart, SMTT(30) DEF D
  <2>2. InOrder(D)[j] \in Nat
    BY <1>0, <1>1
  <2>3. ~(j < k) /\ ~(k < j)
    BY <1>4, <2>1, <2>2
  <2> QED BY <1>0, <2>3
<1>8. ASSUME NEW f \in D
      PROVE  Cardinality(Below(D, f)) + 1 \in 1..n /\ Order(times)[Cardinality(Below(D, f)) + 1] = times[f].trip
  <2>1. Cardinality(Below(D, f)) + 1 \in 1..n /\ InOrder(D)[Cardinality(Below(D, f)) + 1] = f
    BY <1>0, InOrderAt
  <2> QED BY <1>5, <2>1
<1>9. ToSet(Order(times)) = TripIds(times)
  <2>1. ToSet(Order(times)) \subseteq TripIds(times)
    BY <1>5, <1>6 DEF ToSet, TripIds
  <2>2. ASSUME NEW i \in DOMAIN times PROVE times[i].trip \in ToSet(Order(times))
    <3>1. PICK f \in D : times[f].trip = times[i].trip
      BY FirstRowOf DEF D
    <3> QED BY <1>6, <1>8, <3>1 DEF ToSet
  <2> QED BY <2>1, <2>2 DEF TripIds
<1> QED BY <1>1, <1>5, <1>6, <1>7, <1>8, <1>9 DEF D

(* What both passes of the reader come to: the trs in their order, each with *)
(* the rows that a chunk holds of it.                                        *)
RowsOfTrip(trs, t) == RowsAt(trs, {i \in DOMAIN trs : trs[i].id = t})
Held(rows) == SubSeq(rows, 1, IF Len(rows) < ChunkSize THEN Len(rows) ELSE ChunkSize)
EmitOf(trs, times, t) ==
  emitJoinedTrip(RowsOfTrip(trs, t), Held(TimesOfTrip(times, t)), Len(TimesOfTrip(times, t)) > ChunkSize)
EmitAll(trs, times, ids) == [k \in DOMAIN ids |-> EmitOf(trs, times, ids[k])]
Pass(trs, times) == FlattenSeq(EmitAll(trs, times, Order(times)))

\* What a reader can be given.
Readable(trs, times) ==
  /\ trs \in Seq(ToSet(trs)) /\ times \in Seq(ToSet(times)) /\ Sequenced(times)
  /\ \A i, j \in DOMAIN times : times[i] = times[j] => i = j
  /\ \A i \in DOMAIN times : times[i].trip # NoId
  /\ \A i \in DOMAIN trs : {"id", "line", "fault"} \subseteq DOMAIN trs[i]
  /\ \A i, j \in DOMAIN trs : trs[i].line = trs[j].line => i = j

Limited(row) == [row EXCEPT !.fault = "bad"]
TripRow(trs) == ToSet(trs) \cup {Limited(row) : row \in ToSet(trs)}
EntrySet(trs, times) ==
  {Joined(r, s) : r \in TripRow(trs), s \in Seq(ToSet(times))} \cup {Orphan(s) : s \in Seq(ToSet(times))}

LEMMA SelfTyped == ASSUME NEW X, NEW s \in Seq(X) PROVE s \in Seq(ToSet(s))
  BY DEF ToSet

\* The rows that a trip has.
LEMMA TimesOfTripIs ==
  ASSUME NEW X, NEW times \in Seq(X), NEW t
  PROVE  LET D == {i \in DOMAIN times : times[i].trip = t} IN
         /\ D \in SUBSET DOMAIN times
         /\ TimesOfTrip(times, t) = RowsAt(times, D)
         /\ TimesOfTrip(times, t) \in Seq(X) /\ Len(TimesOfTrip(times, t)) = Count(times, t)
         /\ Count(times, t) \in Nat
         /\ ToSet(TimesOfTrip(times, t)) = {r \in ToSet(times) : r.trip = t}
         /\ \A i \in DOMAIN TimesOfTrip(times, t) : TimesOfTrip(times, t)[i].trip = t
<1> DEFINE D == {i \in DOMAIN times : times[i].trip = t}
<1>1. D \in SUBSET DOMAIN times /\ \A i \in D : times[i].trip = t
  OBVIOUS
<1>2. TimesOfTrip(times, t) = RowsAt(times, D) /\ Count(times, t) = Cardinality(D)
  BY DEF TimesOfTrip, Count
<1>3. {times[i] : i \in D} = {r \in ToSet(times) : r.trip = t}
  BY DEF ToSet
<1> HIDE DEF D
<1>4. /\ RowsAt(times, D) \in Seq(X) /\ Len(RowsAt(times, D)) = Cardinality(D)
      /\ ToSet(RowsAt(times, D)) = {times[i] : i \in D} /\ Cardinality(D) \in Nat
      /\ \A k \in 1..Cardinality(D) : InOrder(D)[k] \in D /\ RowsAt(times, D)[k] = times[InOrder(D)[k]]
  BY <1>1, RowsAtIs, Positions
<1>5. DOMAIN RowsAt(times, D) = 1..Cardinality(D)
  BY <1>4
<1>6. \A i \in DOMAIN RowsAt(times, D) : RowsAt(times, D)[i].trip = t
  BY <1>1, <1>4, <1>5
<1> QED BY <1>1, <1>2, <1>3, <1>4, <1>6 DEF D

LEMMA HeldIs ==
  ASSUME NEW X, NEW rows \in Seq(X)
  PROVE  /\ Held(rows) \in Seq(X)
         /\ Len(Held(rows)) = IF Len(rows) < ChunkSize THEN Len(rows) ELSE ChunkSize
         /\ \A i \in 1..Len(Held(rows)) : i \in 1..Len(rows) /\ Held(rows)[i] = rows[i]
<1> DEFINE n == IF Len(rows) < ChunkSize THEN Len(rows) ELSE ChunkSize
<1>1. n \in Int /\ n \in 0..Len(rows) /\ 1 \in Int /\ \A i \in 1..n : rows[i] \in X /\ i \in 1..Len(rows)
  BY ChunkAssumption
<1> HIDE DEF n
<1>2. /\ SubSeq(rows, 1, n) \in Seq(X) /\ Len(SubSeq(rows, 1, n)) = IF 1 <= n THEN n - 1 + 1 ELSE 0
      /\ \A i \in 1..(n - 1 + 1) : SubSeq(rows, 1, n)[i] = rows[1 + i - 1]
  BY <1>1, SubSeqProperties
<1>3. Len(SubSeq(rows, 1, n)) = n /\ \A i \in 1..n : SubSeq(rows, 1, n)[i] = rows[i]
  BY <1>1, <1>2
<1> QED BY <1>1, <1>2, <1>3 DEF Held, n

LEMMA HeldTimes ==
  ASSUME NEW times, times \in Seq(ToSet(times)), Sequenced(times), NEW t
  PROVE  /\ Held(TimesOfTrip(times, t)) \in Seq(ToSet(times))
         /\ Sequenced(Held(TimesOfTrip(times, t)))
         /\ \A i \in DOMAIN Held(TimesOfTrip(times, t)) : Held(TimesOfTrip(times, t))[i].trip = t
<1> DEFINE a == TimesOfTrip(times, t)
<1>1. a \in Seq(ToSet(times)) /\ (\A i \in DOMAIN a : a[i].trip = t) /\ ToSet(a) = {r \in ToSet(times) : r.trip = t}
  BY TimesOfTripIs
<1> HIDE DEF a
<1>2. Held(a) \in Seq(ToSet(times)) /\ \A i \in 1..Len(Held(a)) : i \in 1..Len(a) /\ Held(a)[i] = a[i]
  BY <1>1, HeldIs
<1>3. \A r \in ToSet(times) : r.seq \in Int
  BY DEF Sequenced, ToSet
<1>4. DOMAIN a = 1..Len(a) /\ DOMAIN Held(a) = 1..Len(Held(a))
  BY <1>1, <1>2
<1>5. \A i \in DOMAIN Held(a) : Held(a)[i] \in ToSet(times) /\ Held(a)[i].trip = t
  BY <1>1, <1>2, <1>4
<1> QED BY <1>2, <1>3, <1>5 DEF a, Sequenced

\* What is emitted for a trip: its times go with the first row of that id.
LEMMA EmitJoinedIs ==
  ASSUME NEW X, NEW Y, NEW rows \in Seq(X), NEW sts \in Seq(Y), Sequenced(sts), NEW capped \in BOOLEAN
  PROVE  LET first == IF capped THEN Limited(rows[1]) ELSE rows[1]
             out == emitJoinedTrip(rows, sts, capped) IN
         /\ InSequence(sts) \in Seq(Y)
         /\ rows = <<>> => out = <<Orphan(InSequence(sts))>>
         /\ rows # <<>> => /\ DOMAIN out = 1..Len(rows) /\ out[1] = Joined(first, InSequence(sts)) /\ 1 \in DOMAIN rows
                           /\ \A i \in 2..Len(rows) : out[i] = Joined(rows[i], <<>>)
                           /\ out = [i \in 1..Len(rows) |-> IF i = 1 THEN Joined(first, InSequence(sts))
                                                            ELSE Joined(rows[i], <<>>)]
<1>0. InSequence(sts) \in Seq(Y)
  BY InSequenceIs
<1>1. CASE rows = <<>>
  BY <1>0, <1>1 DEF emitJoinedTrip
<1>2. CASE rows # <<>>
  <2> DEFINE first == IF capped THEN Limited(rows[1]) ELSE rows[1]
             one == Joined(first, InSequence(sts))
             more == [i \in 1..(Len(rows) - 1) |-> Joined(rows[i + 1], <<>>)]
             S == {one} \cup {Joined(rows[i], <<>>) : i \in 1..Len(rows)}
             all == [i \in 1..Len(rows) |-> IF i = 1 THEN one ELSE Joined(rows[i], <<>>)]
  <2>1. emitJoinedTrip(rows, sts, capped) = <<one>> \o more
    BY <1>2 DEF emitJoinedTrip, Limited
  <2>2. Len(rows) \in Nat \ {0} /\ DOMAIN rows = 1..Len(rows) /\ 1 \in DOMAIN rows
    BY <1>2
  <2> HIDE DEF first, one
  <2>3. \A i \in 1..(Len(rows) - 1) : more[i] \in S
    BY <2>2
  <2>4. more \in Seq(S) /\ Len(more) = Len(rows) - 1 /\ <<one>> \in Seq(S) /\ Len(<<one>>) = 1 /\ <<one>>[1] = one
    BY <2>2, <2>3
  <2>5. /\ <<one>> \o more \in Seq(S) /\ Len(<<one>> \o more) = Len(rows)
        /\ \A i \in 1..Len(rows) : (<<one>> \o more)[i] = IF i <= 1 THEN <<one>>[i] ELSE more[i - 1]
    BY <2>2, <2>4, ConcatProperties
  <2>6. all \in Seq(S) /\ Len(all) = Len(rows)
    BY <2>2
  <2>7. \A i \in 1..Len(rows) : (<<one>> \o more)[i] = all[i]
    <3> TAKE i \in 1..Len(rows)
    <3>1. CASE i = 1
      BY <2>4, <2>5, <3>1
    <3>2. CASE i # 1
      <4>1. i - 1 \in 1..(Len(rows) - 1) /\ (i - 1) + 1 = i /\ ~(i <= 1)
        BY <2>2, <3>2
      <4>2. more[i - 1] = Joined(rows[(i - 1) + 1], <<>>)
        BY <4>1
      <4> QED BY <2>5, <3>2, <4>1, <4>2
    <3> QED BY <3>1, <3>2
  <2>9. \A i \in 2..Len(rows) : all[i] = Joined(rows[i], <<>>)
    BY <2>2
  <2>10. DOMAIN all = 1..Len(rows) /\ all[1] = one
    BY <2>2
  <2> DEFINE both == <<one>> \o more
  <2> HIDE DEF more, all, S
  <2>8. both = all
    <3>1. both \in Seq(S) /\ Len(both) = Len(all)
      BY <2>5, <2>6
    <3>2. \A i \in 1..Len(both) : both[i] = all[i]
      BY <2>5, <2>7
    <3> HIDE DEF both
    <3> QED BY <2>6, <3>1, <3>2, SeqEqual
  <2> QED BY <1>0, <1>2, <2>1, <2>2, <2>8, <2>9, <2>10 DEF first, one, all
<1> QED BY <1>1, <1>2

LEMMA RowsOfTripIs ==
  ASSUME NEW X, NEW trs \in Seq(X), NEW t
  PROVE  /\ RowsOfTrip(trs, t) \in Seq(X) /\ RowsOfTrip(trs, t) \in Seq(ToSet(trs))
         /\ ToSet(RowsOfTrip(trs, t)) = {r \in ToSet(trs) : r.id = t}
         /\ \A i \in DOMAIN RowsOfTrip(trs, t) : RowsOfTrip(trs, t)[i].id = t
<1> DEFINE D == {i \in DOMAIN trs : trs[i].id = t}
<1>1. D \in SUBSET DOMAIN trs /\ RowsOfTrip(trs, t) = RowsAt(trs, D)
  BY DEF RowsOfTrip
<1>2. {trs[i] : i \in D} = {r \in ToSet(trs) : r.id = t}
  BY DEF ToSet
<1> HIDE DEF D
<1>3. RowsAt(trs, D) \in Seq(X) /\ ToSet(RowsAt(trs, D)) = {trs[i] : i \in D}
  BY <1>1, RowsAtIs
<1>4. trs \in Seq(ToSet(trs))
  BY SelfTyped
<1>5. RowsAt(trs, D) \in Seq(ToSet(trs))
  BY <1>1, <1>4, RowsAtIs
<1>6. \A i \in DOMAIN RowsAt(trs, D) : RowsAt(trs, D)[i] \in ToSet(RowsAt(trs, D))
  BY DEF ToSet
<1> QED BY <1>1, <1>2, <1>3, <1>5, <1>6

LEMMA EmitType ==
  ASSUME NEW trs, NEW times, Readable(trs, times), NEW t
  PROVE  EmitOf(trs, times, t) \in Seq(EntrySet(trs, times))
<1> DEFINE rows == RowsOfTrip(trs, t)
           sts == Held(TimesOfTrip(times, t))
           capped == Len(TimesOfTrip(times, t)) > ChunkSize
           E == EntrySet(trs, times)
<1>1. rows \in Seq(ToSet(trs)) /\ sts \in Seq(ToSet(times)) /\ Sequenced(sts) /\ capped \in BOOLEAN
  BY RowsOfTripIs, HeldTimes DEF Readable
<1>2. EmitOf(trs, times, t) = emitJoinedTrip(rows, sts, capped)
  BY DEF EmitOf
<1> HIDE DEF rows, sts, capped
<1> DEFINE first == IF capped THEN Limited(rows[1]) ELSE rows[1]
           out == emitJoinedTrip(rows, sts, capped)
<1>3. /\ InSequence(sts) \in Seq(ToSet(times))
      /\ rows = <<>> => out = <<Orphan(InSequence(sts))>>
      /\ rows # <<>> => /\ 1 \in DOMAIN rows
                        /\ out = [i \in 1..Len(rows) |-> IF i = 1 THEN Joined(first, InSequence(sts))
                                                         ELSE Joined(rows[i], <<>>)]
  BY <1>1, EmitJoinedIs
<1> HIDE DEF out
<1>4. \A s \in Seq(ToSet(times)) : Orphan(s) \in E /\ \A r \in TripRow(trs) : Joined(r, s) \in E
  BY DEF EntrySet
<1> HIDE DEF E
<1>5. CASE rows = <<>>
  <2>1. out = <<Orphan(InSequence(sts))>>
    BY <1>3, <1>5
  <2>2. Orphan(InSequence(sts)) \in E
    BY <1>3, <1>4
  <2>3. out \in Seq(E)
    BY <2>1, <2>2
  <2> QED BY <1>2, <2>3 DEF out, E
<1>6. CASE rows # <<>>
  <2>1. \A i \in 1..Len(rows) : rows[i] \in ToSet(trs) /\ rows[i] \in TripRow(trs)
    BY <1>1 DEF TripRow
  <2>2. first \in TripRow(trs)
    BY <1>1, <1>3, <1>6, <2>1 DEF TripRow
  <2>3. <<>> \in Seq(ToSet(times))
    OBVIOUS
  <2> HIDE DEF first
  <2>4. \A i \in 1..Len(rows) : (IF i = 1 THEN Joined(first, InSequence(sts)) ELSE Joined(rows[i], <<>>)) \in E
    BY <1>3, <1>4, <2>1, <2>2, <2>3
  <2>5. out \in [1..Len(rows) -> E] /\ Len(rows) \in Nat
    BY <1>1, <1>3, <1>6, <2>4
  <2>6. out \in Seq(E)
    BY <2>5
  <2> QED BY <1>2, <2>6 DEF out, E
<1> QED BY <1>5, <1>6 DEF E

AppendsTo(X, s, t, e) ==
         /\ s \o t \in Seq(X) /\ Append(t, e) \in Seq(X)
         /\ s \o Append(t, e) = Append(s \o t, e)
LEMMA AppendToConcat ==
  ASSUME NEW X, NEW s \in Seq(X), NEW t \in Seq(X), NEW e \in X
  PROVE  AppendsTo(X, s, t, e)
<1>1. Append(t, e) = t \o <<e>> /\ <<e>> \in Seq(X) /\ s \o t \in Seq(X) /\ Append(t, e) \in Seq(X)
  BY AppendIsConcat
<1>2. Append(s \o t, e) = (s \o t) \o <<e>>
  BY <1>1, AppendIsConcat
<1>3. (s \o t) \o <<e>> = s \o (t \o <<e>>)
  BY <1>1, ConcatAssociative
<1> QED BY <1>1, <1>2, <1>3 DEF AppendsTo

(* chunkByCount *)
ChunkStart == [chunks |-> <<>>, cur |-> <<>>, n |-> 0]
ChunkAdd(times, c, t) ==
  LET cur == Append(c.cur, t)  n == c.n + Count(times, t) IN
  IF n >= ChunkSize THEN [chunks |-> Append(c.chunks, cur), cur |-> <<>>, n |-> 0]
  ELSE [chunks |-> c.chunks, cur |-> cur, n |-> n]
ChunksUpto(order, times) ==
  CHOOSE F : F = [i \in 0..Len(order) |-> IF i = 0 THEN ChunkStart ELSE ChunkAdd(times, F[i - 1], order[i])]

LEMMA ChunkByCountIs ==
  ASSUME NEW order, NEW times
  PROVE  LET end == ChunksUpto(order, times)[Len(order)]
         IN chunkByCount(order, times) = IF end.cur = <<>> THEN end.chunks ELSE Append(end.chunks, end.cur)
BY Zenon DEF chunkByCount, ChunksUpto, ChunkAdd, ChunkStart

LEMMA ChunksUptoIs ==
  ASSUME NEW order, NEW times, Len(order) \in Nat
  PROVE  \A i \in 0..Len(order) : ChunksUpto(order, times)[i] =
           IF i = 0 THEN ChunkStart ELSE ChunkAdd(times, ChunksUpto(order, times)[i - 1], order[i])
<1> DEFINE Next(F, i) == IF i = 0 THEN ChunkStart ELSE ChunkAdd(times, F[i - 1], order[i])
           Upto(n, F) == \A i \in 0..Len(order) : i <= n => F[i] = Next(F, i)
           Step(F) == [i \in 0..Len(order) |-> Next(F, i)]
           Done == {n \in Nat : \E F : Upto(n, F)}
<1>1. 0 \in Done
  <2> DEFINE G == [i \in 0..Len(order) |-> ChunkStart]
  <2>1. \A i \in 0..Len(order) : i <= 0 => G[i] = Next(G, i)
    OBVIOUS
  <2> HIDE DEF G
  <2>2. \E F : Upto(0, F)
    BY <2>1
  <2> QED BY <2>2
<1>2. ASSUME NEW n \in Nat, n \in Done PROVE n + 1 \in Done
  <2>1. PICK F : Upto(n, F)
    BY <1>2
  <2> DEFINE G == Step(F)
  <2>2. ASSUME NEW i \in 0..Len(order), i <= n + 1 PROVE G[i] = Next(G, i)
    <3>1. CASE i = 0
      BY <3>1
    <3>2. CASE i # 0
      <4>1. i - 1 \in 0..Len(order) /\ i - 1 <= n
        BY <2>2, <3>2
      <4>2. G[i - 1] = F[i - 1]
        BY <4>1, <2>1
      <4>3. G[i] = ChunkAdd(times, F[i - 1], order[i])
        BY <3>2
      <4> HIDE DEF G
      <4> QED BY <3>2, <4>2, <4>3
    <3> QED BY <3>1, <3>2
  <2> HIDE DEF G
  <2>3. \E H : Upto(n + 1, H)
    BY <2>2
  <2> QED BY <2>3
<1>3. Nat \subseteq Done
  <2> HIDE DEF Done
  <2> QED BY <1>1, <1>2, AllNumbers
<1>4. PICK F : Upto(Len(order), F)
  BY <1>3
<1> DEFINE G == Step(F)
<1>5. G = Step(G)
  <2>1. \A i \in 0..Len(order) : F[i] = G[i]
    BY <1>4
  <2>2. \A i \in 0..Len(order) : i # 0 => i - 1 \in 0..Len(order)
    OBVIOUS
  <2> HIDE DEF G
  <2>3. \A i \in 0..Len(order) : Next(F, i) = Next(G, i)
    BY <2>1, <2>2
  <2> HIDE DEF Next
  <2> QED BY <2>3 DEF G
<1> HIDE DEF G
<1>6. ChunksUpto(order, times) = Step(ChunksUpto(order, times))
  BY <1>5 DEF ChunksUpto
<1> DEFINE H == ChunksUpto(order, times)
<1>7. H = Step(H)
  BY <1>6
<1> HIDE DEF H
<1>8. \A i \in 0..Len(order) : H[i] = Next(H, i)
  <2> HIDE DEF Next
  <2> QED BY <1>7
<1> QED BY <1>8 DEF H

\* The chunks hold every trip once, in order.
LEMMA ChunksAreTheOrder ==
  ASSUME NEW X, NEW order \in Seq(X), NEW times
  PROVE  /\ chunkByCount(order, times) \in Seq(Seq(X))
         /\ FlattenSeq(chunkByCount(order, times)) = order
<1> DEFINE F == ChunksUpto(order, times)
           Part(n) == SubSeq(order, 1, n)
           Good == {i \in Nat : i <= Len(order) =>
                      /\ F[i].chunks \in Seq(Seq(X)) /\ F[i].cur \in Seq(X)
                      /\ FlattenSeq(F[i].chunks) \o F[i].cur = Part(i)}
<1>0. /\ Len(order) \in Nat /\ Part(0) = <<>> /\ Part(Len(order)) = order
      /\ \A n \in Nat : n + 1 <= Len(order) =>
           order[n + 1] \in X /\ Part(n + 1) = Append(Part(n), order[n + 1])
  BY Beginnings
<1>f. \A i \in 0..Len(order) : F[i] = IF i = 0 THEN ChunkStart ELSE ChunkAdd(times, F[i - 1], order[i])
  BY <1>0, ChunksUptoIs
<1> HIDE DEF F, Part
<1>1. 0 \in Good
  <2>1. F[0] = ChunkStart
    BY <1>0, <1>f
  <2>2. F[0].chunks = <<>> /\ F[0].cur = <<>>
    BY <2>1 DEF ChunkStart
  <2>3. FlattenSeq(F[0].chunks) \o F[0].cur = <<>>
    BY <2>2, FlattenNothing
  <2>4. <<>> \in Seq(X) /\ <<>> \in Seq(Seq(X))
    OBVIOUS
  <2> QED BY <1>0, <2>2, <2>3, <2>4
<1>2. ASSUME NEW i \in Nat, i \in Good PROVE i + 1 \in Good
  <2> SUFFICES ASSUME i + 1 <= Len(order)
               PROVE  /\ F[i + 1].chunks \in Seq(Seq(X)) /\ F[i + 1].cur \in Seq(X)
                      /\ FlattenSeq(F[i + 1].chunks) \o F[i + 1].cur = Part(i + 1)
    <3>1. i + 1 \in Nat
      OBVIOUS
    <3> QED BY <3>1, Zenon
  <2> DEFINE t == order[i + 1]
             c == F[i]
             cur == Append(c.cur, t)
             flat == FlattenSeq(c.chunks)
  <2>0. i <= Len(order)
    BY <1>0
  <2>1. /\ c.chunks \in Seq(Seq(X)) /\ c.cur \in Seq(X) /\ flat \o c.cur = Part(i)
        /\ t \in X /\ Part(i + 1) = Append(Part(i), t)
    BY <1>0, <1>2, <2>0
  <2>2. F[i + 1] = ChunkAdd(times, c, t)
    <3>1. i + 1 \in 0..Len(order) /\ i + 1 # 0 /\ (i + 1) - 1 = i
      BY <1>0
    <3> QED BY <1>f, <3>1
  <2> HIDE DEF t, c
  <2>3. flat \in Seq(X)
    BY <2>1, FlattenMembers
  <2> HIDE DEF flat
  <2> HIDE DEF Good
  <2>4. cur \in Seq(X) /\ flat \o cur = Append(flat \o c.cur, t)
    <3>1. PICK x, y, z : x = flat /\ y = c.cur /\ z = t
      OBVIOUS
    <3>t. x \in Seq(X) /\ y \in Seq(X) /\ z \in X
      BY <2>1, <2>3, <3>1
    <3>2. Append(y, z) \in Seq(X) /\ x \o Append(y, z) = Append(x \o y, z)
      <4>1. AppendsTo(X, x, y, z)
        BY <3>t, AppendToConcat, Zenon
      <4> QED BY <4>1 DEF AppendsTo
    <3> QED BY <3>1, <3>2 DEF cur
  <2> HIDE DEF cur
  <2>5. CASE c.n + Count(times, t) >= ChunkSize
    <3>1. F[i + 1].chunks = Append(c.chunks, cur) /\ F[i + 1].cur = <<>>
      BY <2>2, <2>5 DEF ChunkAdd, cur
    <3>2. FlattenSeq(Append(c.chunks, cur)) = flat \o cur
      BY <2>1, <2>4, FlattenNext DEF flat
    <3>3. Append(c.chunks, cur) \in Seq(Seq(X)) /\ <<>> \in Seq(X) /\ flat \o cur \in Seq(X)
      <4>1. Append(c.chunks, cur) \in Seq(Seq(X))
        BY <2>1, <2>4, AppendProperties, Zenon
      <4>2. flat \o cur \in Seq(X)
        BY <2>3, <2>4, ConcatProperties, Zenon
      <4>3. <<>> \in Seq(X)
        OBVIOUS
      <4> QED BY <4>1, <4>2, <4>3
    <3>4. (flat \o cur) \o <<>> = flat \o cur
      BY <3>3, ConcatEmptySeq
    <3> QED BY <2>1, <2>4, <3>1, <3>2, <3>3, <3>4
  <2>6. CASE ~(c.n + Count(times, t) >= ChunkSize)
    <3>1. F[i + 1].chunks = c.chunks /\ F[i + 1].cur = cur
      BY <2>2, <2>6 DEF ChunkAdd, cur
    <3> QED BY <2>1, <2>4, <3>1 DEF flat
  <2> QED BY <2>5, <2>6
<1>3. Nat \subseteq Good
  <2> HIDE DEF Good
  <2> QED BY <1>1, <1>2, AllNumbers
<1> DEFINE end == F[Len(order)]
<1>e. Len(order) \in Good
  BY <1>0, <1>3
<1>4. end.chunks \in Seq(Seq(X)) /\ end.cur \in Seq(X) /\ FlattenSeq(end.chunks) \o end.cur = order
  <2>1. Len(order) <= Len(order)
    BY <1>0
  <2> QED BY <1>0, <1>e, <2>1, Zenon
<1>5. chunkByCount(order, times) = IF end.cur = <<>> THEN end.chunks ELSE Append(end.chunks, end.cur)
  BY ChunkByCountIs DEF F
<1> HIDE DEF end
<1>6. FlattenSeq(end.chunks) \in Seq(X)
  BY <1>4, FlattenMembers
<1>7. CASE end.cur = <<>>
  BY <1>4, <1>5, <1>6, <1>7, ConcatEmptySeq
<1>8. CASE end.cur # <<>>
  <2>1. FlattenSeq(Append(end.chunks, end.cur)) = FlattenSeq(end.chunks) \o end.cur
    BY <1>4, FlattenNext
  <2>2. Append(end.chunks, end.cur) \in Seq(Seq(X))
    BY <1>4
  <2> QED BY <1>4, <1>5, <1>8, <2>1, <2>2
<1> QED BY <1>7, <1>8

\* A list of lists that grows by a list.
LEMMA FlattenConcat ==
  ASSUME NEW X, NEW a \in Seq(Seq(X)), NEW b \in Seq(Seq(X))
  PROVE  FlattenSeq(a \o b) = FlattenSeq(a) \o FlattenSeq(b)
<1> DEFINE Part(n) == SubSeq(b, 1, n)
           Good == {n \in Nat : n <= Len(b) => FlattenSeq(a \o Part(n)) = FlattenSeq(a) \o FlattenSeq(Part(n))}
<1>0. /\ Len(b) \in Nat /\ Part(0) = <<>> /\ Part(Len(b)) = b
      /\ \A n \in 0..Len(b) : Part(n) \in Seq(Seq(X))
      /\ \A n \in Nat : n + 1 <= Len(b) => b[n + 1] \in Seq(X) /\ Part(n + 1) = Append(Part(n), b[n + 1])
  BY Beginnings
<1> HIDE DEF Part
<1>a. FlattenSeq(a) \in Seq(X)
  BY FlattenMembers
<1>1. 0 \in Good
  <2>1. a \o <<>> = a /\ FlattenSeq(a) \o <<>> = FlattenSeq(a)
    BY <1>a, ConcatEmptySeq
  <2> QED BY <1>0, <2>1, FlattenNothing
<1>2. ASSUME NEW n \in Nat, n \in Good PROVE n + 1 \in Good
  <2> SUFFICES ASSUME n + 1 <= Len(b)
               PROVE  FlattenSeq(a \o Part(n + 1)) = FlattenSeq(a) \o FlattenSeq(Part(n + 1))
    OBVIOUS
  <2> DEFINE p == Part(n)
             s == b[n + 1]
  <2>1. /\ p \in Seq(Seq(X)) /\ s \in Seq(X) /\ Part(n + 1) = Append(p, s)
        /\ FlattenSeq(a \o p) = FlattenSeq(a) \o FlattenSeq(p)
    <3>1. n \in 0..Len(b) /\ n <= Len(b)
      BY <1>0
    <3> QED BY <1>0, <1>2, <3>1
  <2> HIDE DEF p, s
  <2> DEFINE fa == FlattenSeq(a)
             fp == FlattenSeq(p)
             Y == Seq(X)
  <2> HIDE DEF Good, Y
  <2>2. a \o Append(p, s) = Append(a \o p, s) /\ a \o p \in Seq(Y)
    <3>1. a \in Seq(Y) /\ p \in Seq(Y) /\ s \in Y
      BY <2>1 DEF Y
    <3>2. AppendsTo(Y, a, p, s)
      BY <3>1, AppendToConcat, Zenon
    <3> QED BY <3>2 DEF AppendsTo
  <2>3. FlattenSeq(Append(a \o p, s)) = FlattenSeq(a \o p) \o s
    BY <2>1, <2>2, FlattenNext DEF Y
  <2>4. FlattenSeq(Append(p, s)) = FlattenSeq(p) \o s /\ FlattenSeq(p) \in Seq(X)
    BY <2>1, FlattenNext, FlattenMembers
  <2>5. (fa \o fp) \o s = fa \o (fp \o s)
    <3>1. fa \in Seq(X) /\ fp \in Seq(X) /\ s \in Seq(X)
      BY <1>a, <2>1, <2>4
    <3> HIDE DEF fa, fp
    <3>2. PICK x, y, z : x = fa /\ y = fp /\ z = s
      OBVIOUS
    <3>3. x \in Seq(X) /\ y \in Seq(X) /\ z \in Seq(X)
      BY <3>1, <3>2
    <3>4. (x \o y) \o z = x \o (y \o z)
      BY <3>3, SMTT(60)
    <3> QED BY <3>2, <3>4
  <2> QED BY <2>1, <2>2, <2>3, <2>4, <2>5
<1>3. Nat \subseteq Good
  <2> HIDE DEF Good
  <2> QED BY <1>1, <1>2, AllNumbers
<1>4. Len(b) \in Good
  BY <1>0, <1>3
<1> QED BY <1>0, <1>4

EmitsEach(trs, times, ids) ==
         /\ EmitAll(trs, times, ids) \in Seq(Seq(EntrySet(trs, times)))
         /\ Len(EmitAll(trs, times, ids)) = Len(ids)
         /\ \A k \in 1..Len(ids) : EmitAll(trs, times, ids)[k] = EmitOf(trs, times, ids[k])
LEMMA EmitAllType ==
  ASSUME NEW trs, NEW times, Readable(trs, times), NEW X, NEW ids \in Seq(X)
  PROVE  EmitsEach(trs, times, ids)
<1>1. \A k \in 1..Len(ids) : EmitOf(trs, times, ids[k]) \in Seq(EntrySet(trs, times))
  BY EmitType
<1>2. DOMAIN ids = 1..Len(ids) /\ Len(ids) \in Nat
  OBVIOUS
<1> QED BY <1>1, <1>2 DEF EmitAll, EmitsEach

LEMMA ConcatIs ==
  ASSUME NEW E, NEW a \in Seq(E), NEW b \in Seq(E)
  PROVE  /\ a \o b \in Seq(E) /\ Len(a \o b) = Len(a) + Len(b) /\ Len(a) \in Nat /\ Len(b) \in Nat
         /\ \A i \in 1..(Len(a) + Len(b)) : (a \o b)[i] = IF i <= Len(a) THEN a[i] ELSE b[i - Len(a)]
  OBVIOUS

EmitsBoth(trs, times, a, b) ==
  EmitAll(trs, times, a \o b) = EmitAll(trs, times, a) \o EmitAll(trs, times, b)
LEMMA EmitAllConcat ==
  ASSUME NEW trs, NEW times, Readable(trs, times), NEW X, NEW a \in Seq(X), NEW b \in Seq(X)
  PROVE  EmitsBoth(trs, times, a, b)
<1>1. PICK c : c = a \o b
  OBVIOUS
<1>2. PICK E, ea, eb, ec : /\ E = Seq(EntrySet(trs, times)) /\ ea = EmitAll(trs, times, a)
                           /\ eb = EmitAll(trs, times, b) /\ ec = EmitAll(trs, times, c)
  OBVIOUS
<1>3. /\ c \in Seq(X) /\ Len(c) = Len(a) + Len(b) /\ Len(a) \in Nat /\ Len(b) \in Nat
      /\ \A i \in 1..(Len(a) + Len(b)) : c[i] = IF i <= Len(a) THEN a[i] ELSE b[i - Len(a)]
  BY <1>1
<1>4. /\ ea \in Seq(E) /\ Len(ea) = Len(a) /\ \A k \in 1..Len(a) : ea[k] = EmitOf(trs, times, a[k])
  <2>1. EmitsEach(trs, times, a)
    BY <1>3, EmitAllType, Zenon
  <2> QED BY <1>2, <2>1 DEF EmitsEach
<1>5. /\ eb \in Seq(E) /\ Len(eb) = Len(b) /\ \A k \in 1..Len(b) : eb[k] = EmitOf(trs, times, b[k])
  <2>1. EmitsEach(trs, times, b)
    BY <1>3, EmitAllType, Zenon
  <2> QED BY <1>2, <2>1 DEF EmitsEach
<1>6. /\ ec \in Seq(E) /\ Len(ec) = Len(c) /\ \A k \in 1..Len(c) : ec[k] = EmitOf(trs, times, c[k])
  <2>1. EmitsEach(trs, times, c)
    BY <1>3, EmitAllType, Zenon
  <2> QED BY <1>2, <2>1 DEF EmitsEach
<1>7. /\ ea \o eb \in Seq(E) /\ Len(ea \o eb) = Len(a) + Len(b)
      /\ \A i \in 1..(Len(a) + Len(b)) : (ea \o eb)[i] = IF i <= Len(a) THEN ea[i] ELSE eb[i - Len(a)]
  <2>1. ea \in Seq(E) /\ eb \in Seq(E)
    BY <1>4, <1>5
  <2>2. /\ ea \o eb \in Seq(E) /\ Len(ea \o eb) = Len(ea) + Len(eb)
        /\ \A i \in 1..(Len(ea) + Len(eb)) : (ea \o eb)[i] = IF i <= Len(ea) THEN ea[i] ELSE eb[i - Len(ea)]
    BY <2>1, ConcatIs
  <2>3. Len(ea) = Len(a) /\ Len(eb) = Len(b)
    BY <1>4, <1>5
  <2> QED BY <2>2, <2>3
<1>8. PICK d : d = ea \o eb
  OBVIOUS
<1>9. \A i \in 1..(Len(a) + Len(b)) : ec[i] = d[i]
  <2> TAKE i \in 1..(Len(a) + Len(b))
  <2>1. CASE i <= Len(a)
    <3>1. i \in 1..Len(a)
      BY <1>3, <2>1
    <3>2. ec[i] = EmitOf(trs, times, a[i])
      BY <1>3, <1>6, <2>1
    <3>3. d[i] = ea[i]
      BY <1>7, <1>8, <2>1
    <3> QED BY <1>4, <3>1, <3>2, <3>3
  <2>2. CASE ~(i <= Len(a))
    <3>1. i - Len(a) \in 1..Len(b)
      BY <1>3, <2>2
    <3>2. ec[i] = EmitOf(trs, times, b[i - Len(a)])
      BY <1>3, <1>6, <2>2
    <3>3. d[i] = eb[i - Len(a)]
      BY <1>7, <1>8, <2>2
    <3> QED BY <1>5, <3>1, <3>2, <3>3
  <2> QED BY <2>1, <2>2
<1>10. d \in Seq(E) /\ Len(d) = Len(ec)
  BY <1>3, <1>6, <1>7, <1>8
<1>11. ec = d
  BY <1>3, <1>6, <1>9, <1>10, SeqEqual
<1> QED BY <1>1, <1>2, <1>8, <1>11 DEF EmitsBoth

LEMMA ReadTripsIs ==
  ASSUME NEW trs, NEW ids, NEW t \in ids
  PROVE  readTripsForIDs(trs, ids, t) = RowsOfTrip(trs, t)
<1>1. {i \in DOMAIN trs : trs[i].id \in ids /\ trs[i].id = t} = {i \in DOMAIN trs : trs[i].id = t}
  OBVIOUS
<1> QED BY <1>1 DEF readTripsForIDs, RowsOfTrip

(* What the chunks emit, each on its own. *)
Emitted(trs, times, chunks) == [c \in DOMAIN chunks |-> FlattenSeq(EmitAll(trs, times, chunks[c]))]

LEMMA EmittedType ==
  ASSUME NEW trs, NEW times, Readable(trs, times), NEW X, NEW chunks \in Seq(Seq(X))
  PROVE  Emitted(trs, times, chunks) \in Seq(Seq(EntrySet(trs, times)))
<1> DEFINE E == EntrySet(trs, times)
<1>1. ASSUME NEW c \in DOMAIN chunks
      PROVE  FlattenSeq(EmitAll(trs, times, chunks[c])) \in Seq(E)
  <2>1. chunks[c] \in Seq(X)
    OBVIOUS
  <2>2. EmitsEach(trs, times, chunks[c])
    BY <2>1, EmitAllType, Zenon
  <2>3. EmitAll(trs, times, chunks[c]) \in Seq(Seq(E))
    BY <2>2 DEF EmitsEach
  <2> HIDE DEF E
  <2> QED BY <2>3, FlattenMembers
<1> HIDE DEF E
<1>2. DOMAIN chunks = 1..Len(chunks) /\ Len(chunks) \in Nat
  OBVIOUS
<1> QED BY <1>1, <1>2 DEF Emitted, E

LEMMA EmittedNext ==
  ASSUME NEW trs, NEW times, Readable(trs, times), NEW X, NEW p \in Seq(Seq(X)), NEW s \in Seq(X)
  PROVE  Emitted(trs, times, Append(p, s)) =
           Append(Emitted(trs, times, p), FlattenSeq(EmitAll(trs, times, s)))
<1>1. PICK q : q = Append(p, s)
  OBVIOUS
<1>2. /\ q \in Seq(Seq(X)) /\ Len(q) = Len(p) + 1 /\ Len(p) \in Nat
      /\ \A i \in 1..(Len(p) + 1) : q[i] = IF i <= Len(p) THEN p[i] ELSE s
  BY <1>1
<1>3. PICK E, ep, es, eq : /\ E = Seq(EntrySet(trs, times)) /\ ep = Emitted(trs, times, p)
                           /\ es = FlattenSeq(EmitAll(trs, times, s)) /\ eq = Emitted(trs, times, q)
  OBVIOUS
<1>4. ep \in Seq(E) /\ eq \in Seq(E)
  BY <1>2, <1>3, EmittedType
<1>5. es \in E
  <2>1. EmitsEach(trs, times, s)
    BY EmitAllType, Zenon
  <2>2. EmitAll(trs, times, s) \in Seq(Seq(EntrySet(trs, times)))
    BY <2>1 DEF EmitsEach
  <2> QED BY <1>3, <2>2, FlattenMembers
<1>6. DOMAIN p = 1..Len(p) /\ DOMAIN q = 1..Len(q)
  BY <1>2
<1>7. /\ Len(ep) = Len(p) /\ \A i \in 1..Len(p) : ep[i] = FlattenSeq(EmitAll(trs, times, p[i]))
      /\ Len(eq) = Len(q) /\ \A i \in 1..Len(q) : eq[i] = FlattenSeq(EmitAll(trs, times, q[i]))
  BY <1>2, <1>3, <1>4, <1>6 DEF Emitted
<1>8. PICK d : d = Append(ep, es)
  OBVIOUS
<1>9. /\ d \in Seq(E) /\ Len(d) = Len(ep) + 1 /\ \A i \in 1..(Len(ep) + 1) : d[i] = IF i <= Len(ep) THEN ep[i] ELSE es
  BY <1>4, <1>5, <1>8
<1>10. \A i \in 1..Len(q) : eq[i] = d[i]
  <2> TAKE i \in 1..Len(q)
  <2>1. CASE i <= Len(p)
    <3>1. i \in 1..Len(p) /\ q[i] = p[i] /\ d[i] = ep[i]
      BY <1>2, <1>7, <1>9, <2>1
    <3> QED BY <1>7, <3>1
  <2>2. CASE ~(i <= Len(p))
    <3>1. q[i] = s /\ d[i] = es
      BY <1>2, <1>7, <1>9, <2>2
    <3> QED BY <1>3, <1>7, <3>1
  <2> QED BY <2>1, <2>2
<1>11. Len(d) = Len(eq)
  BY <1>2, <1>7, <1>9
<1>12. eq = d
  BY <1>4, <1>7, <1>9, <1>10, <1>11, SeqEqual
<1> QED BY <1>1, <1>3, <1>8, <1>12

LEMMA EmittedFlattened ==
  ASSUME NEW trs, NEW times, Readable(trs, times), NEW X, NEW chunks \in Seq(Seq(X))
  PROVE  FlattenSeq(Emitted(trs, times, chunks)) = FlattenSeq(EmitAll(trs, times, FlattenSeq(chunks)))
<1> DEFINE Part(n) == SubSeq(chunks, 1, n)
           All(ids) == FlattenSeq(EmitAll(trs, times, ids))
           E == EntrySet(trs, times)
           Good == {n \in Nat : n <= Len(chunks) =>
                      FlattenSeq(Emitted(trs, times, Part(n))) = All(FlattenSeq(Part(n)))}
<1>0. /\ Len(chunks) \in Nat /\ Part(0) = <<>> /\ Part(Len(chunks)) = chunks
      /\ \A n \in 0..Len(chunks) : Part(n) \in Seq(Seq(X))
      /\ \A n \in Nat : n + 1 <= Len(chunks) => chunks[n + 1] \in Seq(X) /\ Part(n + 1) = Append(Part(n), chunks[n + 1])
  BY Beginnings
<1> HIDE DEF Part
<1>1. 0 \in Good
  <2>1. Emitted(trs, times, <<>>) = <<>> /\ EmitAll(trs, times, <<>>) = <<>>
    BY DEF Emitted, EmitAll
  <2> QED BY <1>0, <2>1, FlattenNothing
<1>2. ASSUME NEW n \in Nat, n \in Good PROVE n + 1 \in Good
  <2> SUFFICES ASSUME n + 1 <= Len(chunks)
               PROVE  FlattenSeq(Emitted(trs, times, Part(n + 1))) = All(FlattenSeq(Part(n + 1)))
    OBVIOUS
  <2>1. PICK p, s : p = Part(n) /\ s = chunks[n + 1]
    OBVIOUS
  <2>2. /\ p \in Seq(Seq(X)) /\ s \in Seq(X) /\ Part(n + 1) = Append(p, s)
        /\ FlattenSeq(Emitted(trs, times, p)) = All(FlattenSeq(p))
    <3>1. n \in 0..Len(chunks) /\ n <= Len(chunks)
      BY <1>0
    <3> QED BY <1>0, <1>2, <2>1, <3>1
  <2> HIDE DEF Good, All
  <2>3. Emitted(trs, times, Append(p, s)) = Append(Emitted(trs, times, p), All(s))
    BY <2>2, EmittedNext DEF All
  <2>4. Emitted(trs, times, p) \in Seq(Seq(E)) /\ All(s) \in Seq(E)
    <3>1. Emitted(trs, times, p) \in Seq(Seq(E))
      BY <2>2, EmittedType
    <3>2. EmitsEach(trs, times, s)
      BY <2>2, EmitAllType, Zenon
    <3>3. EmitAll(trs, times, s) \in Seq(Seq(E))
      BY <3>2 DEF EmitsEach
    <3> HIDE DEF E
    <3>4. FlattenSeq(EmitAll(trs, times, s)) \in Seq(E)
      BY <3>3, FlattenMembers
    <3> QED BY <3>1, <3>4 DEF All
  <2> HIDE DEF E
  <2>5. FlattenSeq(Append(Emitted(trs, times, p), All(s))) = FlattenSeq(Emitted(trs, times, p)) \o All(s)
    BY <2>4, FlattenNext
  <2>6. FlattenSeq(Append(p, s)) = FlattenSeq(p) \o s /\ FlattenSeq(p) \in Seq(X)
    BY <2>2, FlattenNext, FlattenMembers
  <2>7. All(FlattenSeq(p) \o s) = All(FlattenSeq(p)) \o All(s)
    <3>1. PICK f : f = FlattenSeq(p)
      OBVIOUS
    <3>2. f \in Seq(X)
      BY <2>6, <3>1
    <3>3. EmitAll(trs, times, f \o s) = EmitAll(trs, times, f) \o EmitAll(trs, times, s)
      <4>1. EmitsBoth(trs, times, f, s)
        BY <2>2, <3>2, EmitAllConcat, Zenon
      <4> QED BY <4>1 DEF EmitsBoth
    <3>4. EmitsEach(trs, times, f) /\ EmitsEach(trs, times, s)
      BY <2>2, <3>2, EmitAllType, Zenon
    <3>5. EmitAll(trs, times, f) \in Seq(Seq(E)) /\ EmitAll(trs, times, s) \in Seq(Seq(E))
      BY <3>4 DEF EmitsEach, E
    <3>6. FlattenSeq(EmitAll(trs, times, f) \o EmitAll(trs, times, s)) =
            FlattenSeq(EmitAll(trs, times, f)) \o FlattenSeq(EmitAll(trs, times, s))
      BY <3>5, FlattenConcat
    <3> QED BY <3>1, <3>3, <3>6 DEF All
  <2> QED BY <2>2, <2>3, <2>5, <2>6, <2>7
<1>3. Nat \subseteq Good
  <2> HIDE DEF Good
  <2> QED BY <1>1, <1>2, AllNumbers
<1>4. Len(chunks) \in Good
  BY <1>0, <1>3
<1> QED BY <1>0, <1>4

\* One pass per chunk of trs comes to one pass over all of them.
LEMMA ChunkPass ==
  ASSUME NEW trs, NEW times, Readable(trs, times)
  PROVE  chunkTripStopTimes(trs, times) = Pass(trs, times)
<1> DEFINE X == TripIds(times)
           chunks == chunkByCount(Order(times), times)
           Emit(chunk, t) ==
             emitJoinedTrip(readTripsForIDs(trs, ToSet(chunk), t),
                            SubSeq(TimesOfTrip(times, t), 1,
                                   IF Len(TimesOfTrip(times, t)) < ChunkSize THEN Len(TimesOfTrip(times, t)) ELSE ChunkSize),
                            Len(TimesOfTrip(times, t)) > ChunkSize)
           EmitChunk(chunk) == FlattenSeq([k \in DOMAIN chunk |-> Emit(chunk, chunk[k])])
<1>1. chunkTripStopTimes(trs, times) = FlattenSeq([c \in DOMAIN chunks |-> EmitChunk(chunks[c])])
  BY Zenon DEF chunkTripStopTimes
<1>2. Order(times) \in Seq(X)
  BY OrderIs DEF Readable
<1>3. chunks \in Seq(Seq(X)) /\ FlattenSeq(chunks) = Order(times)
  BY <1>2, ChunksAreTheOrder
<1>4. ASSUME NEW chunk, NEW k \in DOMAIN chunk
      PROVE  Emit(chunk, chunk[k]) = EmitOf(trs, times, chunk[k])
  <2>1. chunk[k] \in ToSet(chunk)
    BY DEF ToSet
  <2>2. readTripsForIDs(trs, ToSet(chunk), chunk[k]) = RowsOfTrip(trs, chunk[k])
    BY <2>1, ReadTripsIs
  <2> QED BY <2>2, Zenon DEF EmitOf, Held
<1> HIDE DEF Emit
<1>5. ASSUME NEW chunk PROVE EmitChunk(chunk) = FlattenSeq(EmitAll(trs, times, chunk))
  <2>1. [k \in DOMAIN chunk |-> Emit(chunk, chunk[k])] = [k \in DOMAIN chunk |-> EmitOf(trs, times, chunk[k])]
    BY <1>4
  <2> QED BY <2>1, Zenon DEF EmitAll
<1> HIDE DEF EmitChunk, chunks
<1>6. [c \in DOMAIN chunks |-> EmitChunk(chunks[c])] = Emitted(trs, times, chunks)
  BY <1>5 DEF Emitted
<1>7. FlattenSeq(Emitted(trs, times, chunks)) = FlattenSeq(EmitAll(trs, times, Order(times)))
  BY <1>3, EmittedFlattened
<1> QED BY <1>1, <1>6, <1>7 DEF Pass

(* streamTripStopTimes *)
StreamStart == [last |-> NoId, sts |-> <<>>, capped |-> FALSE, n |-> 1, out |-> <<>>]
StreamEmit(trs, order, s) ==
  IF s.last = NoId THEN s
  ELSE [last |-> s.last, sts |-> <<>>, capped |-> FALSE, n |-> s.n + 1,
        out |-> s.out \o emitJoinedTrip(readTripsForIDs(trs, chunkByTrips(order, s.n), s.last), s.sts, s.capped)]
StreamRead(trs, order, s, row) ==
  LET e == IF s.last = row.trip THEN s ELSE StreamEmit(trs, order, s)  full == Len(e.sts) >= ChunkSize IN
  [last |-> row.trip, sts |-> IF full THEN e.sts ELSE Append(e.sts, row),
   capped |-> full \/ e.capped, n |-> e.n, out |-> e.out]
StreamUpto(trs, times) ==
  CHOOSE F : F = [i \in 0..Len(times) |->
                    IF i = 0 THEN StreamStart ELSE StreamRead(trs, Order(times), F[i - 1], times[i])]

LEMMA StreamIs ==
  ASSUME NEW trs, NEW times
  PROVE  streamTripStopTimes(trs, times) =
           StreamEmit(trs, Order(times), StreamUpto(trs, times)[Len(times)]).out
BY Zenon DEF streamTripStopTimes, StreamUpto, StreamRead, StreamEmit, StreamStart

LEMMA StreamUptoIs ==
  ASSUME NEW trs, NEW times, Len(times) \in Nat
  PROVE  \A i \in 0..Len(times) : StreamUpto(trs, times)[i] =
           IF i = 0 THEN StreamStart ELSE StreamRead(trs, Order(times), StreamUpto(trs, times)[i - 1], times[i])
<1> DEFINE Next(F, i) == IF i = 0 THEN StreamStart ELSE StreamRead(trs, Order(times), F[i - 1], times[i])
           Upto(n, F) == \A i \in 0..Len(times) : i <= n => F[i] = Next(F, i)
           Step(F) == [i \in 0..Len(times) |-> Next(F, i)]
           Done == {n \in Nat : \E F : Upto(n, F)}
<1>1. 0 \in Done
  <2> DEFINE G == [i \in 0..Len(times) |-> StreamStart]
  <2>1. \A i \in 0..Len(times) : i <= 0 => G[i] = Next(G, i)
    OBVIOUS
  <2> HIDE DEF G
  <2>2. \E F : Upto(0, F)
    BY <2>1
  <2> QED BY <2>2
<1>2. ASSUME NEW n \in Nat, n \in Done PROVE n + 1 \in Done
  <2>1. PICK F : Upto(n, F)
    BY <1>2
  <2> DEFINE G == Step(F)
  <2>2. ASSUME NEW i \in 0..Len(times), i <= n + 1 PROVE G[i] = Next(G, i)
    <3>1. CASE i = 0
      BY <3>1
    <3>2. CASE i # 0
      <4>1. i - 1 \in 0..Len(times) /\ i - 1 <= n
        BY <2>2, <3>2
      <4>2. G[i - 1] = F[i - 1]
        BY <4>1, <2>1
      <4>3. G[i] = StreamRead(trs, Order(times), F[i - 1], times[i])
        BY <3>2
      <4> HIDE DEF G
      <4> QED BY <3>2, <4>2, <4>3
    <3> QED BY <3>1, <3>2
  <2> HIDE DEF G
  <2>3. \E H : Upto(n + 1, H)
    BY <2>2
  <2> QED BY <2>3
<1>3. Nat \subseteq Done
  <2> HIDE DEF Done
  <2> QED BY <1>1, <1>2, AllNumbers
<1>4. PICK F : Upto(Len(times), F)
  BY <1>3
<1> DEFINE G == Step(F)
<1>5. G = Step(G)
  <2>1. \A i \in 0..Len(times) : F[i] = G[i]
    BY <1>4
  <2>2. \A i \in 0..Len(times) : i # 0 => i - 1 \in 0..Len(times)
    OBVIOUS
  <2> HIDE DEF G
  <2>3. \A i \in 0..Len(times) : Next(F, i) = Next(G, i)
    BY <2>1, <2>2
  <2> HIDE DEF Next
  <2> QED BY <2>3 DEF G
<1> HIDE DEF G
<1>6. StreamUpto(trs, times) = Step(StreamUpto(trs, times))
  BY <1>5 DEF StreamUpto
<1> DEFINE H == StreamUpto(trs, times)
<1>7. H = Step(H)
  BY <1>6
<1> HIDE DEF H
<1>8. \A i \in 0..Len(times) : H[i] = Next(H, i)
  <2> HIDE DEF Next
  <2> QED BY <1>7
<1> QED BY <1>8 DEF H

\* One more row is held, or none.
LEMMA HeldNext ==
  ASSUME NEW X, NEW rows \in Seq(X), NEW x \in X
  PROVE  /\ Held(Append(rows, x)) = IF Len(Held(rows)) >= ChunkSize THEN Held(rows) ELSE Append(Held(rows), x)
         /\ Len(Held(rows)) >= ChunkSize <=> Len(rows) + 1 > ChunkSize
<1>1. PICK more : more = Append(rows, x)
  OBVIOUS
<1>2. /\ more \in Seq(X) /\ Len(more) = Len(rows) + 1 /\ Len(rows) \in Nat
      /\ \A i \in 1..(Len(rows) + 1) : more[i] = IF i <= Len(rows) THEN rows[i] ELSE x
  BY <1>1
<1>3. PICK h, hm : h = Held(rows) /\ hm = Held(more)
  OBVIOUS
<1>4. /\ h \in Seq(X) /\ Len(h) = IF Len(rows) < ChunkSize THEN Len(rows) ELSE ChunkSize
      /\ \A i \in 1..Len(h) : i \in 1..Len(rows) /\ h[i] = rows[i]
  BY <1>3, HeldIs
<1>5. /\ hm \in Seq(X) /\ Len(hm) = IF Len(more) < ChunkSize THEN Len(more) ELSE ChunkSize
      /\ \A i \in 1..Len(hm) : i \in 1..Len(more) /\ hm[i] = more[i]
  BY <1>2, <1>3, HeldIs
<1>6. CASE Len(h) >= ChunkSize
  <2>1. Len(hm) = Len(h)
    BY <1>2, <1>4, <1>5, <1>6, ChunkAssumption
  <2>2. \A i \in 1..Len(hm) : hm[i] = h[i]
    BY <1>2, <1>4, <1>5, <2>1
  <2>3. hm = h
    BY <1>4, <1>5, <2>1, <2>2, SeqEqual
  <2>4. Len(rows) + 1 > ChunkSize
    BY <1>2, <1>4, <1>6, ChunkAssumption
  <2> QED BY <1>1, <1>3, <1>6, <2>3, <2>4
<1>7. CASE ~(Len(h) >= ChunkSize)
  <2>1. Len(rows) < ChunkSize /\ Len(h) = Len(rows) /\ Len(hm) = Len(rows) + 1
    BY <1>2, <1>4, <1>5, <1>7, ChunkAssumption
  <2>2. PICK d : d = Append(h, x)
    OBVIOUS
  <2>3. /\ d \in Seq(X) /\ Len(d) = Len(h) + 1
        /\ \A i \in 1..(Len(h) + 1) : d[i] = IF i <= Len(h) THEN h[i] ELSE x
    BY <1>4, <2>2
  <2>4. \A i \in 1..Len(hm) : hm[i] = d[i]
    BY <1>2, <1>4, <1>5, <2>1, <2>3
  <2>5. hm = d
    BY <1>4, <1>5, <2>1, <2>3, <2>4, SeqEqual
  <2>6. ~(Len(rows) + 1 > ChunkSize)
    BY <1>2, <2>1, ChunkAssumption
  <2> QED BY <1>1, <1>3, <1>7, <2>2, <2>5, <2>6
<1> QED BY <1>6, <1>7

LEMMA HeldNothing == Held(<<>>) = <<>>
<1>1. /\ Held(<<>>) \in Seq({}) /\ Len(Held(<<>>)) = IF Len(<<>>) < ChunkSize THEN Len(<<>>) ELSE ChunkSize
  <2>1. <<>> \in Seq({})
    OBVIOUS
  <2> QED BY <2>1, HeldIs
<1>2. Len(<<>>) = 0 /\ 0 < ChunkSize
  BY ChunkAssumption
<1>3. PICK h : h = Held(<<>>)
  OBVIOUS
<1>4. h = <<>>
  BY <1>1, <1>2, <1>3
<1> QED BY <1>3, <1>4

LEMMA EmitAllNext ==
  ASSUME NEW trs, NEW times, Readable(trs, times), NEW X, NEW a \in Seq(X), NEW x \in X
  PROVE  FlattenSeq(EmitAll(trs, times, Append(a, x))) =
           FlattenSeq(EmitAll(trs, times, a)) \o EmitOf(trs, times, x)
<1>1. PICK c : c = Append(a, x)
  OBVIOUS
<1>2. PICK E, ea, ec, ex : /\ E = Seq(EntrySet(trs, times)) /\ ea = EmitAll(trs, times, a)
                           /\ ec = EmitAll(trs, times, c) /\ ex = EmitOf(trs, times, x)
  OBVIOUS
<1>3. /\ c \in Seq(X) /\ Len(c) = Len(a) + 1 /\ Len(a) \in Nat
      /\ \A i \in 1..(Len(a) + 1) : c[i] = IF i <= Len(a) THEN a[i] ELSE x
  BY <1>1
<1>4. /\ ea \in Seq(E) /\ Len(ea) = Len(a) /\ \A k \in 1..Len(a) : ea[k] = EmitOf(trs, times, a[k])
  <2>1. EmitsEach(trs, times, a)
    BY EmitAllType, Zenon
  <2> QED BY <1>2, <2>1 DEF EmitsEach
<1>5. /\ ec \in Seq(E) /\ Len(ec) = Len(c) /\ \A k \in 1..Len(c) : ec[k] = EmitOf(trs, times, c[k])
  <2>1. EmitsEach(trs, times, c)
    BY <1>3, EmitAllType, Zenon
  <2> QED BY <1>2, <2>1 DEF EmitsEach
<1>6. ex \in E
  BY <1>2, EmitType
<1>7. PICK d : d = Append(ea, ex)
  OBVIOUS
<1>8. /\ d \in Seq(E) /\ Len(d) = Len(a) + 1 /\ \A i \in 1..(Len(a) + 1) : d[i] = IF i <= Len(a) THEN ea[i] ELSE ex
  BY <1>4, <1>6, <1>7
<1>9. \A i \in 1..Len(ec) : ec[i] = d[i]
  <2> TAKE i \in 1..Len(ec)
  <2>1. CASE i <= Len(a)
    <3>1. i \in 1..Len(a) /\ c[i] = a[i] /\ d[i] = ea[i]
      BY <1>3, <1>5, <1>8, <2>1
    <3> QED BY <1>4, <1>5, <3>1
  <2>2. CASE ~(i <= Len(a))
    <3>1. c[i] = x /\ d[i] = ex
      BY <1>3, <1>5, <1>8, <2>2
    <3> QED BY <1>2, <1>5, <3>1
  <2> QED BY <2>1, <2>2
<1>10. ec = d
  BY <1>3, <1>5, <1>8, <1>9, SeqEqual
<1>11. FlattenSeq(Append(ea, ex)) = FlattenSeq(ea) \o ex
  BY <1>2, <1>4, <1>6, FlattenNext
<1> QED BY <1>1, <1>2, <1>7, <1>10, <1>11

(* The one pass, row by row: after row i, and when a trip ends at row i.       *)
RowsUpTo(times, i, t) == {j \in DOMAIN times : j <= i /\ times[j].trip = t}
EmittedBefore(trs, times, n) == FlattenSeq(EmitAll(trs, times, SubSeq(Order(times), 1, n - 1)))
StreamAt(trs, times, i, s) ==
  /\ s.last = times[i].trip
  /\ s.n = Cardinality(Below(FirstRows(times), i + 1)) /\ s.n \in DOMAIN Order(times) /\ Order(times)[s.n] = s.last
  /\ s.sts = Held(RowsAt(times, RowsUpTo(times, i, s.last)))
  /\ s.capped \in BOOLEAN /\ (s.capped <=> Cardinality(RowsUpTo(times, i, s.last)) > ChunkSize)
  /\ s.out = EmittedBefore(trs, times, s.n)
StreamBetween(trs, times, i, e) ==
  /\ e.sts = <<>> /\ e.capped = FALSE
  /\ e.n = Cardinality(Below(FirstRows(times), i + 1)) + 1
  /\ e.out = EmittedBefore(trs, times, e.n)

LEMMA FirstRowsAre ==
  ASSUME NEW times, times \in Seq(ToSet(times))
  PROVE  FirstRows(times) \in SUBSET DOMAIN times /\ FirstRows(times) \subseteq Nat /\ IsFiniteSet(FirstRows(times))
<1>1. FirstRows(times) \in SUBSET DOMAIN times
  BY DEF FirstRows
<1> QED BY <1>1, Positions

LEMMA NextFirstRow ==
  ASSUME NEW times, times \in Seq(ToSet(times)), NEW i \in Nat, i + 1 \in DOMAIN times
  PROVE  /\ Cardinality(Below(FirstRows(times), i + 1)) \in Nat
         /\ Cardinality(Below(FirstRows(times), i + 2)) =
              Cardinality(Below(FirstRows(times), i + 1)) + (IF i + 1 \in FirstRows(times) THEN 1 ELSE 0)
<1> DEFINE F == FirstRows(times)
<1>1. F \subseteq Nat /\ IsFiniteSet(F)
  BY FirstRowsAre
<1> HIDE DEF F
<1>2. IsFiniteSet(Below(F, i + 1)) /\ Cardinality(Below(F, i + 1)) \in Nat
  <2>1. Below(F, i + 1) \in SUBSET F
    BY DEF Below
  <2> QED BY <1>1, <2>1, FS_Subset, FS_CardinalityType
<1>o. \A j \in F : (j < i + 2 <=> j < i + 1 \/ j = i + 1) /\ ~(i + 1 < i + 1)
  BY <1>1
<1>3. CASE i + 1 \in F
  <2>1. Below(F, i + 2) = Below(F, i + 1) \cup {i + 1} /\ i + 1 \notin Below(F, i + 1)
    BY <1>o, <1>3 DEF Below
  <2> QED BY <1>2, <1>3, <2>1, FS_AddElement DEF F
<1>4. CASE i + 1 \notin F
  <2>1. Below(F, i + 2) = Below(F, i + 1)
    BY <1>o, <1>4 DEF Below
  <2> QED BY <1>2, <1>4, <2>1 DEF F
<1> QED BY <1>3, <1>4

\* When the next row is of another trip, all rows of the last one are read.
LEMMA LastTripIsRead ==
  ASSUME NEW times, times \in Seq(ToSet(times)), Grouped(times), \A i \in DOMAIN times : times[i].trip # NoId,
         NEW i \in DOMAIN times, i + 1 \in DOMAIN times => times[i + 1].trip # times[i].trip
  PROVE  \A j \in DOMAIN times : times[j].trip = times[i].trip => j <= i
<1> DEFINE S == {j \in DOMAIN times : j > i /\ times[j].trip = times[i].trip}
<1>1. SUFFICES ASSUME S # {} PROVE FALSE
  OBVIOUS
<1>2. DOMAIN times = 1..Len(times) /\ Len(times) \in Nat
  OBVIOUS
<1>3. S \subseteq Nat
  BY <1>2
<1>4. PICK m \in S : \A x \in S : m <= x
  BY <1>1, <1>3, SmallestNumber, Zenon
<1>5. m \in DOMAIN times /\ m > i /\ times[m].trip = times[i].trip /\ m # i + 1 /\ m - 1 \in DOMAIN times /\ m - 1 > i /\ m > 1
  BY <1>2, <1>4
<1>6. times[m - 1].trip # times[m].trip
  <2>1. m - 1 \notin S
    BY <1>2, <1>4, <1>5
  <2> QED BY <1>5, <2>1
<1>7. m \in FirstRows(times)
  BY <1>5, <1>6 DEF Grouped
<1>8. i \in 1..(m - 1)
  BY <1>2, <1>5
<1> QED BY <1>5, <1>7, <1>8 DEF FirstRows

\* A trip begins.
LEMMA TripBegins ==
  ASSUME NEW trs, NEW times, Readable(trs, times), NEW i \in Nat, i + 1 \in FirstRows(times),
         NEW e, StreamBetween(trs, times, i, e), NEW s,
         s = [last |-> times[i + 1].trip, sts |-> Append(e.sts, times[i + 1]), capped |-> FALSE, n |-> e.n, out |-> e.out]
  PROVE  StreamAt(trs, times, i + 1, s)
<1> DEFINE t == times[i + 1].trip
           D == RowsUpTo(times, i + 1, t)
<1>0. /\ times \in Seq(ToSet(times)) /\ i + 1 \in DOMAIN times /\ DOMAIN times = 1..Len(times) /\ Len(times) \in Nat
      /\ \A j \in 1..i : times[j].trip # t
  <2>1. times \in Seq(ToSet(times))
    BY DEF Readable
  <2>2. i + 1 \in DOMAIN times /\ \A j \in 1..(i + 1 - 1) : times[j].trip # t
    BY DEF FirstRows
  <2>3. i + 1 - 1 = i
    OBVIOUS
  <2>4. DOMAIN times = 1..Len(times) /\ Len(times) \in Nat
    BY <2>1
  <2> QED BY <2>1, <2>2, <2>3, <2>4
<1>1. D = {} \cup {i + 1}
  BY <1>0 DEF RowsUpTo
<1>2. RowsAt(times, D) = Append(<<>>, times[i + 1])
  <2>1. {} \in SUBSET DOMAIN times /\ \A j \in {} : j < i + 1
    OBVIOUS
  <2>2. RowsAt(times, {} \cup {i + 1}) = Append(RowsAt(times, {}), times[i + 1])
    BY <1>0, <2>1, RowsAtNext, Zenon
  <2> QED BY <1>1, <2>2, RowsAtNothing
<1>3. Held(Append(<<>>, times[i + 1])) = Append(<<>>, times[i + 1])
  <2>1. <<>> \in Seq(ToSet(times)) /\ times[i + 1] \in ToSet(times) /\ Len(<<>>) = 0
    BY <1>0 DEF ToSet
  <2>2. ~(Len(Held(<<>>)) >= ChunkSize)
    BY <2>1, HeldNothing, ChunkAssumption
  <2>3. Held(Append(<<>>, times[i + 1])) = Append(Held(<<>>), times[i + 1])
    BY <2>1, <2>2, HeldNext
  <2> QED BY <2>3, HeldNothing
<1>4. Cardinality(D) = 1 /\ ~(Cardinality(D) > ChunkSize)
  <2>1. Cardinality({i + 1}) = 1
    BY FS_Singleton
  <2>2. D = {i + 1}
    BY <1>1
  <2> HIDE DEF D
  <2> QED BY <2>1, <2>2, ChunkAssumption
<1>5. Cardinality(Below(FirstRows(times), (i + 1) + 1)) = Cardinality(Below(FirstRows(times), i + 1)) + 1
  <2>1. (i + 1) + 1 = i + 2
    OBVIOUS
  <2> QED BY <1>0, <2>1, NextFirstRow
<1>6. LET k == Cardinality(Below(FirstRows(times), i + 1)) + 1
      IN k \in DOMAIN Order(times) /\ Order(times)[k] = times[i + 1].trip
  BY <1>0, OrderIs
<1>7. s.last = t /\ s.sts = Append(<<>>, times[i + 1]) /\ s.capped = FALSE /\ s.n = e.n /\ s.out = e.out
  BY DEF StreamBetween
<1> HIDE DEF t, D
<1>8. s.n = Cardinality(Below(FirstRows(times), (i + 1) + 1)) /\ s.n \in DOMAIN Order(times) /\ Order(times)[s.n] = s.last
  BY <1>5, <1>6, <1>7 DEF StreamBetween, t
<1>9. s.sts = Held(RowsAt(times, RowsUpTo(times, i + 1, s.last)))
  BY <1>2, <1>3, <1>7 DEF D
<1>10. s.capped \in BOOLEAN /\ (s.capped <=> Cardinality(RowsUpTo(times, i + 1, s.last)) > ChunkSize)
  BY <1>4, <1>7 DEF D
<1>11. s.out = EmittedBefore(trs, times, s.n)
  BY <1>7 DEF StreamBetween
<1> QED BY <1>7, <1>8, <1>9, <1>10, <1>11 DEF StreamAt, t

\* A trip goes on.
LEMMA TripGoesOn ==
  ASSUME NEW trs, NEW times, Readable(trs, times), NEW i \in Nat, i \in DOMAIN times, i + 1 \in DOMAIN times,
         NEW s, StreamAt(trs, times, i, s), s.last = times[i + 1].trip,
         NEW r, r = [last |-> times[i + 1].trip,
                     sts |-> IF Len(s.sts) >= ChunkSize THEN s.sts ELSE Append(s.sts, times[i + 1]),
                     capped |-> Len(s.sts) >= ChunkSize \/ s.capped, n |-> s.n, out |-> s.out]
  PROVE  StreamAt(trs, times, i + 1, r)
<1> DEFINE t == times[i + 1].trip
           C == RowsUpTo(times, i, t)
           D == RowsUpTo(times, i + 1, t)
           rows == RowsAt(times, C)
<1>0. times \in Seq(ToSet(times)) /\ DOMAIN times = 1..Len(times) /\ Len(times) \in Nat /\ times[i + 1] \in ToSet(times)
  BY DEF Readable, ToSet
<1>1. D = C \cup {i + 1} /\ C \in SUBSET DOMAIN times /\ \A j \in C : j < i + 1
  BY <1>0 DEF RowsUpTo
<1>2. s.last = t /\ times[i].trip = t /\ s.sts = Held(rows) /\ (s.capped <=> Cardinality(C) > ChunkSize) /\ s.capped \in BOOLEAN
  BY DEF StreamAt
<1> HIDE DEF t, C, D
<1>3. RowsAt(times, D) = Append(rows, times[i + 1])
  BY <1>0, <1>1, RowsAtNext, Zenon
<1>4. rows \in Seq(ToSet(times)) /\ Len(rows) = Cardinality(C) /\ Cardinality(C) \in Nat /\ IsFiniteSet(C)
  BY <1>0, <1>1, RowsAtIs, Positions
<1>5. Cardinality(D) = Cardinality(C) + 1
  <2>1. i + 1 \notin C
    BY <1>1
  <2> QED BY <1>1, <1>4, <2>1, FS_AddElement
<1> HIDE DEF rows
<1>6. /\ Held(Append(rows, times[i + 1])) = IF Len(Held(rows)) >= ChunkSize THEN Held(rows) ELSE Append(Held(rows), times[i + 1])
      /\ Len(Held(rows)) >= ChunkSize <=> Len(rows) + 1 > ChunkSize
  BY <1>0, <1>4, HeldNext
<1>7. i + 1 \notin FirstRows(times)
  <2>1. i \in 1..(i + 1 - 1) /\ times[i].trip = times[i + 1].trip
    BY <1>0, <1>2 DEF t
  <2> QED BY <2>1 DEF FirstRows
<1>8. Cardinality(Below(FirstRows(times), (i + 1) + 1)) = Cardinality(Below(FirstRows(times), i + 1))
  <2>1. (i + 1) + 1 = i + 2
    OBVIOUS
  <2> QED BY <1>0, <1>7, <2>1, NextFirstRow
<1>9. r.last = t /\ r.sts = Held(Append(rows, times[i + 1])) /\ r.n = s.n /\ r.out = s.out
      /\ r.capped = (Len(Held(rows)) >= ChunkSize \/ s.capped)
  BY <1>2, <1>6 DEF t
<1>10. r.capped \in BOOLEAN /\ (r.capped <=> Cardinality(D) > ChunkSize)
  <2>1. s.capped => Cardinality(C) + 1 > ChunkSize
    BY <1>2, <1>4, ChunkAssumption
  <2>2. r.capped \in BOOLEAN
    BY <1>2, <1>9
  <2> QED BY <1>4, <1>5, <1>6, <1>9, <2>1, <2>2
<1>11. r.n = Cardinality(Below(FirstRows(times), (i + 1) + 1)) /\ r.n \in DOMAIN Order(times) /\ Order(times)[r.n] = r.last
  BY <1>2, <1>8, <1>9 DEF StreamAt
<1>12. r.sts = Held(RowsAt(times, RowsUpTo(times, i + 1, r.last)))
  BY <1>3, <1>9 DEF D
<1>13. r.out = EmittedBefore(trs, times, r.n)
  BY <1>9 DEF StreamAt
<1> QED BY <1>9, <1>10, <1>11, <1>12, <1>13 DEF StreamAt, t, D

\* A trip ends.
LEMMA TripEnds ==
  ASSUME NEW trs, NEW times, Readable(trs, times), Grouped(times), NEW i \in Nat, i \in DOMAIN times,
         i + 1 \in DOMAIN times => times[i + 1].trip # times[i].trip,
         NEW s, StreamAt(trs, times, i, s)
  PROVE  LET e == StreamEmit(trs, Order(times), s) IN
         /\ StreamBetween(trs, times, i, e)
         /\ e.n = s.n + 1
<1> DEFINE t == s.last
           order == Order(times)
           n == s.n
           e == StreamEmit(trs, order, s)
           emitted == emitJoinedTrip(readTripsForIDs(trs, chunkByTrips(order, n), t), s.sts, s.capped)
<1>0. times \in Seq(ToSet(times)) /\ DOMAIN times = 1..Len(times) /\ Len(times) \in Nat /\ \A j \in DOMAIN times : times[j].trip # NoId
  BY DEF Readable
<1>1. t = times[i].trip /\ n \in DOMAIN order /\ order[n] = t /\ t # NoId
  BY <1>0 DEF StreamAt
<1>2. e = [last |-> t, sts |-> <<>>, capped |-> FALSE, n |-> n + 1, out |-> s.out \o emitted]
  BY <1>1, Zenon DEF StreamEmit
<1>3. emitted = EmitOf(trs, times, t)
  <2>1. t \in chunkByTrips(order, n)
    BY <1>1 DEF chunkByTrips
  <2>2. readTripsForIDs(trs, chunkByTrips(order, n), t) = RowsOfTrip(trs, t)
    BY <2>1, ReadTripsIs
  <2>3. RowsUpTo(times, i, t) = {j \in DOMAIN times : times[j].trip = t}
    <3>1. \A j \in DOMAIN times : times[j].trip = t => j <= i
      BY <1>0, <1>1, LastTripIsRead
    <3> QED BY <3>1 DEF RowsUpTo
  <2>4. RowsAt(times, RowsUpTo(times, i, t)) = TimesOfTrip(times, t)
    BY <2>3 DEF TimesOfTrip
  <2>5. Len(TimesOfTrip(times, t)) = Cardinality(RowsUpTo(times, i, t))
    <3>1. \A u : Len(TimesOfTrip(times, u)) = Count(times, u)
      BY <1>0, TimesOfTripIs
    <3>2. Count(times, t) = Cardinality(RowsUpTo(times, i, t))
      BY <2>3 DEF Count
    <3> QED BY <3>1, <3>2
  <2>6. s.sts = Held(TimesOfTrip(times, t)) /\ s.capped = (Len(TimesOfTrip(times, t)) > ChunkSize)
    BY <2>4, <2>5 DEF StreamAt
  <2> QED BY <2>2, <2>6 DEF EmitOf
<1>4. order \in Seq(TripIds(times)) /\ Len(order) \in Nat /\ DOMAIN order = 1..Len(order)
  BY <1>0, OrderIs
<1>5. PICK p : p = SubSeq(order, 1, n - 1)
  OBVIOUS
<1>6. p \in Seq(TripIds(times)) /\ SubSeq(order, 1, n) = Append(p, t) /\ t \in TripIds(times) /\ n \in Nat
  <2>1. n - 1 \in Nat /\ n - 1 \in 0..Len(order) /\ (n - 1) + 1 = n /\ n <= Len(order) /\ n \in Nat
    BY <1>1, <1>4
  <2> HIDE DEF order, n, t
  <2>2. /\ \A m \in 0..Len(order) : SubSeq(order, 1, m) \in Seq(TripIds(times))
        /\ \A m \in Nat : m + 1 <= Len(order) =>
             order[m + 1] \in TripIds(times) /\ SubSeq(order, 1, m + 1) = Append(SubSeq(order, 1, m), order[m + 1])
    BY <1>4, Beginnings
  <2>3. (n - 1) + 1 <= Len(order)
    BY <2>1
  <2>4. order[(n - 1) + 1] \in TripIds(times) /\ SubSeq(order, 1, (n - 1) + 1) = Append(SubSeq(order, 1, n - 1), order[(n - 1) + 1])
    BY <2>1, <2>2, <2>3
  <2> QED BY <1>1, <1>5, <2>1, <2>2, <2>4
<1>7. FlattenSeq(EmitAll(trs, times, Append(p, t))) = FlattenSeq(EmitAll(trs, times, p)) \o EmitOf(trs, times, t)
  BY <1>6, EmitAllNext
<1>8. s.out = FlattenSeq(EmitAll(trs, times, p))
  BY <1>5 DEF StreamAt, EmittedBefore
<1>9. EmittedBefore(trs, times, n + 1) = s.out \o emitted
  <2>1. (n + 1) - 1 = n
    BY <1>6
  <2> HIDE DEF n, t, emitted
  <2> QED BY <1>3, <1>6, <1>7, <1>8, <2>1 DEF EmittedBefore, order
<1>10. n = Cardinality(Below(FirstRows(times), i + 1))
  BY DEF StreamAt
<1> HIDE DEF emitted
<1>11. e.sts = <<>> /\ e.capped = FALSE /\ e.n = n + 1 /\ e.out = s.out \o emitted
  BY <1>2
<1> HIDE DEF e
<1>12. StreamBetween(trs, times, i, e) /\ e.n = n + 1
  BY <1>9, <1>10, <1>11 DEF StreamBetween
<1> QED BY <1>12 DEF e

\* Over a file whose trs are together, the one pass is the same.
LEMMA StreamPass ==
  ASSUME NEW trs, NEW times, Readable(trs, times), Grouped(times)
  PROVE  streamTripStopTimes(trs, times) = Pass(trs, times)
<1> DEFINE order == Order(times)
           last == Len(times)
           F == StreamUpto(trs, times)
           Good == {i \in Nat : i <= last => IF i = 0 THEN StreamBetween(trs, times, i, F[i])
                                             ELSE StreamAt(trs, times, i, F[i])}
<1>0. times \in Seq(ToSet(times)) /\ DOMAIN times = 1..last /\ last \in Nat /\ \A j \in DOMAIN times : times[j].trip # NoId
  BY DEF Readable
<1>f. \A i \in 0..last : F[i] = IF i = 0 THEN StreamStart ELSE StreamRead(trs, order, F[i - 1], times[i])
  BY <1>0, StreamUptoIs
<1>r. FirstRows(times) \in SUBSET DOMAIN times
  BY <1>0, FirstRowsAre
<1>n. /\ order \in Seq(TripIds(times)) /\ Len(order) = Cardinality(FirstRows(times)) /\ Len(order) \in Nat
      /\ SubSeq(order, 1, Len(order)) = order /\ SubSeq(order, 1, 0) = <<>>
  <2>1. order \in Seq(TripIds(times)) /\ Len(order) = Cardinality(FirstRows(times))
    BY <1>0, OrderIs
  <2> HIDE DEF order
  <2> QED BY <2>1, Beginnings
<1> HIDE DEF F, order, last
<1>1. 0 \in Good /\ F[0] = StreamStart
  <2>1. F[0] = StreamStart
    BY <1>0, <1>f
  <2>2. Cardinality(Below(FirstRows(times), 0 + 1)) = 0
    <3>1. Below(FirstRows(times), 0 + 1) = {}
      BY <1>0, <1>r DEF Below
    <3> QED BY <3>1, FS_EmptySet
  <2>3. EmittedBefore(trs, times, 1) = <<>>
    <3>1. EmitAll(trs, times, <<>>) = <<>>
      BY DEF EmitAll
    <3>2. 1 - 1 = 0
      OBVIOUS
    <3> QED BY <1>n, <3>1, <3>2, FlattenNothing DEF EmittedBefore, order
  <2>4. StreamBetween(trs, times, 0, F[0])
    BY <2>1, <2>2, <2>3 DEF StreamBetween, StreamStart
  <2> QED BY <2>1, <2>4
<1>2. ASSUME NEW i \in Nat, i \in Good PROVE i + 1 \in Good
  <2> SUFFICES ASSUME i + 1 <= last PROVE StreamAt(trs, times, i + 1, F[i + 1])
    OBVIOUS
  <2>1. i <= last /\ i + 1 \in 0..last /\ i + 1 # 0 /\ (i + 1) - 1 = i /\ i + 1 \in DOMAIN times /\ (i # 0 => i \in DOMAIN times)
    BY <1>0
  <2>2. PICK s, r, row, e : s = F[i] /\ r = F[i + 1] /\ row = times[i + 1] /\ e = StreamEmit(trs, order, s)
    OBVIOUS
  <2>3. r = StreamRead(trs, order, s, row)
    BY <1>f, <2>1, <2>2
  <2>4. IF i = 0 THEN StreamBetween(trs, times, i, s) ELSE StreamAt(trs, times, i, s)
    BY <1>2, <2>1, <2>2
  <2> HIDE DEF Good
  <2>5. CASE i # 0 /\ s.last = row.trip
    <3>1. r = [last |-> row.trip, sts |-> IF Len(s.sts) >= ChunkSize THEN s.sts ELSE Append(s.sts, row),
               capped |-> Len(s.sts) >= ChunkSize \/ s.capped, n |-> s.n, out |-> s.out]
      BY <2>3, <2>5, Zenon DEF StreamRead
    <3>2. StreamAt(trs, times, i, s)
      BY <2>4, <2>5
    <3> QED BY <2>1, <2>2, <2>5, <3>1, <3>2, TripGoesOn
  <2>6. ASSUME NEW b, StreamBetween(trs, times, i, b), i + 1 \in FirstRows(times),
               r = [last |-> row.trip, sts |-> IF Len(b.sts) >= ChunkSize THEN b.sts ELSE Append(b.sts, row),
                    capped |-> Len(b.sts) >= ChunkSize \/ b.capped, n |-> b.n, out |-> b.out]
        PROVE  StreamAt(trs, times, i + 1, r)
    <3>1. b.sts = <<>> /\ b.capped = FALSE
      BY <2>6 DEF StreamBetween
    <3>2. ~(Len(b.sts) >= ChunkSize)
      BY <3>1, ChunkAssumption
    <3>3. r = [last |-> times[i + 1].trip, sts |-> Append(b.sts, times[i + 1]), capped |-> FALSE, n |-> b.n, out |-> b.out]
      BY <2>2, <2>6, <3>1, <3>2
    <3> QED BY <2>6, <3>3, TripBegins
  <2>7. CASE i = 0
    <3>1. s = StreamStart /\ StreamBetween(trs, times, i, s)
      BY <1>1, <2>2, <2>4, <2>7
    <3>2. s.last # row.trip /\ s.last = NoId
      BY <1>0, <2>1, <2>2, <3>1 DEF StreamStart
    <3>3. e = s
      BY <2>2, <3>2 DEF StreamEmit
    <3>4. r = [last |-> row.trip, sts |-> IF Len(s.sts) >= ChunkSize THEN s.sts ELSE Append(s.sts, row),
               capped |-> Len(s.sts) >= ChunkSize \/ s.capped, n |-> s.n, out |-> s.out]
      BY <2>2, <2>3, <3>2, <3>3, Zenon DEF StreamRead
    <3>5. i + 1 \in FirstRows(times)
      BY <2>1, <2>7 DEF FirstRows
    <3> QED BY <2>2, <2>6, <3>1, <3>4, <3>5
  <2>8. CASE i # 0 /\ s.last # row.trip
    <3>1. StreamAt(trs, times, i, s) /\ i \in DOMAIN times /\ s.last = times[i].trip
      BY <2>1, <2>4, <2>8 DEF StreamAt
    <3>2. StreamBetween(trs, times, i, e)
      BY <2>2, <2>8, <3>1, TripEnds DEF order
    <3>3. i + 1 \in FirstRows(times)
      <4>1. i + 1 > 1 /\ times[(i + 1) - 1].trip \notin {times[i + 1].trip, NoId}
        BY <1>0, <2>1, <2>2, <2>8, <3>1
      <4> QED BY <2>1, <4>1 DEF Grouped
    <3>4. r = [last |-> row.trip, sts |-> IF Len(e.sts) >= ChunkSize THEN e.sts ELSE Append(e.sts, row),
               capped |-> Len(e.sts) >= ChunkSize \/ e.capped, n |-> e.n, out |-> e.out]
      BY <2>2, <2>3, <2>8, Zenon DEF StreamRead
    <3> QED BY <2>2, <2>6, <3>2, <3>3, <3>4
  <2> QED BY <2>5, <2>7, <2>8
<1>3. Nat \subseteq Good
  <2> HIDE DEF Good
  <2> QED BY <1>1, <1>2, AllNumbers
<1>4. streamTripStopTimes(trs, times) = StreamEmit(trs, order, F[last]).out
  BY StreamIs DEF F, order, last
<1>5. IF last = 0 THEN StreamBetween(trs, times, last, F[last]) ELSE StreamAt(trs, times, last, F[last])
  <2>1. last \in Good /\ last <= last
    BY <1>0, <1>3
  <2> QED BY <2>1
<1> HIDE DEF Good
<1>6. CASE last = 0
  <2>1. F[last] = StreamStart /\ StreamBetween(trs, times, 0, StreamStart)
    BY <1>1, <1>5, <1>6
  <2>2. StreamEmit(trs, order, StreamStart).out = <<>>
    BY DEF StreamEmit, StreamStart
  <2>3. FirstRows(times) = {}
    BY <1>0, <1>6, <1>r
  <2>4. order = <<>>
    <3>1. Len(order) = 0
      BY <1>n, <2>3, FS_EmptySet
    <3> QED BY <1>n, <3>1
  <2>5. EmitAll(trs, times, <<>>) = <<>>
    BY DEF EmitAll
  <2> QED BY <1>4, <2>1, <2>2, <2>4, <2>5, FlattenNothing DEF Pass, order
<1>7. CASE last # 0
  <2>1. PICK s, e : s = F[last] /\ e = StreamEmit(trs, order, s)
    OBVIOUS
  <2>2. StreamAt(trs, times, last, s) /\ last \in DOMAIN times /\ last + 1 \notin DOMAIN times
    BY <1>0, <1>5, <1>7, <2>1
  <2>3. StreamBetween(trs, times, last, e)
    BY <1>0, <2>1, <2>2, TripEnds DEF order
  <2>4. Below(FirstRows(times), last + 1) = FirstRows(times)
    BY <1>0, <1>r DEF Below
  <2>5. e.n - 1 = Len(order)
    BY <1>n, <2>3, <2>4 DEF StreamBetween
  <2>6. e.out = FlattenSeq(EmitAll(trs, times, order))
    BY <1>n, <2>3, <2>5 DEF StreamBetween, EmittedBefore, order
  <2> QED BY <1>4, <2>1, <2>6 DEF Pass, order
<1> QED BY <1>6, <1>7

\* Both passes come to the same.
LEMMA ReaderPass ==
  ASSUME NEW trs, NEW times, Readable(trs, times)
  PROVE  TripsWithStopTimes(trs, times) =
           LET alone == RowsAt(trs, {i \in DOMAIN trs : Count(times, trs[i].id) = 0})
           IN Pass(trs, times) \o [i \in DOMAIN alone |-> Joined(alone[i], <<>>)]
<1>1. (IF Grouped(times) THEN streamTripStopTimes(trs, times) ELSE chunkTripStopTimes(trs, times)) = Pass(trs, times)
  BY StreamPass, ChunkPass
<1> QED BY <1>1, Zenon DEF TripsWithStopTimes

(* Where the members of a list of sequences end up.                           *)
Offset(ss, m) == Len(FlattenSeq(SubSeq(ss, 1, m)))
Covers(ss, n) ==
  \A k \in 1..Offset(ss, n) : \E m \in 1..n : \E q \in 1..Len(ss[m]) : k = Offset(ss, m - 1) + q

LEMMA OffsetIs ==
  ASSUME NEW X, NEW ss \in Seq(Seq(X))
  PROVE  /\ Len(ss) \in Nat /\ Offset(ss, 0) = 0 /\ Offset(ss, Len(ss)) = Len(FlattenSeq(ss))
         /\ \A n \in 0..Len(ss) : Offset(ss, n) \in Nat
         /\ \A n \in Nat : n + 1 <= Len(ss) =>
              /\ Offset(ss, n + 1) = Offset(ss, n) + Len(ss[n + 1])
              /\ ss[n + 1] \in Seq(X) /\ Len(ss[n + 1]) \in Nat
              /\ FlattenSeq(SubSeq(ss, 1, n + 1)) = FlattenSeq(SubSeq(ss, 1, n)) \o ss[n + 1]
              /\ FlattenSeq(SubSeq(ss, 1, n)) \in Seq(X)
<1> DEFINE Part(n) == SubSeq(ss, 1, n)
<1>0. /\ Len(ss) \in Nat /\ Part(0) = <<>> /\ Part(Len(ss)) = ss
      /\ \A n \in 0..Len(ss) : Part(n) \in Seq(Seq(X))
      /\ \A n \in Nat : n + 1 <= Len(ss) => ss[n + 1] \in Seq(X) /\ Part(n + 1) = Append(Part(n), ss[n + 1])
  BY Beginnings
<1> HIDE DEF Part
<1>1. \A n \in 0..Len(ss) : FlattenSeq(Part(n)) \in Seq(X)
  BY <1>0, FlattenMembers
<1>2. ASSUME NEW n \in Nat, n + 1 <= Len(ss)
      PROVE  /\ FlattenSeq(Part(n + 1)) = FlattenSeq(Part(n)) \o ss[n + 1]
             /\ FlattenSeq(Part(n)) \in Seq(X) /\ ss[n + 1] \in Seq(X)
             /\ Len(FlattenSeq(Part(n + 1))) = Len(FlattenSeq(Part(n))) + Len(ss[n + 1])
             /\ Len(ss[n + 1]) \in Nat
  <2>1. PICK p, s, f : p = Part(n) /\ s = ss[n + 1] /\ f = FlattenSeq(p)
    OBVIOUS
  <2>2. n \in 0..Len(ss)
    BY <1>0, <1>2
  <2>3. p \in Seq(Seq(X)) /\ s \in Seq(X) /\ f \in Seq(X) /\ Part(n + 1) = Append(p, s)
    BY <1>0, <1>1, <1>2, <2>1, <2>2
  <2>4. FlattenSeq(Append(p, s)) = f \o s
    BY <2>1, <2>3, FlattenNext
  <2>5. Len(f \o s) = Len(f) + Len(s) /\ Len(s) \in Nat
    BY <2>3
  <2> QED BY <2>1, <2>3, <2>4, <2>5
<1>3. \A n \in 0..Len(ss) : Len(FlattenSeq(Part(n))) \in Nat
  BY <1>1
<1>4. Len(<<>>) = 0
  OBVIOUS
<1> QED BY <1>0, <1>2, <1>3, <1>4, FlattenNothing DEF Offset, Part

LEMMA FlattenPositions ==
  ASSUME NEW X, NEW ss \in Seq(Seq(X))
  PROVE  LET flat == FlattenSeq(ss) IN
         /\ flat \in Seq(X)
         /\ \A m, n \in 0..Len(ss) : m <= n => Offset(ss, m) <= Offset(ss, n)
         /\ \A m \in 1..Len(ss) : \A q \in 1..Len(ss[m]) :
              /\ Offset(ss, m - 1) + q \in DOMAIN flat /\ flat[Offset(ss, m - 1) + q] = ss[m][q]
              /\ Offset(ss, m - 1) + q <= Offset(ss, m)
         /\ \A k \in DOMAIN flat : \E m \in 1..Len(ss) : \E q \in 1..Len(ss[m]) : k = Offset(ss, m - 1) + q
<1> DEFINE At_(n) == FlattenSeq(SubSeq(ss, 1, n))
           Placed(n) == /\ \A m \in 0..n : Offset(ss, m) <= Offset(ss, n)
                        /\ \A m \in 1..n : \A q \in 1..Len(ss[m]) :
                             /\ Offset(ss, m - 1) + q \in 1..Offset(ss, n)
                             /\ At_(n)[Offset(ss, m - 1) + q] = ss[m][q]
                             /\ Offset(ss, m - 1) + q <= Offset(ss, m)
                        /\ Covers(ss, n)
           Good == {n \in Nat : n <= Len(ss) => Placed(n)}
<1>0. /\ Len(ss) \in Nat /\ Offset(ss, 0) = 0 /\ Offset(ss, Len(ss)) = Len(FlattenSeq(ss))
      /\ \A n \in 0..Len(ss) : Offset(ss, n) \in Nat
      /\ \A n \in Nat : n + 1 <= Len(ss) =>
           /\ Offset(ss, n + 1) = Offset(ss, n) + Len(ss[n + 1])
           /\ ss[n + 1] \in Seq(X) /\ Len(ss[n + 1]) \in Nat /\ At_(n + 1) = At_(n) \o ss[n + 1] /\ At_(n) \in Seq(X)
  BY OffsetIs
<1>00. \A n : Len(At_(n)) = Offset(ss, n)
  BY DEF Offset
<1>000. At_(Len(ss)) = FlattenSeq(ss)
  BY Beginnings
<1> HIDE DEF At_
<1>1. 0 \in Good
  BY <1>0 DEF Covers
<1>2. ASSUME NEW n \in Nat, n \in Good PROVE n + 1 \in Good
  <2> HIDE DEF Placed
  <2> SUFFICES ASSUME n + 1 <= Len(ss) PROVE Placed(n + 1)
    OBVIOUS
  <2>1. n \in 0..Len(ss) /\ n + 1 \in 0..Len(ss) /\ n <= Len(ss)
    BY <1>0
  <2>p. Placed(n)
    BY <1>2, <2>1
  <2>2. /\ \A m \in 0..n : Offset(ss, m) <= Offset(ss, n)
        /\ \A m \in 1..n : \A q \in 1..Len(ss[m]) :
             /\ Offset(ss, m - 1) + q \in 1..Offset(ss, n) /\ At_(n)[Offset(ss, m - 1) + q] = ss[m][q]
             /\ Offset(ss, m - 1) + q <= Offset(ss, m)
        /\ Covers(ss, n)
    BY <2>p DEF Placed
  <2> HIDE DEF Good
  <2>3. PICK a, b, c, o : a = At_(n) /\ b = ss[n + 1] /\ c = At_(n + 1) /\ o = Offset(ss, n)
    OBVIOUS
  <2>4. /\ o \in Nat /\ b \in Seq(X) /\ Len(b) \in Nat /\ Offset(ss, n + 1) = o + Len(b) /\ c = a \o b
        /\ a \in Seq(X) /\ Len(a) = o
    BY <1>0, <1>00, <2>1, <2>3
  <2>5. \A k \in 1..(o + Len(b)) : c[k] = IF k <= o THEN a[k] ELSE b[k - o]
    BY <2>4
  <2>6. \A m \in 0..(n + 1) : m = n + 1 \/ m \in 0..n
    OBVIOUS
  <2>7. \A m \in 0..(n + 1) : Offset(ss, m) <= Offset(ss, n + 1)
    <3> TAKE m \in 0..(n + 1)
    <3>1. CASE m = n + 1
      BY <2>4, <3>1
    <3>2. CASE m \in 0..n
      <4>1. Offset(ss, m) <= o /\ Offset(ss, m) \in Nat
        BY <1>0, <2>1, <2>2, <2>3, <3>2, SMTT(30)
      <4> QED BY <2>4, <4>1
    <3> QED BY <2>6, <3>1, <3>2
  <2>8. ASSUME NEW m \in 1..(n + 1), NEW q \in 1..Len(ss[m])
        PROVE  /\ Offset(ss, m - 1) + q \in 1..Offset(ss, n + 1) /\ c[Offset(ss, m - 1) + q] = ss[m][q]
               /\ Offset(ss, m - 1) + q <= Offset(ss, m)
    <3>1. CASE m = n + 1
      <4>1. m - 1 = n /\ q \in 1..Len(b) /\ Offset(ss, m - 1) = o /\ ss[m] = b
        BY <2>3, <3>1
      <4>2. o + q \in 1..(o + Len(b)) /\ ~(o + q <= o) /\ (o + q) - o = q
        BY <2>4, <4>1
      <4>3. c[o + q] = b[q]
        BY <2>5, <4>2
      <4>4. PICK k : k = Offset(ss, m - 1) + q
        OBVIOUS
      <4>5. k = o + q /\ Offset(ss, m) = o + Len(b)
        BY <2>4, <3>1, <4>1, <4>4
      <4>6. k \in 1..Offset(ss, n + 1) /\ c[k] = ss[m][q] /\ k <= Offset(ss, m)
        BY <2>4, <4>1, <4>2, <4>3, <4>5, SMTT(30)
      <4> QED BY <4>4, <4>6
    <3>2. CASE m \in 1..n
      <4>1. PICK k : k = Offset(ss, m - 1) + q
        OBVIOUS
      <4>2. k \in 1..o /\ a[k] = ss[m][q] /\ k <= Offset(ss, m)
        BY <2>2, <2>3, <3>2, <4>1
      <4>3. k \in 1..(o + Len(b)) /\ k <= o
        BY <2>4, <4>2
      <4> QED BY <2>4, <2>5, <4>1, <4>2, <4>3
    <3> QED BY <3>1, <3>2
  <2>9. Covers(ss, n + 1)
    <3> SUFFICES ASSUME NEW k \in 1..(o + Len(b))
                 PROVE  \E m \in 1..(n + 1) : \E q \in 1..Len(ss[m]) : k = Offset(ss, m - 1) + q
      BY <2>4 DEF Covers
    <3>1. CASE k <= o
      <4>1. k \in 1..o
        BY <2>4, <3>1
      <4>2. PICK m \in 1..n : \E q \in 1..Len(ss[m]) : k = Offset(ss, m - 1) + q
        BY <2>2, <2>3, <4>1 DEF Covers
      <4>3. m \in 1..(n + 1)
        OBVIOUS
      <4> QED BY <4>2, <4>3, Zenon
    <3>2. CASE ~(k <= o)
      <4>1. k - o \in 1..Len(b) /\ k = o + (k - o) /\ (n + 1) - 1 = n /\ n + 1 \in 1..(n + 1)
        BY <2>4, <3>2
      <4> QED BY <2>3, <4>1
    <3> QED BY <3>1, <3>2
  <2> QED BY <2>3, <2>7, <2>8, <2>9 DEF Placed
<1>3. Nat \subseteq Good
  <2> HIDE DEF Good
  <2> QED BY <1>1, <1>2, AllNumbers
<1>4. FlattenSeq(ss) \in Seq(X) /\ DOMAIN FlattenSeq(ss) = 1..Offset(ss, Len(ss))
  <2>1. PICK f : f = FlattenSeq(ss)
    OBVIOUS
  <2>2. f \in Seq(X)
    BY <2>1, FlattenMembers
  <2>3. DOMAIN f = 1..Len(f)
    BY <2>2
  <2> QED BY <1>0, <2>1, <2>2, <2>3
<1>5. \A m, n \in 0..Len(ss) : m <= n => Offset(ss, m) <= Offset(ss, n)
  <2> TAKE m, n \in 0..Len(ss)
  <2> HAVE m <= n
  <2> HIDE DEF Placed
  <2>1. n \in Nat /\ n <= Len(ss) /\ m \in 0..n
    BY <1>0
  <2>2. Placed(n)
    BY <1>3, <2>1
  <2> QED BY <2>1, <2>2 DEF Placed
<1>6. Placed(Len(ss))
  <2>1. Len(ss) \in Nat /\ Len(ss) <= Len(ss)
    BY <1>0
  <2> HIDE DEF Placed
  <2> QED BY <1>3, <2>1
<1>7. /\ \A m \in 1..Len(ss) : \A q \in 1..Len(ss[m]) :
           /\ Offset(ss, m - 1) + q \in 1..Offset(ss, Len(ss)) /\ At_(Len(ss))[Offset(ss, m - 1) + q] = ss[m][q]
           /\ Offset(ss, m - 1) + q <= Offset(ss, m)
      /\ Covers(ss, Len(ss))
  BY <1>6
<1> HIDE DEF Good, Placed
<1> QED BY <1>000, <1>4, <1>5, <1>7 DEF Covers

FlatShape(ss, flat) ==
  /\ \A m, n \in 0..Len(ss) : m <= n => Offset(ss, m) <= Offset(ss, n)
  /\ \A m \in 1..Len(ss) : \A q \in 1..Len(ss[m]) :
       /\ Offset(ss, m - 1) + q \in DOMAIN flat /\ flat[Offset(ss, m - 1) + q] = ss[m][q]
       /\ Offset(ss, m - 1) + q <= Offset(ss, m)
  /\ \A k \in DOMAIN flat : \E m \in 1..Len(ss) : \E q \in 1..Len(ss[m]) : k = Offset(ss, m - 1) + q

LEMMA FlatShaped ==
  ASSUME NEW X, NEW ss \in Seq(Seq(X))
  PROVE  FlatShape(ss, FlattenSeq(ss))
BY FlattenPositions DEF FlatShape

(* What the reader yields for one trip. *)
OwnTimes(times, t) == {r \in ToSet(times) : r.trip = t}
SortedTimes(times, t) == InSequence(Held(TimesOfTrip(times, t)))
TooMany(times, t) == Len(TimesOfTrip(times, t)) > ChunkSize

LEMMA OwnTimesAre ==
  ASSUME NEW times, times \in Seq(ToSet(times)), \A i, j \in DOMAIN times : times[i] = times[j] => i = j, NEW t
  PROVE  Cardinality(OwnTimes(times, t)) = Count(times, t) /\ Count(times, t) = Len(TimesOfTrip(times, t))
<1> DEFINE D == {i \in DOMAIN times : times[i].trip = t}
           f == [i \in D |-> times[i]]
<1>1. D \in SUBSET DOMAIN times /\ OwnTimes(times, t) = {times[i] : i \in D}
  BY DEF OwnTimes, ToSet
<1>2. IsFiniteSet(D)
  BY <1>1, Positions
<1>3. f \in Bijection(D, OwnTimes(times, t))
  <2>1. f \in [D -> OwnTimes(times, t)]
    BY <1>1
  <2>2. \A i, j \in D : f[i] = f[j] => i = j
    OBVIOUS
  <2>3. \A r \in OwnTimes(times, t) : \E i \in D : f[i] = r
    BY <1>1
  <2> QED BY <2>1, <2>2, <2>3 DEF Bijection, Injection, Surjection, IsInjective
<1>4. Cardinality(D) = Cardinality(OwnTimes(times, t))
  <2> HIDE DEF D, f
  <2> QED BY <1>2, <1>3, FS_Bijection, Zenon DEF ExistsBijection
<1>5. Len(TimesOfTrip(times, t)) = Count(times, t)
  BY TimesOfTripIs
<1> QED BY <1>4, <1>5 DEF Count

LEMMA TripTimes ==
  ASSUME NEW trs, NEW times, Readable(trs, times), NEW t \in TripIds(times)
  PROVE  LET sorted == SortedTimes(times, t)  own == OwnTimes(times, t) IN
         /\ sorted \in Seq(ToSet(times)) /\ sorted # <<>> /\ Len(sorted) \in Nat /\ 1 \in DOMAIN sorted
         /\ \A i \in DOMAIN sorted : sorted[i].trip = t
         /\ \A i \in 2..Len(sorted) : sorted[i - 1].seq <= sorted[i].seq
         /\ ToSet(sorted) \subseteq own
         /\ IF Cardinality(own) <= ChunkSize THEN ToSet(sorted) = own ELSE Len(sorted) = ChunkSize
         /\ Cardinality(own) \in Nat /\ (TooMany(times, t) <=> ~(Cardinality(own) <= ChunkSize))
<1>0. times \in Seq(ToSet(times)) /\ Sequenced(times) /\ DOMAIN times = 1..Len(times)
      /\ \A i, j \in DOMAIN times : times[i] = times[j] => i = j
  BY DEF Readable
<1>1. PICK rows, held, sorted, own : /\ rows = TimesOfTrip(times, t) /\ held = Held(rows) /\ sorted = InSequence(held)
                                     /\ own = OwnTimes(times, t)
  OBVIOUS
<1>2. /\ rows \in Seq(ToSet(times)) /\ Len(rows) = Cardinality(own) /\ ToSet(rows) = own
      /\ \A i \in DOMAIN rows : rows[i].trip = t
  <2>1. /\ TimesOfTrip(times, t) \in Seq(ToSet(times))
        /\ ToSet(TimesOfTrip(times, t)) = {r \in ToSet(times) : r.trip = t}
        /\ \A i \in DOMAIN TimesOfTrip(times, t) : TimesOfTrip(times, t)[i].trip = t
    BY <1>0, TimesOfTripIs
  <2>2. Cardinality(OwnTimes(times, t)) = Count(times, t) /\ Count(times, t) = Len(TimesOfTrip(times, t))
    BY <1>0, OwnTimesAre
  <2> QED BY <1>1, <2>1, <2>2 DEF OwnTimes
<1>3. own # {}
  BY <1>1 DEF TripIds, OwnTimes, ToSet
<1>4. Len(rows) \in Nat /\ Len(rows) >= 1
  <2>1. rows # <<>>
    BY <1>2, <1>3 DEF ToSet
  <2> QED BY <1>2, <2>1
<1>5. /\ held \in Seq(ToSet(times)) /\ Len(held) = IF Len(rows) < ChunkSize THEN Len(rows) ELSE ChunkSize
      /\ \A i \in 1..Len(held) : i \in 1..Len(rows) /\ held[i] = rows[i]
  BY <1>1, <1>2, HeldIs
<1>6. Sequenced(held)
  BY <1>0, <1>1, HeldTimes
<1>7. /\ sorted \in Seq(ToSet(times)) /\ Len(sorted) = Len(held) /\ ToSet(sorted) = ToSet(held)
      /\ \A i, j \in DOMAIN sorted : i < j => sorted[i].seq <= sorted[j].seq
  BY <1>1, <1>5, <1>6, InSequenceIs
<1>8. Len(sorted) \in Nat /\ Len(sorted) >= 1 /\ DOMAIN sorted = 1..Len(sorted) /\ DOMAIN held = 1..Len(held) /\ DOMAIN rows = 1..Len(rows)
  BY <1>2, <1>4, <1>5, <1>7, ChunkAssumption
<1>9. ToSet(held) \subseteq own
  BY <1>2, <1>5, <1>8 DEF ToSet
<1>10. \A i \in DOMAIN sorted : sorted[i].trip = t
  <2> TAKE i \in DOMAIN sorted
  <2>1. sorted[i] \in ToSet(sorted)
    BY DEF ToSet
  <2>2. sorted[i] \in own
    BY <1>7, <1>9, <2>1
  <2> QED BY <1>1, <2>2 DEF OwnTimes
<1>11. \A i \in 2..Len(sorted) : sorted[i - 1].seq <= sorted[i].seq
  <2> TAKE i \in 2..Len(sorted)
  <2>1. i - 1 \in DOMAIN sorted /\ i \in DOMAIN sorted /\ i - 1 < i
    BY <1>8
  <2> QED BY <1>7, <2>1
<1>12. IF Cardinality(own) <= ChunkSize THEN ToSet(sorted) = own ELSE Len(sorted) = ChunkSize
  <2>1. CASE Cardinality(own) <= ChunkSize
    <3>1. Len(held) = Len(rows)
      BY <1>2, <1>4, <1>5, <2>1, ChunkAssumption
    <3>2. ToSet(held) = ToSet(rows)
      BY <1>5, <1>8, <3>1 DEF ToSet
    <3> QED BY <1>2, <1>7, <2>1, <3>2
  <2>2. CASE ~(Cardinality(own) <= ChunkSize)
    BY <1>2, <1>4, <1>5, <1>7, <2>2, ChunkAssumption
  <2> QED BY <2>1, <2>2
<1>13. sorted # <<>> /\ 1 \in DOMAIN sorted
  BY <1>8
<1>14. TooMany(times, t) <=> ~(Cardinality(own) <= ChunkSize)
  BY <1>1, <1>2, <1>4, ChunkAssumption DEF TooMany
<1> QED BY <1>1, <1>2, <1>4, <1>7, <1>8, <1>9, <1>10, <1>11, <1>12, <1>13, <1>14 DEF SortedTimes

LEMMA EntryOf ==
  ASSUME NEW trs, NEW times, Readable(trs, times), NEW t
  PROVE  LET out == EmitOf(trs, times, t)  rows == RowsOfTrip(trs, t)  sorted == SortedTimes(times, t)
             first == IF TooMany(times, t) THEN Limited(rows[1]) ELSE rows[1] IN
         /\ out \in Seq(EntrySet(trs, times)) /\ DOMAIN out = 1..Len(out) /\ Len(out) \in Nat /\ 1 \in DOMAIN out
         /\ out[1] = IF rows = <<>> THEN Orphan(sorted) ELSE Joined(first, sorted)
         /\ Len(out) = IF rows = <<>> THEN 1 ELSE Len(rows)
         /\ \A i \in 2..Len(out) : i \in DOMAIN rows /\ out[i] = Joined(rows[i], <<>>)
         /\ rows \in Seq(ToSet(trs)) /\ (rows # <<>> => 1 \in DOMAIN rows)
<1>1. PICK out, rows, held, capped : /\ out = EmitOf(trs, times, t) /\ rows = RowsOfTrip(trs, t)
                                     /\ held = Held(TimesOfTrip(times, t)) /\ capped = TooMany(times, t)
  OBVIOUS
<1>2. rows \in Seq(ToSet(trs)) /\ held \in Seq(ToSet(times)) /\ Sequenced(held) /\ capped \in BOOLEAN
  BY <1>1, RowsOfTripIs, HeldTimes DEF Readable, TooMany
<1>3. out = emitJoinedTrip(rows, held, capped)
  BY <1>1 DEF EmitOf, TooMany
<1> DEFINE first == IF capped THEN Limited(rows[1]) ELSE rows[1]
           sorted == InSequence(held)
<1>4. /\ rows = <<>> => out = <<Orphan(sorted)>>
      /\ rows # <<>> => /\ DOMAIN out = 1..Len(rows) /\ out[1] = Joined(first, sorted) /\ 1 \in DOMAIN rows
                        /\ \A i \in 2..Len(rows) : out[i] = Joined(rows[i], <<>>)
  BY <1>2, <1>3, EmitJoinedIs
<1>5. out \in Seq(EntrySet(trs, times))
  BY <1>1, EmitType
<1>6. DOMAIN out = 1..Len(out) /\ Len(out) \in Nat /\ Len(rows) \in Nat /\ DOMAIN rows = 1..Len(rows)
  BY <1>2, <1>5
<1> HIDE DEF first, sorted
<1>7. CASE rows = <<>>
  <2>1. Len(out) = 1 /\ out[1] = Orphan(sorted)
    BY <1>4, <1>7
  <2> QED BY <1>1, <1>2, <1>5, <1>6, <1>7, <2>1 DEF first, sorted, SortedTimes
<1>8. CASE rows # <<>>
  <2>1. 1..Len(out) = 1..Len(rows)
    BY <1>4, <1>6, <1>8
  <2>a. 1 \in DOMAIN out
    BY <1>4, <1>6, <1>8
  <2>b. Len(out) = Len(rows)
    <3>1. PICK m, n : m = Len(out) /\ n = Len(rows)
      OBVIOUS
    <3>2. m \in Nat /\ n \in Nat /\ 1 \in 1..m /\ 1..m = 1..n
      BY <1>4, <1>6, <1>8, <2>1, <3>1
    <3>3. m \in 1..n /\ n \in 1..m
      BY <3>2
    <3> QED BY <3>1, <3>2, <3>3
  <2> QED BY <1>1, <1>2, <1>4, <1>5, <1>6, <1>8, <2>1, <2>a, <2>b DEF first, sorted, SortedTimes
<1> QED BY <1>7, <1>8

LEMMA RowsAtApart ==
  ASSUME NEW X, NEW s \in Seq(X), NEW D \in SUBSET DOMAIN s
  PROVE  /\ \A k, l \in 1..Cardinality(D) : InOrder(D)[k] = InOrder(D)[l] => k = l
         /\ \A x \in D : \E k \in 1..Cardinality(D) : InOrder(D)[k] = x
         /\ \A k \in 1..Cardinality(D), x \in D : x < InOrder(D)[k] => k # 1
<1>0. D \subseteq Nat /\ IsFiniteSet(D) /\ Cardinality(D) \in Nat
  BY Positions
<1>1. /\ InOrder(D) \in [1..Cardinality(D) -> D]
      /\ \A i, j \in 1..Cardinality(D) : i < j <=> InOrder(D)[i] < InOrder(D)[j]
      /\ \A x \in D : \E k \in 1..Cardinality(D) : InOrder(D)[k] = x
  BY <1>0, InOrderIs
<1>2. ASSUME NEW k \in 1..Cardinality(D), NEW l \in 1..Cardinality(D), InOrder(D)[k] = InOrder(D)[l] PROVE k = l
  <2>1. InOrder(D)[k] \in Nat
    BY <1>0, <1>1
  <2>2. ~(k < l) /\ ~(l < k)
    BY <1>1, <1>2, <2>1
  <2> QED BY <1>0, <2>2
<1>3. ASSUME NEW k \in 1..Cardinality(D), NEW x \in D, x < InOrder(D)[k] PROVE k # 1
  <2>1. PICK l \in 1..Cardinality(D) : InOrder(D)[l] = x
    BY <1>1
  <2>2. l < k
    BY <1>1, <1>3, <2>1
  <2> QED BY <1>0, <2>2
<1> QED BY <1>1, <1>2, <1>3

(* All that the reader yields: the entries of each trip after those of the     *)
(* trs before it, then the trs without stop_times.                       *)
Alone(trs, times) == RowsAt(trs, {i \in DOMAIN trs : Count(times, trs[i].id) = 0})
From(trs, times, m) == Offset(EmitAll(trs, times, Order(times)), m - 1)
PassLen(trs, times) == Offset(EmitAll(trs, times, Order(times)), Len(Order(times)))
OfTrip(trs, times, k) ==
  \E m \in 1..Len(Order(times)) : \E q \in 1..Len(EmitOf(trs, times, Order(times)[m])) : k = From(trs, times, m) + q
OfAlone(trs, times, k) == \E i \in DOMAIN Alone(trs, times) : k = PassLen(trs, times) + i

LEMMA OrderMembers ==
  ASSUME NEW times, times \in Seq(ToSet(times))
  PROVE  LET order == Order(times) IN
         /\ order \in Seq(TripIds(times)) /\ Len(order) \in Nat /\ DOMAIN order = 1..Len(order)
         /\ \A m \in 1..Len(order) : order[m] \in TripIds(times)
         /\ \A t \in TripIds(times) : \E m \in 1..Len(order) : order[m] = t
         /\ \A j, k \in 1..Len(order) : order[j] = order[k] => j = k
<1>1. /\ Order(times) \in Seq(TripIds(times)) /\ ToSet(Order(times)) = TripIds(times)
      /\ \A j, k \in DOMAIN Order(times) : Order(times)[j] = Order(times)[k] => j = k
  BY OrderIs
<1>2. PICK order : order = Order(times)
  OBVIOUS
<1>3. Len(order) \in Nat /\ DOMAIN order = 1..Len(order) /\ \A m \in 1..Len(order) : order[m] \in TripIds(times)
  BY <1>1, <1>2
<1>4. \A t \in TripIds(times) : \E m \in 1..Len(order) : order[m] = t
  BY <1>1, <1>2, <1>3 DEF ToSet
<1> QED BY <1>1, <1>2, <1>3, <1>4

LEMMA OutIs ==
  ASSUME NEW trs, NEW times, Readable(trs, times)
  PROVE  LET order == Order(times)  out == TripsWithStopTimes(trs, times)  alone == Alone(trs, times)
             n == Len(order)  pass == PassLen(trs, times) IN
         /\ \A m \in 1..n : /\ From(trs, times, m) \in Nat
                            /\ \A q \in 1..Len(EmitOf(trs, times, order[m])) :
                                 /\ From(trs, times, m) + q \in DOMAIN out
                                 /\ out[From(trs, times, m) + q] = EmitOf(trs, times, order[m])[q]
                            /\ \A j \in 1..(m - 1) : From(trs, times, j) + 1 <= From(trs, times, m)
         /\ \A i \in DOMAIN alone : pass + i \in DOMAIN out /\ out[pass + i] = Joined(alone[i], <<>>)
         /\ \A k \in DOMAIN out : OfTrip(trs, times, k) \/ OfAlone(trs, times, k)
<1>0. times \in Seq(ToSet(times)) /\ trs \in Seq(ToSet(trs))
  BY DEF Readable
<1>1. PICK order, ss, E, flat, alone, A, n, pass :
        /\ order = Order(times) /\ ss = EmitAll(trs, times, order) /\ E = EntrySet(trs, times)
        /\ flat = FlattenSeq(ss) /\ alone = Alone(trs, times)
        /\ A = [i \in DOMAIN alone |-> Joined(alone[i], <<>>)] /\ n = Len(order) /\ pass = PassLen(trs, times)
  OBVIOUS
<1>2. order \in Seq(TripIds(times)) /\ n \in Nat
  BY <1>0, <1>1, OrderMembers
<1>3. ss \in Seq(Seq(E)) /\ Len(ss) = n /\ \A m \in 1..n : ss[m] = EmitOf(trs, times, order[m])
  <2>1. EmitsEach(trs, times, order)
    BY <1>2, EmitAllType, Zenon
  <2> QED BY <1>1, <2>1 DEF EmitsEach
<1>4. /\ flat \in Seq(E)
      /\ \A m, k \in 0..n : m <= k => Offset(ss, m) <= Offset(ss, k)
      /\ \A m \in 1..n : \A q \in 1..Len(ss[m]) :
           /\ Offset(ss, m - 1) + q \in DOMAIN flat /\ flat[Offset(ss, m - 1) + q] = ss[m][q]
           /\ Offset(ss, m - 1) + q <= Offset(ss, m)
      /\ \A k \in DOMAIN flat : \E m \in 1..n : \E q \in 1..Len(ss[m]) : k = Offset(ss, m - 1) + q
  <2>1. flat \in Seq(E)
    BY <1>1, <1>3, FlattenMembers
  <2>2. FlatShape(ss, flat)
    BY <1>1, <1>3, FlatShaped
  <2> QED BY <2>1, <2>2, <1>3 DEF FlatShape
<1>5. /\ \A m \in 0..n : Offset(ss, m) \in Nat
      /\ Offset(ss, n) = Len(flat) /\ pass = Len(flat)
  BY <1>1, <1>3, OffsetIs DEF PassLen
<1>6. alone \in Seq(ToSet(trs))
  <2>1. {i \in DOMAIN trs : Count(times, trs[i].id) = 0} \in SUBSET DOMAIN trs
    OBVIOUS
  <2> QED BY <1>0, <1>1, <2>1, RowsAtIs DEF Alone
<1>7. A \in Seq(E) /\ Len(A) = Len(alone) /\ DOMAIN A = 1..Len(A) /\ DOMAIN alone = 1..Len(A)
      /\ \A i \in 1..Len(A) : A[i] = Joined(alone[i], <<>>)
  <2>1. DOMAIN alone = 1..Len(alone) /\ Len(alone) \in Nat /\ <<>> \in Seq(ToSet(times))
        /\ \A i \in 1..Len(alone) : alone[i] \in ToSet(trs)
    BY <1>6
  <2>2. \A i \in DOMAIN alone : Joined(alone[i], <<>>) \in E
    <3>1. \A s \in Seq(ToSet(times)) : \A r \in TripRow(trs) : Joined(r, s) \in EntrySet(trs, times)
      BY DEF EntrySet
    <3>2. \A i \in DOMAIN alone : alone[i] \in TripRow(trs)
      BY <2>1 DEF TripRow
    <3> QED BY <1>1, <2>1, <3>1, <3>2
  <2>3. A \in [1..Len(alone) -> E]
    BY <1>1, <2>1, <2>2
  <2>4. A \in Seq(E) /\ Len(A) = Len(alone)
    BY <2>1, <2>3
  <2>5. \A i \in DOMAIN alone : A[i] = Joined(alone[i], <<>>)
    BY <1>1
  <2>6. DOMAIN A = DOMAIN alone
    BY <1>1
  <2> QED BY <2>1, <2>4, <2>5, <2>6
<1>8. PICK out : out = flat \o A
  OBVIOUS
<1>9. TripsWithStopTimes(trs, times) = out
  <2>1. TripsWithStopTimes(trs, times) = Pass(trs, times) \o [i \in DOMAIN Alone(trs, times) |-> Joined(Alone(trs, times)[i], <<>>)]
    BY ReaderPass, Zenon DEF Alone
  <2> QED BY <1>1, <1>8, <2>1 DEF Pass
<1>10. /\ out \in Seq(E) /\ Len(flat) \in Nat /\ Len(A) \in Nat /\ DOMAIN out = 1..(Len(flat) + Len(A))
       /\ DOMAIN flat = 1..Len(flat)
       /\ \A k \in 1..(Len(flat) + Len(A)) : out[k] = IF k <= Len(flat) THEN flat[k] ELSE A[k - Len(flat)]
  BY <1>4, <1>7, <1>8
<1>11. \A m \in 1..n : From(trs, times, m) = Offset(ss, m - 1) /\ From(trs, times, m) \in Nat
  BY <1>1, <1>2, <1>5 DEF From
<1>12. ASSUME NEW m \in 1..n, NEW q \in 1..Len(ss[m])
       PROVE  /\ From(trs, times, m) + q \in DOMAIN out
              /\ out[From(trs, times, m) + q] = ss[m][q]
  <2>1. PICK k : k = From(trs, times, m) + q
    OBVIOUS
  <2>2. k \in DOMAIN flat /\ flat[k] = ss[m][q]
    BY <1>4, <1>11, <2>1
  <2> QED BY <1>10, <2>1, <2>2
<1>13. ASSUME NEW m \in 1..n, NEW j \in 1..(m - 1)
       PROVE  From(trs, times, j) + 1 <= From(trs, times, m)
  <2>1. j \in 1..n /\ m - 1 \in 0..n /\ j \in 0..n /\ j <= m - 1
    BY <1>2
  <2>2. 1 \in 1..Len(ss[j])
    <3>1. 1 \in DOMAIN EmitOf(trs, times, order[j]) /\ DOMAIN EmitOf(trs, times, order[j]) = 1..Len(EmitOf(trs, times, order[j]))
      BY EntryOf
    <3> QED BY <1>3, <2>1, <3>1
  <2>3. Offset(ss, j - 1) + 1 <= Offset(ss, j) /\ Offset(ss, j) <= Offset(ss, m - 1)
    BY <1>4, <2>1, <2>2
  <2>4. Offset(ss, j) \in Nat /\ Offset(ss, m - 1) \in Nat /\ Offset(ss, j - 1) \in Nat
    BY <1>2, <1>5, <2>1
  <2> QED BY <1>11, <2>1, <2>3, <2>4
<1>14. ASSUME NEW i \in DOMAIN alone PROVE pass + i \in DOMAIN out /\ out[pass + i] = Joined(alone[i], <<>>)
  <2>1. i \in 1..Len(A) /\ pass + i \in 1..(Len(flat) + Len(A)) /\ ~(pass + i <= Len(flat)) /\ (pass + i) - Len(flat) = i
    BY <1>5, <1>7, <1>10
  <2>2. out[pass + i] = A[i]
    BY <1>10, <2>1
  <2> QED BY <1>7, <1>10, <2>1, <2>2
<1>15. ASSUME NEW k \in DOMAIN out PROVE OfTrip(trs, times, k) \/ OfAlone(trs, times, k)
  <2>1. CASE k <= Len(flat)
    <3>1. k \in DOMAIN flat
      BY <1>10, <2>1
    <3>2. PICK m \in 1..n : \E q \in 1..Len(ss[m]) : k = Offset(ss, m - 1) + q
      BY <1>4, <3>1
    <3>3. ss[m] = EmitOf(trs, times, Order(times)[m]) /\ Offset(ss, m - 1) = From(trs, times, m) /\ m \in 1..Len(Order(times))
      BY <1>1, <1>3, <1>11
    <3> QED BY <3>2, <3>3 DEF OfTrip
  <2>2. CASE ~(k <= Len(flat))
    <3>1. k - Len(flat) \in DOMAIN alone /\ k = pass + (k - Len(flat))
      BY <1>5, <1>7, <1>10, <2>2
    <3>2. \E i \in DOMAIN alone : k = pass + i
      BY <3>1
    <3> QED BY <1>1, <3>2 DEF OfAlone
  <2> QED BY <2>1, <2>2
<1>16. \A m \in 1..n : ss[m] = EmitOf(trs, times, Order(times)[m])
  BY <1>1, <1>3
<1>17. \A m \in 1..n : \A q \in 1..Len(EmitOf(trs, times, Order(times)[m])) :
          /\ From(trs, times, m) + q \in DOMAIN out
          /\ out[From(trs, times, m) + q] = EmitOf(trs, times, Order(times)[m])[q]
  BY <1>12, <1>16
<1> QED BY <1>1, <1>9, <1>11, <1>13, <1>14, <1>15, <1>17

OutShape(trs, times, out, order, alone, n, pass) ==
  /\ \A m \in 1..n : \A q \in 1..Len(EmitOf(trs, times, order[m])) :
       /\ From(trs, times, m) + q \in DOMAIN out
       /\ out[From(trs, times, m) + q] = EmitOf(trs, times, order[m])[q]
  /\ \A i \in DOMAIN alone : pass + i \in DOMAIN out /\ out[pass + i] = Joined(alone[i], <<>>)
  /\ \A k \in DOMAIN out : OfTrip(trs, times, k) \/ OfAlone(trs, times, k)

LEMMA OutShaped ==
  ASSUME NEW trs, NEW times, Readable(trs, times)
  PROVE  OutShape(trs, times, TripsWithStopTimes(trs, times), Order(times), Alone(trs, times),
                  Len(Order(times)), PassLen(trs, times))
BY OutIs DEF OutShape

LEMMA RowLines ==
  ASSUME NEW trs, NEW times, Readable(trs, times)
  PROVE  /\ \A r, s \in ToSet(trs) : r.line = s.line => r = s
         /\ \A r \in ToSet(trs) : Limited(r).line = r.line /\ Limited(r).fault = "bad" /\ Limited(r).id = r.id
<1>1. /\ \A i \in DOMAIN trs : {"id", "line", "fault"} \subseteq DOMAIN trs[i]
      /\ \A i, j \in DOMAIN trs : trs[i].line = trs[j].line => i = j
  BY DEF Readable
<1>2. \A r, s \in ToSet(trs) : r.line = s.line => r = s
  BY <1>1 DEF ToSet
<1>3. ASSUME NEW r \in ToSet(trs)
      PROVE  Limited(r).line = r.line /\ Limited(r).fault = "bad" /\ Limited(r).id = r.id
  <2>1. {"id", "line", "fault"} \subseteq DOMAIN r
    BY <1>1 DEF ToSet
  <2>2. "id" \in DOMAIN r /\ "line" \in DOMAIN r /\ "fault" \in DOMAIN r
    BY <2>1
  <2>3. "id" # "fault" /\ "line" # "fault"
    OBVIOUS
  <2> QED BY <2>2, <2>3, Zenon DEF Limited
<1> QED BY <1>2, <1>3

\* The entry that carries the stop_times of a trip is its first.
LEMMA FirstEntry ==
  ASSUME NEW trs, NEW times, Readable(trs, times), NEW t \in TripIds(times)
  PROVE  LET out == EmitOf(trs, times, t) IN
         /\ 1 \in 1..Len(out) /\ out[1].times = SortedTimes(times, t) /\ out[1].times # <<>> /\ out[1].times[1].trip = t
         /\ \A q \in 1..Len(out) : q # 1 => out[q].times = <<>>
         /\ CarriesItsTimes(trs, times, t, out[1])
<1>1. PICK out, rows, sorted, own : /\ out = EmitOf(trs, times, t) /\ rows = RowsOfTrip(trs, t)
                                    /\ sorted = SortedTimes(times, t) /\ own = OwnTimes(times, t)
  OBVIOUS
<1> DEFINE first == IF TooMany(times, t) THEN Limited(rows[1]) ELSE rows[1]
<1>2. /\ DOMAIN out = 1..Len(out) /\ Len(out) \in Nat /\ 1 \in DOMAIN out
      /\ out[1] = IF rows = <<>> THEN Orphan(sorted) ELSE Joined(first, sorted)
      /\ \A i \in 2..Len(out) : i \in DOMAIN rows /\ out[i] = Joined(rows[i], <<>>)
      /\ rows \in Seq(ToSet(trs)) /\ (rows # <<>> => 1 \in DOMAIN rows)
  BY <1>1, EntryOf
<1>3. /\ sorted \in Seq(ToSet(times)) /\ sorted # <<>> /\ 1 \in DOMAIN sorted
      /\ \A i \in DOMAIN sorted : sorted[i].trip = t
      /\ \A i \in 2..Len(sorted) : sorted[i - 1].seq <= sorted[i].seq
      /\ ToSet(sorted) \subseteq own
      /\ IF Cardinality(own) <= ChunkSize THEN ToSet(sorted) = own ELSE Len(sorted) = ChunkSize
      /\ TooMany(times, t) <=> ~(Cardinality(own) <= ChunkSize)
  <2> DEFINE TripTimesAre(s, o) ==
        /\ s \in Seq(ToSet(times)) /\ s # <<>> /\ Len(s) \in Nat /\ 1 \in DOMAIN s
        /\ \A i \in DOMAIN s : s[i].trip = t
        /\ \A i \in 2..Len(s) : s[i - 1].seq <= s[i].seq
        /\ ToSet(s) \subseteq o
        /\ IF Cardinality(o) <= ChunkSize THEN ToSet(s) = o ELSE Len(s) = ChunkSize
        /\ Cardinality(o) \in Nat /\ (TooMany(times, t) <=> ~(Cardinality(o) <= ChunkSize))
  <2>1. TripTimesAre(SortedTimes(times, t), OwnTimes(times, t))
    BY TripTimes
  <2> HIDE DEF TripTimesAre
  <2>2. TripTimesAre(sorted, own)
    BY <1>1, <2>1
  <2> QED BY <2>2 DEF TripTimesAre
<1>4. out[1].times = sorted /\ (out[1].valid <=> rows # <<>>) /\ (rows # <<>> => out[1].trip = first)
  <2> HIDE DEF first
  <2> QED BY <1>2 DEF Joined, Orphan
<1>5. rows # <<>> => first.line = rows[1].line /\ (TooMany(times, t) => first.fault = "bad")
  <2>1. SUFFICES ASSUME rows # <<>> PROVE first.line = rows[1].line /\ (TooMany(times, t) => first.fault = "bad")
    OBVIOUS
  <2>2. rows[1] \in ToSet(trs)
    BY <1>2, <2>1
  <2>3. Limited(rows[1]).line = rows[1].line /\ Limited(rows[1]).fault = "bad"
    BY <2>2, RowLines
  <2> QED BY <2>3
<1> HIDE DEF first
<1>6. \A q \in 1..Len(out) : q # 1 => out[q].times = <<>>
  <2> TAKE q \in 1..Len(out)
  <2> HAVE q # 1
  <2>1. q \in 2..Len(out)
    BY <1>2
  <2>2. out[q] = Joined(rows[q], <<>>)
    BY <1>2, <2>1
  <2> QED BY <2>2 DEF Joined
<1>7. rows = RowsAt(trs, {i \in DOMAIN trs : trs[i].id = t})
  BY <1>1 DEF RowsOfTrip
<1>8. own = {r \in ToSet(times) : r.trip = t}
  BY <1>1 DEF OwnTimes
<1>9. CarriesItsTimes(trs, times, t, out[1])
  <2>1. IF Cardinality(own) <= ChunkSize THEN ToSet(sorted) = own
        ELSE Len(sorted) = ChunkSize /\ (out[1].valid => out[1].trip.fault = "bad")
    BY <1>3, <1>4, <1>5
  <2>2. PICK e : e = out[1]
    OBVIOUS
  <2>3. /\ e.valid <=> rows # <<>>
        /\ e.valid => e.trip.line = rows[1].line
        /\ e.times = sorted
    BY <1>4, <1>5, <2>2
  <2> QED BY <1>3, <1>7, <1>8, <2>1, <2>2, <2>3, Zenon DEF CarriesItsTimes
<1> QED BY <1>1, <1>2, <1>3, <1>4, <1>6, <1>9

\* Each trip of stop_times.txt comes up once with its times, in order.
LEMMA TripsComeUp ==
  ASSUME NEW trs, NEW times, Readable(trs, times), NEW m \in 1..Len(Order(times))
  PROVE  LET t == Order(times)[m]  out == TripsWithStopTimes(trs, times)  k == From(trs, times, m) + 1 IN
         /\ At(out, t) = {k}
         /\ CarriesItsTimes(trs, times, t, out[k])
<1>1. PICK t, out, k, order : /\ t = Order(times)[m] /\ out = TripsWithStopTimes(trs, times) /\ k = From(trs, times, m) + 1
                              /\ order = Order(times)
  OBVIOUS
<1>2. /\ \A j \in 1..Len(order) : order[j] \in TripIds(times)
      /\ \A i, j \in 1..Len(order) : order[i] = order[j] => i = j
  BY <1>1, OrderMembers, SMTT(30) DEF Readable
<1>3. /\ \A j \in 1..Len(order) : \A q \in 1..Len(EmitOf(trs, times, order[j])) :
           /\ From(trs, times, j) + q \in DOMAIN out
           /\ out[From(trs, times, j) + q] = EmitOf(trs, times, order[j])[q]
      /\ \A i \in DOMAIN Alone(trs, times) :
           out[PassLen(trs, times) + i] = Joined(Alone(trs, times)[i], <<>>)
      /\ \A i \in DOMAIN out : OfTrip(trs, times, i) \/ OfAlone(trs, times, i)
  <2>1. OutShape(trs, times, out, order, Alone(trs, times), Len(order), PassLen(trs, times))
    BY <1>1, OutShaped
  <2> QED BY <1>1, <2>1 DEF OutShape
<1>4. ASSUME NEW j \in 1..Len(order)
      PROVE  LET e == EmitOf(trs, times, order[j]) IN
             /\ 1 \in 1..Len(e) /\ e[1].times # <<>> /\ e[1].times[1].trip = order[j]
             /\ \A q \in 1..Len(e) : q # 1 => e[q].times = <<>>
             /\ CarriesItsTimes(trs, times, order[j], e[1])
  BY <1>2, FirstEntry
<1>5. k \in DOMAIN out /\ out[k] = EmitOf(trs, times, t)[1]
  BY <1>1, <1>3, <1>4
<1>6. out[k].times # <<>> /\ out[k].times[1].trip = t /\ CarriesItsTimes(trs, times, t, out[k])
  BY <1>1, <1>4, <1>5
<1>7. ASSUME NEW i \in DOMAIN out, out[i].times # <<>>, out[i].times[1].trip = t PROVE i = k
  <2>1. ~OfAlone(trs, times, i)
    <3>1. SUFFICES ASSUME OfAlone(trs, times, i) PROVE FALSE
      OBVIOUS
    <3>2. PICK a \in DOMAIN Alone(trs, times) : i = PassLen(trs, times) + a
      BY <3>1 DEF OfAlone
    <3>3. out[i] = Joined(Alone(trs, times)[a], <<>>)
      BY <1>3, <3>2
    <3>4. out[i].times = <<>>
      BY <3>3 DEF Joined
    <3> QED BY <1>7, <3>4
  <2>2. PICK j \in 1..Len(order) : \E q \in 1..Len(EmitOf(trs, times, order[j])) : i = From(trs, times, j) + q
    BY <1>1, <1>3, <2>1 DEF OfTrip
  <2>3. PICK q \in 1..Len(EmitOf(trs, times, order[j])) : i = From(trs, times, j) + q
    BY <2>2
  <2>4. out[i] = EmitOf(trs, times, order[j])[q]
    BY <1>3, <2>3
  <2>5. q = 1
    BY <1>4, <1>7, <2>4
  <2>6. order[j] = t
    BY <1>4, <1>7, <2>4, <2>5
  <2>7. j = m
    BY <1>1, <1>2, <2>6
  <2> QED BY <1>1, <2>3, <2>5, <2>7
<1>8. At(out, t) = {k}
  BY <1>5, <1>6, <1>7 DEF At
<1> QED BY <1>1, <1>6, <1>8

LEMMA RowsAtDistinct ==
  ASSUME NEW X, NEW s \in Seq(X), NEW D \in SUBSET DOMAIN s, \A i, j \in DOMAIN s : s[i] = s[j] => i = j
  PROVE  /\ DOMAIN RowsAt(s, D) = 1..Cardinality(D)
         /\ \A k \in DOMAIN RowsAt(s, D) : \E i \in D : RowsAt(s, D)[k] = s[i]
         /\ \A i \in D : \E k \in DOMAIN RowsAt(s, D) : RowsAt(s, D)[k] = s[i]
         /\ \A k, l \in DOMAIN RowsAt(s, D) : RowsAt(s, D)[k] = RowsAt(s, D)[l] => k = l
<1>1. /\ \A k, l \in 1..Cardinality(D) : InOrder(D)[k] = InOrder(D)[l] => k = l
      /\ \A x \in D : \E k \in 1..Cardinality(D) : InOrder(D)[k] = x
  BY RowsAtApart
<1>2. /\ RowsAt(s, D) \in Seq(X) /\ Len(RowsAt(s, D)) = Cardinality(D)
      /\ \A k \in 1..Cardinality(D) : InOrder(D)[k] \in D /\ RowsAt(s, D)[k] = s[InOrder(D)[k]]
  BY RowsAtIs
<1>3. DOMAIN RowsAt(s, D) = 1..Cardinality(D)
  BY <1>2
<1>4. \A k \in 1..Cardinality(D) : \E i \in D : RowsAt(s, D)[k] = s[i]
  BY <1>2
<1>5. \A i \in D : \E k \in 1..Cardinality(D) : RowsAt(s, D)[k] = s[i]
  <2> TAKE i \in D
  <2>1. PICK k \in 1..Cardinality(D) : InOrder(D)[k] = i
    BY <1>1
  <2>2. RowsAt(s, D)[k] = s[i]
    BY <1>2, <2>1
  <2> QED BY <2>2
<1>6. ASSUME NEW k \in 1..Cardinality(D), NEW l \in 1..Cardinality(D), RowsAt(s, D)[k] = RowsAt(s, D)[l] PROVE k = l
  <2>1. InOrder(D)[k] \in DOMAIN s /\ InOrder(D)[l] \in DOMAIN s /\ s[InOrder(D)[k]] = s[InOrder(D)[l]]
    BY <1>2, <1>6
  <2> QED BY <1>1, <2>1
<1> QED BY <1>3, <1>4, <1>5, <1>6

LEMMA ReadableRows ==
  ASSUME NEW trs, NEW times, Readable(trs, times)
  PROVE  trs \in Seq(ToSet(trs)) /\ \A i, j \in DOMAIN trs : trs[i] = trs[j] => i = j
BY DEF Readable

LEMMA TripRowsAre ==
  ASSUME NEW trs, NEW times, Readable(trs, times), NEW t
  PROVE  LET rows == RowsOfTrip(trs, t) IN
         /\ \A k \in DOMAIN rows : rows[k] \in ToSet(trs) /\ rows[k].id = t
         /\ \A r \in ToSet(trs) : r.id = t => \E k \in DOMAIN rows : rows[k] = r
         /\ \A k, l \in DOMAIN rows : rows[k] = rows[l] => k = l
<1> DEFINE D == {i \in DOMAIN trs : trs[i].id = t}
           rows == RowsAt(trs, D)
<1>1. D \in SUBSET DOMAIN trs
  OBVIOUS
<1>2. /\ \A k \in DOMAIN rows : \E i \in D : rows[k] = trs[i]
      /\ \A i \in D : \E k \in DOMAIN rows : rows[k] = trs[i]
      /\ \A k, l \in DOMAIN rows : rows[k] = rows[l] => k = l
  <2> HIDE DEF D
  <2> QED BY <1>1, ReadableRows, RowsAtDistinct
<1>3. RowsOfTrip(trs, t) = rows
  BY DEF RowsOfTrip
<1> HIDE DEF rows
<1> QED BY <1>2, <1>3 DEF ToSet

LEMMA AloneAre ==
  ASSUME NEW trs, NEW times, Readable(trs, times)
  PROVE  LET alone == Alone(trs, times) IN
         /\ \A k \in DOMAIN alone : alone[k] \in ToSet(trs) /\ Count(times, alone[k].id) = 0
         /\ \A r \in ToSet(trs) : Count(times, r.id) = 0 => \E k \in DOMAIN alone : alone[k] = r
         /\ \A k, l \in DOMAIN alone : alone[k] = alone[l] => k = l
<1> DEFINE D == {i \in DOMAIN trs : Count(times, trs[i].id) = 0}
           rows == RowsAt(trs, D)
<1>1. D \in SUBSET DOMAIN trs
  OBVIOUS
<1>2. /\ \A k \in DOMAIN rows : \E i \in D : rows[k] = trs[i]
      /\ \A i \in D : \E k \in DOMAIN rows : rows[k] = trs[i]
      /\ \A k, l \in DOMAIN rows : rows[k] = rows[l] => k = l
  <2> HIDE DEF D
  <2> QED BY <1>1, ReadableRows, RowsAtDistinct
<1>3. Alone(trs, times) = rows
  BY DEF Alone
<1> HIDE DEF rows
<1> QED BY <1>2, <1>3 DEF ToSet

LEMMA CountIs ==
  ASSUME NEW times, times \in Seq(ToSet(times)), NEW t
  PROVE  Count(times, t) = 0 <=> t \notin TripIds(times)
<1> DEFINE D == {i \in DOMAIN times : times[i].trip = t}
<1>1. D \in SUBSET DOMAIN times
  OBVIOUS
<1>2. IsFiniteSet(D)
  BY <1>1, Positions
<1>3. D = {} <=> t \notin TripIds(times)
  BY DEF TripIds
<1>4. Cardinality(D) = 0 <=> D = {}
  <2> HIDE DEF D
  <2> QED BY <1>2, FS_EmptySet
<1> QED BY <1>3, <1>4 DEF Count

LEMMA EntryRow ==
  ASSUME NEW trs, NEW times, Readable(trs, times), NEW t
  PROVE  LET out == EmitOf(trs, times, t)  rows == RowsOfTrip(trs, t) IN
         /\ \A q \in DOMAIN rows : q \in 1..Len(out) /\ out[q].valid /\ out[q].trip.line = rows[q].line
         /\ \A q \in 1..Len(out) : out[q].valid => q \in DOMAIN rows
<1>1. PICK out, rows, sorted, first :
        /\ out = EmitOf(trs, times, t) /\ rows = RowsOfTrip(trs, t) /\ sorted = SortedTimes(times, t)
        /\ first = IF TooMany(times, t) THEN Limited(rows[1]) ELSE rows[1]
  OBVIOUS
<1>2. /\ Len(out) \in Nat
      /\ out[1] = IF rows = <<>> THEN Orphan(sorted) ELSE Joined(first, sorted)
      /\ Len(out) = IF rows = <<>> THEN 1 ELSE Len(rows)
      /\ \A i \in 2..Len(out) : i \in DOMAIN rows /\ out[i] = Joined(rows[i], <<>>)
      /\ rows \in Seq(ToSet(trs)) /\ (rows # <<>> => 1 \in DOMAIN rows)
  BY <1>1, EntryOf
<1>3. DOMAIN rows = 1..Len(rows) /\ Len(rows) \in Nat
  BY <1>2
<1>4. CASE rows = <<>>
  <2>1. out[1].valid = FALSE
    BY <1>2, <1>4 DEF Orphan
  <2>2. DOMAIN rows = {} /\ \A q \in 1..Len(out) : q = 1
    BY <1>2, <1>4
  <2> QED BY <1>1, <2>1, <2>2
<1>5. CASE rows # <<>>
  <2>1. rows[1] \in ToSet(trs)
    BY <1>2, <1>5
  <2>2. first.line = rows[1].line
    <3>1. Limited(rows[1]).line = rows[1].line
      BY <2>1, RowLines
    <3> QED BY <1>1, <3>1
  <2>3. \A q \in DOMAIN rows : q \in 1..Len(out) /\ out[q].valid /\ out[q].trip.line = rows[q].line
    <3> TAKE q \in DOMAIN rows
    <3>1. q \in 1..Len(out)
      BY <1>2, <1>3, <1>5
    <3>2. CASE q = 1
      BY <1>2, <1>5, <2>2, <3>1, <3>2 DEF Joined
    <3>3. CASE q # 1
      <4>1. q \in 2..Len(out)
        BY <1>2, <3>1, <3>3
      <4>2. out[q] = Joined(rows[q], <<>>)
        BY <1>2, <4>1
      <4> QED BY <3>1, <4>2 DEF Joined
    <3> QED BY <3>2, <3>3
  <2>4. \A q \in 1..Len(out) : q \in DOMAIN rows
    BY <1>2, <1>3, <1>5
  <2> QED BY <1>1, <2>3, <2>4
<1> QED BY <1>4, <1>5

\* Every row of trips.txt comes up once.
LEMMA EachTripOnce ==
  ASSUME NEW trs, NEW times, Readable(trs, times)
  PROVE  YieldsEachTripOnce(trs, TripsWithStopTimes(trs, times))
<1> SUFFICES ASSUME NEW r \in ToSet(trs)
             PROVE  LET out == TripsWithStopTimes(trs, times) IN
                    Cardinality({k \in DOMAIN out : out[k].valid /\ out[k].trip.line = r.line}) = 1
  BY DEF YieldsEachTripOnce
<1>1. PICK out, alone, order, n, pass : /\ out = TripsWithStopTimes(trs, times) /\ alone = Alone(trs, times)
                                        /\ order = Order(times) /\ n = Len(order) /\ pass = PassLen(trs, times)
  OBVIOUS
<1>2. /\ n \in Nat /\ \A m \in 1..n : order[m] \in TripIds(times)
      /\ \A t \in TripIds(times) : \E m \in 1..n : order[m] = t
      /\ \A j, k \in 1..n : order[j] = order[k] => j = k
  <2>1. times \in Seq(ToSet(times))
    BY DEF Readable
  <2> QED BY <1>1, <2>1, OrderMembers
<1>3. /\ \A m \in 1..n : \A q \in 1..Len(EmitOf(trs, times, order[m])) :
           /\ From(trs, times, m) + q \in DOMAIN out
           /\ out[From(trs, times, m) + q] = EmitOf(trs, times, order[m])[q]
      /\ \A i \in DOMAIN alone : pass + i \in DOMAIN out /\ out[pass + i] = Joined(alone[i], <<>>)
      /\ \A k \in DOMAIN out : OfTrip(trs, times, k) \/ OfAlone(trs, times, k)
  <2>1. OutShape(trs, times, out, order, alone, n, pass)
    BY <1>1, OutShaped
  <2> QED BY <2>1 DEF OutShape
<1>4. \A a, b \in ToSet(trs) : a.line = b.line => a = b
  BY RowLines
<1>5. /\ \A k \in DOMAIN alone : alone[k] \in ToSet(trs) /\ Count(times, alone[k].id) = 0
      /\ (Count(times, r.id) = 0 => \E k \in DOMAIN alone : alone[k] = r)
      /\ \A k, l \in DOMAIN alone : alone[k] = alone[l] => k = l
  BY <1>1, AloneAre
<1>6. \A t : Count(times, t) = 0 <=> t \notin TripIds(times)
  BY CountIs DEF Readable
<1> DEFINE Hit(k) == k \in DOMAIN out /\ out[k].valid /\ out[k].trip.line = r.line
<1>7. ASSUME NEW m \in 1..n, NEW q \in 1..Len(EmitOf(trs, times, order[m])), Hit(From(trs, times, m) + q)
      PROVE  order[m] = r.id /\ q \in DOMAIN RowsOfTrip(trs, r.id) /\ RowsOfTrip(trs, r.id)[q] = r
  <2>1. PICK e : e = EmitOf(trs, times, order[m])[q]
    OBVIOUS
  <2>2. e.valid /\ e.trip.line = r.line
    BY <1>3, <1>7, <2>1
  <2>3. q \in DOMAIN RowsOfTrip(trs, order[m]) /\ e.trip.line = RowsOfTrip(trs, order[m])[q].line
    BY <2>1, <2>2, EntryRow
  <2>4. RowsOfTrip(trs, order[m])[q] \in ToSet(trs) /\ RowsOfTrip(trs, order[m])[q].id = order[m]
    BY <2>3, TripRowsAre
  <2>5. RowsOfTrip(trs, order[m])[q] = r
    BY <1>4, <2>2, <2>3, <2>4
  <2> QED BY <2>3, <2>4, <2>5
<1>8. ASSUME NEW i \in DOMAIN alone, Hit(pass + i)
      PROVE  alone[i] = r /\ Count(times, r.id) = 0
  <2>a. PICK e : e = out[pass + i]
    OBVIOUS
  <2>b. e.trip = alone[i]
    <3>1. out[pass + i] = Joined(alone[i], <<>>)
      BY <1>3
    <3>2. e = Joined(alone[i], <<>>)
      BY <2>a, <3>1
    <3> QED BY <3>2 DEF Joined
  <2>1. alone[i].line = r.line
    BY <1>8, <2>a, <2>b
  <2> QED BY <1>4, <1>5, <2>1
<1>9. \E k : Hit(k) /\ \A l : Hit(l) => l = k
  <2>1. CASE r.id \in TripIds(times)
    <3>1. PICK m \in 1..n : order[m] = r.id
      BY <1>2, <2>1
    <3>2. PICK q \in DOMAIN RowsOfTrip(trs, r.id) : RowsOfTrip(trs, r.id)[q] = r
      BY TripRowsAre
    <3>3. PICK k : k = From(trs, times, m) + q
      OBVIOUS
    <3>4. /\ q \in 1..Len(EmitOf(trs, times, order[m])) /\ EmitOf(trs, times, order[m])[q].valid
          /\ EmitOf(trs, times, order[m])[q].trip.line = r.line
      BY <3>1, <3>2, EntryRow
    <3>5. Hit(k)
      BY <1>3, <3>3, <3>4
    <3>6. ASSUME NEW l, Hit(l) PROVE l = k
      <4>1. CASE OfTrip(trs, times, l)
        <5>1. PICK j \in 1..n : \E p \in 1..Len(EmitOf(trs, times, order[j])) : l = From(trs, times, j) + p
          BY <1>1, <4>1 DEF OfTrip
        <5>2. PICK p \in 1..Len(EmitOf(trs, times, order[j])) : l = From(trs, times, j) + p
          BY <5>1
        <5>3. Hit(From(trs, times, j) + p)
          BY <3>6, <5>2
        <5>4. order[j] = r.id /\ p \in DOMAIN RowsOfTrip(trs, r.id) /\ RowsOfTrip(trs, r.id)[p] = r
          BY <1>7, <5>3
        <5>5. j = m
          BY <1>2, <3>1, <5>4
        <5>6. p = q
          BY <3>2, <5>4, TripRowsAre
        <5> QED BY <3>3, <5>2, <5>5, <5>6
      <4>2. CASE OfAlone(trs, times, l)
        <5>1. PICK i \in DOMAIN alone : l = pass + i
          BY <1>1, <4>2 DEF OfAlone
        <5>2. Hit(pass + i)
          BY <3>6, <5>1
        <5>3. Count(times, r.id) = 0
          BY <1>8, <5>2
        <5> QED BY <1>6, <2>1, <5>3
      <4> QED BY <1>3, <3>6, <4>1, <4>2
    <3> QED BY <3>5, <3>6
  <2>2. CASE r.id \notin TripIds(times)
    <3>1. PICK i \in DOMAIN alone : alone[i] = r
      BY <1>5, <1>6, <2>2
    <3>2. PICK k : k = pass + i
      OBVIOUS
    <3>a. k \in DOMAIN out /\ out[k] = Joined(r, <<>>)
      BY <1>3, <3>1, <3>2
    <3>3. Hit(k)
      BY <3>a DEF Joined
    <3>4. ASSUME NEW l, Hit(l) PROVE l = k
      <4>1. CASE OfTrip(trs, times, l)
        <5>1. PICK j \in 1..n : \E p \in 1..Len(EmitOf(trs, times, order[j])) : l = From(trs, times, j) + p
          BY <1>1, <4>1 DEF OfTrip
        <5>2. PICK p \in 1..Len(EmitOf(trs, times, order[j])) : l = From(trs, times, j) + p
          BY <5>1
        <5>3. Hit(From(trs, times, j) + p)
          BY <3>4, <5>2
        <5>4. order[j] = r.id
          BY <1>7, <5>3
        <5> QED BY <1>2, <2>2, <5>4
      <4>2. CASE OfAlone(trs, times, l)
        <5>1. PICK a \in DOMAIN alone : l = pass + a
          BY <1>1, <4>2 DEF OfAlone
        <5>2. Hit(pass + a)
          BY <3>4, <5>1
        <5>3. alone[a] = r
          BY <1>8, <5>2
        <5>4. a = i
          BY <1>5, <3>1, <5>3
        <5> QED BY <3>2, <5>1, <5>4
      <4> QED BY <1>3, <3>4, <4>1, <4>2
    <3> QED BY <3>3, <3>4
  <2> QED BY <2>1, <2>2
<1>10. PICK k : Hit(k) /\ \A l : Hit(l) => l = k
  BY <1>9
<1>11. {l \in DOMAIN out : out[l].valid /\ out[l].trip.line = r.line} = {k}
  BY <1>10
<1> QED BY <1>1, <1>11, FS_Singleton

(* genericTripsWithStopTimes *)
FirstOfId(trs) == {i \in DOMAIN trs : \A j \in 1..(i - 1) : trs[j].id # trs[i].id}
RowNamed(trs, t) == trs[CHOOSE i \in FirstOfId(trs) : trs[i].id = t]
AllTimes(times, t) == InSequence(TimesOfTrip(times, t))
NamedIds(trs, times) == {t \in ToSet(Order(times)) : \E i \in FirstOfId(trs) : trs[i].id = t}
GroupEntries(trs, times) ==
  {Joined(RowNamed(trs, t), AllTimes(times, t)) : t \in NamedIds(trs, times)}
    \cup {Orphan(AllTimes(times, t)) : t \in ToSet(Order(times)) \ NamedIds(trs, times)}
LeftEntries(trs, times) ==
  {Joined(trs[i], <<>>) : i \in {i \in FirstOfId(trs) : trs[i].id \notin NamedIds(trs, times)}}
Repeated(trs) == RowsAt(trs, DOMAIN trs \ FirstOfId(trs))
RepeatedEntries(trs) == [k \in DOMAIN Repeated(trs) |-> Joined(Repeated(trs)[k], <<>>)]

LEMMA GenericIs ==
  ASSUME NEW trs, NEW times
  PROVE  genericTripsWithStopTimes(trs, times) =
           {g \o l \o RepeatedEntries(trs) :
              g \in SetToSeqs(GroupEntries(trs, times)), l \in SetToSeqs(LeftEntries(trs, times))}
BY DEF genericTripsWithStopTimes, FirstOfId, RowNamed, AllTimes, NamedIds, GroupEntries, LeftEntries,
  Repeated, RepeatedEntries

LEMMA SeqOfSet ==
  ASSUME NEW S, IsFiniteSet(S), NEW f \in SetToSeqs(S)
  PROVE  f \in Seq(S) /\ ToSet(f) = S
<1> DEFINE n == Cardinality(S)
           D == 1..n
<1>1. n \in Nat /\ f \in [D -> S] /\ \A i, j \in D : i # j => f[i] # f[j]
  BY FS_CardinalityType DEF SetToSeqs
<1>2. IsFiniteSet(D) /\ Cardinality(D) = n
  BY <1>1, FS_Interval
<1>3. f \in Injection(D, S)
  BY <1>1 DEF Injection, IsInjective
<1>4. f \in Surjection(D, S)
  <2> HIDE DEF D, n
  <2>1. IsFiniteSet(S) /\ Cardinality(D) = Cardinality(S)
    BY <1>2 DEF n
  <2> QED BY <1>3, <2>1, FS_Injection
<1>5. ToSet(f) = S
  BY <1>1, <1>4 DEF Surjection, ToSet
<1>6. f \in Seq(S)
  BY <1>1
<1> QED BY <1>5, <1>6

LEMMA ConcatMembers ==
  ASSUME NEW E, NEW a \in Seq(E), NEW b \in Seq(E)
  PROVE  a \o b \in Seq(E) /\ ToSet(a \o b) = ToSet(a) \cup ToSet(b)
<1>1. PICK c : c = a \o b
  OBVIOUS
<1>2. /\ c \in Seq(E) /\ Len(a) \in Nat /\ Len(b) \in Nat /\ DOMAIN c = 1..(Len(a) + Len(b))
      /\ DOMAIN a = 1..Len(a) /\ DOMAIN b = 1..Len(b)
      /\ \A i \in 1..(Len(a) + Len(b)) : c[i] = IF i <= Len(a) THEN a[i] ELSE b[i - Len(a)]
  BY <1>1
<1>3. \A i \in DOMAIN c : c[i] \in ToSet(a) \cup ToSet(b)
  <2> TAKE i \in DOMAIN c
  <2>1. CASE i <= Len(a)
    <3>1. i \in DOMAIN a /\ c[i] = a[i]
      BY <1>2, <2>1
    <3> QED BY <3>1 DEF ToSet
  <2>2. CASE ~(i <= Len(a))
    <3>1. i - Len(a) \in DOMAIN b /\ c[i] = b[i - Len(a)]
      BY <1>2, <2>2
    <3> QED BY <3>1 DEF ToSet
  <2> QED BY <2>1, <2>2
<1>4. \A i \in DOMAIN a : a[i] \in ToSet(c)
  <2> TAKE i \in DOMAIN a
  <2>1. i \in DOMAIN c /\ c[i] = a[i]
    BY <1>2
  <2> QED BY <2>1 DEF ToSet
<1>5. \A i \in DOMAIN b : b[i] \in ToSet(c)
  <2> TAKE i \in DOMAIN b
  <2>1. i + Len(a) \in DOMAIN c /\ ~(i + Len(a) <= Len(a)) /\ (i + Len(a)) - Len(a) = i
    BY <1>2
  <2>2. c[i + Len(a)] = b[i]
    BY <1>2, <2>1
  <2> QED BY <2>1, <2>2 DEF ToSet
<1>6. ToSet(c) = ToSet(a) \cup ToSet(b)
  BY <1>3, <1>4, <1>5 DEF ToSet
<1> QED BY <1>1, <1>2, <1>6

LEMMA FiniteImage ==
  ASSUME NEW S, IsFiniteSet(S), NEW f, DOMAIN f = S
  PROVE  IsFiniteSet({f[x] : x \in S})
<1> DEFINE T == {f[x] : x \in S}
           g == [x \in S |-> f[x]]
<1>1. g \in Surjection(S, T)
  BY DEF Surjection
<1> HIDE DEF T, g
<1>2. IsFiniteSet(T)
  BY <1>1, FS_Surjection
<1> QED BY <1>2 DEF T

LEMMA GroupsAreFinite ==
  ASSUME NEW trs, NEW times, Readable(trs, times)
  PROVE  IsFiniteSet(GroupEntries(trs, times)) /\ IsFiniteSet(LeftEntries(trs, times))
<1>1. PICK G, L, named, ids :
        /\ G = GroupEntries(trs, times) /\ L = LeftEntries(trs, times)
        /\ ids = ToSet(Order(times)) /\ named = NamedIds(trs, times)
  OBVIOUS
<1>3. trs \in Seq(ToSet(trs)) /\ times \in Seq(ToSet(times)) /\ \A i, j \in DOMAIN trs : trs[i] = trs[j] => i = j
  BY ReadableRows DEF Readable
<1>4. IsFiniteSet(ids) /\ named \in SUBSET ids
  <2>1. PICK order : order = Order(times)
    OBVIOUS
  <2>2. order \in Seq(TripIds(times))
    BY <1>3, <2>1, OrderMembers
  <2>3. IsFiniteSet(DOMAIN order)
    <3>1. DOMAIN order = 1..Len(order) /\ Len(order) \in Nat
      BY <2>2
    <3> QED BY <3>1, FS_Interval
  <2>4. IsFiniteSet({order[x] : x \in DOMAIN order})
    BY <2>3, FiniteImage
  <2>5. ids = {order[x] : x \in DOMAIN order}
    BY <1>1, <2>1 DEF ToSet
  <2> QED BY <1>1, <2>4, <2>5 DEF NamedIds
<1>5. IsFiniteSet(G)
  <2> DEFINE f == [t \in named |-> Joined(RowNamed(trs, t), AllTimes(times, t))]
             h == [t \in ids \ named |-> Orphan(AllTimes(times, t))]
  <2>1. IsFiniteSet(named) /\ IsFiniteSet(ids \ named)
    BY <1>4, FS_Subset
  <2>2. G = {f[t] : t \in named} \cup {h[t] : t \in ids \ named}
    BY <1>1 DEF GroupEntries
  <2>3. DOMAIN f = named /\ DOMAIN h = ids \ named
    OBVIOUS
  <2> HIDE DEF f, h
  <2>4. IsFiniteSet({f[t] : t \in named}) /\ IsFiniteSet({h[t] : t \in ids \ named})
    BY <2>1, <2>3, FiniteImage
  <2> QED BY <2>2, <2>4, FS_Union
<1>6. IsFiniteSet(L)
  <2> DEFINE D == {i \in FirstOfId(trs) : trs[i].id \notin named}
             f == [i \in D |-> Joined(trs[i], <<>>)]
  <2>1. D \in SUBSET DOMAIN trs
    BY DEF FirstOfId
  <2>2. L = {f[i] : i \in D}
    BY <1>1 DEF LeftEntries
  <2>3. DOMAIN f = D
    OBVIOUS
  <2> HIDE DEF D, f
  <2>4. IsFiniteSet(D)
    BY <1>3, <2>1, Positions
  <2> QED BY <2>2, <2>3, <2>4, FiniteImage
<1> QED BY <1>1, <1>5, <1>6

LEMMA GenericMembers ==
  ASSUME NEW trs, NEW times, Readable(trs, times), NEW other \in genericTripsWithStopTimes(trs, times)
  PROVE  ToSet(other) = GroupEntries(trs, times) \cup LeftEntries(trs, times)
                          \cup {Joined(trs[i], <<>>) : i \in DOMAIN trs \ FirstOfId(trs)}
<1>1. PICK G, L, R, ids, named :
        /\ G = GroupEntries(trs, times) /\ L = LeftEntries(trs, times) /\ R = RepeatedEntries(trs)
        /\ ids = ToSet(Order(times)) /\ named = NamedIds(trs, times)
  OBVIOUS
<1>2. PICK g \in SetToSeqs(G), l \in SetToSeqs(L) : other = g \o l \o R
  BY <1>1, GenericIs, SMTT(30)
<1>3. trs \in Seq(ToSet(trs)) /\ times \in Seq(ToSet(times)) /\ \A i, j \in DOMAIN trs : trs[i] = trs[j] => i = j
  BY ReadableRows DEF Readable
<1>5. IsFiniteSet(G) /\ IsFiniteSet(L)
  BY <1>1, GroupsAreFinite
<1>7. g \in Seq(G) /\ ToSet(g) = G /\ l \in Seq(L) /\ ToSet(l) = L
  BY <1>5, SeqOfSet
<1> DEFINE D == DOMAIN trs \ FirstOfId(trs)
           again == RowsAt(trs, D)
<1>8. D \in SUBSET DOMAIN trs /\ Repeated(trs) = again
  BY DEF Repeated
<1> HIDE DEF D
<1>9. /\ \A k \in DOMAIN again : \E i \in D : again[k] = trs[i]
      /\ \A i \in D : \E k \in DOMAIN again : again[k] = trs[i]
      /\ again \in Seq(ToSet(trs))
  BY <1>3, <1>8, RowsAtDistinct, RowsAtIs
<1>10. R = [k \in DOMAIN again |-> Joined(again[k], <<>>)]
  BY <1>1, <1>8 DEF RepeatedEntries
<1> HIDE DEF again
<1>11. R \in Seq(ToSet(R)) /\ ToSet(R) = {Joined(trs[i], <<>>) : i \in D}
  <2>1. DOMAIN R = DOMAIN again /\ \A k \in DOMAIN again : R[k] = Joined(again[k], <<>>)
    BY <1>10
  <2>2. DOMAIN again = 1..Len(again) /\ Len(again) \in Nat
    BY <1>9
  <2>3. R \in [1..Len(again) -> ToSet(R)]
    BY <1>10, <2>1, <2>2 DEF ToSet
  <2>4. R \in Seq(ToSet(R))
    BY <2>2, <2>3
  <2>5. ToSet(R) = {R[k] : k \in DOMAIN again}
    BY <2>1 DEF ToSet
  <2>6. {R[k] : k \in DOMAIN again} = {Joined(trs[i], <<>>) : i \in D}
    <3>1. \A k \in DOMAIN again : \E i \in D : R[k] = Joined(trs[i], <<>>)
      BY <1>9, <2>1
    <3>2. \A i \in D : \E k \in DOMAIN again : R[k] = Joined(trs[i], <<>>)
      BY <1>9, <2>1
    <3> QED BY <3>1, <3>2
  <2> QED BY <2>4, <2>5, <2>6
<1>12. PICK E : E = G \cup L \cup ToSet(R)
  OBVIOUS
<1>13. g \in Seq(E) /\ l \in Seq(E) /\ R \in Seq(E)
  BY <1>7, <1>11, <1>12
<1>14. g \o l \in Seq(E) /\ ToSet(g \o l) = ToSet(g) \cup ToSet(l)
  BY <1>13, ConcatMembers
<1>15. PICK gl : gl = g \o l
  OBVIOUS
<1>16. ToSet(gl \o R) = ToSet(gl) \cup ToSet(R)
  <2>1. gl \in Seq(E)
    BY <1>14, <1>15
  <2> QED BY <1>13, <2>1, ConcatMembers
<1> QED BY <1>1, <1>2, <1>7, <1>11, <1>14, <1>15, <1>16 DEF D

\* The first of the rows of a trip is the first row with this id.
LEMMA FirstOfTrip ==
  ASSUME NEW trs, NEW times, Readable(trs, times), NEW t
  PROVE  LET rows == RowsOfTrip(trs, t) IN
         /\ rows # <<>> <=> \E i \in FirstOfId(trs) : trs[i].id = t
         /\ rows # <<>> => rows[1] = RowNamed(trs, t)
         /\ \A q \in DOMAIN rows : q # 1 => \E i \in DOMAIN trs \ FirstOfId(trs) : rows[q] = trs[i] /\ trs[i].id = t
         /\ \A i \in DOMAIN trs \ FirstOfId(trs) : trs[i].id = t => \E q \in DOMAIN rows : q # 1 /\ rows[q] = trs[i]
<1> DEFINE D == {i \in DOMAIN trs : trs[i].id = t}
           n == Cardinality(D)
           at == InOrder(D)
<1>1. PICK rows : rows = RowsOfTrip(trs, t)
  OBVIOUS
<1>2. trs \in Seq(ToSet(trs)) /\ \A i, j \in DOMAIN trs : trs[i] = trs[j] => i = j
  BY ReadableRows
<1>3. D \in SUBSET DOMAIN trs /\ rows = RowsAt(trs, D) /\ \A i \in DOMAIN trs : i \in D <=> trs[i].id = t
  BY <1>1 DEF RowsOfTrip
<1> HIDE DEF D
<1>4. /\ \A k, l \in 1..n : at[k] = at[l] => k = l
      /\ \A x \in D : \E k \in 1..n : at[k] = x
      /\ \A k \in 1..n, x \in D : x < at[k] => k # 1
      /\ rows \in Seq(ToSet(trs)) /\ Len(rows) = n
      /\ \A k \in 1..n : at[k] \in D /\ rows[k] = trs[at[k]]
      /\ n \in Nat /\ DOMAIN trs = 1..Len(trs) /\ Len(trs) \in Nat
  BY <1>2, <1>3, RowsAtApart, RowsAtIs, Positions
<1>5. DOMAIN rows = 1..n /\ (rows # <<>> <=> n >= 1)
  BY <1>4
<1> HIDE DEF n, at
<1>6. ASSUME n >= 1
      PROVE  at[1] \in FirstOfId(trs) /\ \A i \in FirstOfId(trs) : trs[i].id = t => i = at[1]
  <2>1. 1 \in 1..n /\ at[1] \in D
    BY <1>4, <1>6
  <2>2. \A x \in D : ~(x < at[1])
    BY <1>4, <2>1
  <2>3. at[1] \in DOMAIN trs /\ trs[at[1]].id = t /\ at[1] \in Nat
    BY <1>3, <1>4, <2>1
  <2>4. \A j \in 1..(at[1] - 1) : trs[j].id # t
    <3> TAKE j \in 1..(at[1] - 1)
    <3>1. j \in DOMAIN trs /\ j < at[1]
      BY <1>4, <2>3
    <3> QED BY <1>3, <2>2, <3>1
  <2>5. at[1] \in FirstOfId(trs)
    BY <2>3, <2>4 DEF FirstOfId
  <2>6. ASSUME NEW i \in FirstOfId(trs), trs[i].id = t PROVE i = at[1]
    <3>1. i \in D /\ i \in DOMAIN trs /\ i \in Nat
      BY <1>3, <1>4, <2>6 DEF FirstOfId
    <3>2. ~(at[1] < i)
      <4>1. SUFFICES ASSUME at[1] < i PROVE FALSE
        OBVIOUS
      <4>2. at[1] \in 1..(i - 1)
        BY <1>4, <2>3, <3>1, <4>1
      <4> QED BY <2>3, <2>6, <4>2 DEF FirstOfId
    <3> QED BY <2>2, <2>3, <3>1, <3>2
  <2> QED BY <2>5, <2>6
<1>7. rows # <<>> <=> \E i \in FirstOfId(trs) : trs[i].id = t
  <2>1. ASSUME rows # <<>> PROVE \E i \in FirstOfId(trs) : trs[i].id = t
    <3>1. n >= 1 /\ 1 \in 1..n
      BY <1>4, <1>5, <2>1
    <3>2. at[1] \in FirstOfId(trs) /\ at[1] \in D
      BY <1>4, <1>6, <3>1
    <3> QED BY <1>3, <3>2
  <2>2. ASSUME NEW i \in FirstOfId(trs), trs[i].id = t PROVE rows # <<>>
    <3>1. i \in D
      BY <1>3, <2>2 DEF FirstOfId
    <3>2. \E k \in 1..n : at[k] = i
      BY <1>4, <3>1
    <3> QED BY <1>4, <1>5, <3>2
  <2> QED BY <2>1, <2>2
<1>8. rows # <<>> => rows[1] = RowNamed(trs, t)
  <2> SUFFICES ASSUME rows # <<>> PROVE rows[1] = RowNamed(trs, t)
    OBVIOUS
  <2>1. n >= 1 /\ 1 \in 1..n
    BY <1>4, <1>5
  <2>2. at[1] \in FirstOfId(trs) /\ trs[at[1]].id = t
    BY <1>3, <1>4, <1>6, <2>1
  <2>3. (CHOOSE i \in FirstOfId(trs) : trs[i].id = t) = at[1]
    BY <1>6, <2>1, <2>2
  <2> QED BY <1>4, <2>1, <2>3 DEF RowNamed
<1>9. ASSUME NEW q \in 1..n, q # 1 PROVE \E i \in DOMAIN trs \ FirstOfId(trs) : rows[q] = trs[i] /\ trs[i].id = t
  <2>1. n >= 1 /\ 1 \in 1..n
    BY <1>4
  <2>2. at[q] \in D /\ at[q] # at[1]
    BY <1>4, <1>9, <2>1
  <2>3. at[q] \notin FirstOfId(trs) /\ trs[at[q]].id = t /\ at[q] \in DOMAIN trs
    BY <1>3, <1>6, <2>1, <2>2
  <2> QED BY <1>4, <2>3
<1>10. ASSUME NEW i \in DOMAIN trs \ FirstOfId(trs), trs[i].id = t PROVE \E q \in 1..n : q # 1 /\ rows[q] = trs[i]
  <2>1. PICK q \in 1..n : at[q] = i
    BY <1>3, <1>4, <1>10
  <2>2. q # 1
    BY <1>4, <1>6, <2>1
  <2> QED BY <1>4, <2>1, <2>2
<1> QED BY <1>1, <1>5, <1>7, <1>8, <1>9, <1>10

LEMMA HeldAll ==
  ASSUME NEW X, NEW rows \in Seq(X), Len(rows) <= ChunkSize
  PROVE  Held(rows) = rows
<1>1. SubSeq(rows, 1, Len(rows)) = rows
  BY Beginnings
<1>2. (IF Len(rows) < ChunkSize THEN Len(rows) ELSE ChunkSize) = Len(rows)
  BY ChunkAssumption
<1> QED BY <1>1, <1>2 DEF Held

\* When no trip has too many rows, a reader without a pass of its own yields the same.
LEMMA GenericIsThePass ==
  ASSUME NEW trs, NEW times, Readable(trs, times),
         \A t \in TripIds(times) : Count(times, t) <= ChunkSize,
         NEW other \in genericTripsWithStopTimes(trs, times)
  PROVE  ToSet(other) = ToSet(TripsWithStopTimes(trs, times))
<1>1. PICK out, alone, order, n, pass, named, ids :
        /\ out = TripsWithStopTimes(trs, times) /\ alone = Alone(trs, times)
        /\ order = Order(times) /\ n = Len(order) /\ pass = PassLen(trs, times)
        /\ named = NamedIds(trs, times) /\ ids = TripIds(times)
  OBVIOUS
<1>2. times \in Seq(ToSet(times)) /\ trs \in Seq(ToSet(trs))
  BY DEF Readable
<1>3. /\ \A m \in 1..n : order[m] \in ids
      /\ \A t \in ids : \E m \in 1..n : order[m] = t
  BY <1>1, <1>2, OrderMembers
<1>4. ToSet(Order(times)) = ids
  BY <1>1, <1>2, OrderIs
<1>5. OutShape(trs, times, out, order, alone, n, pass)
  BY <1>1, OutShaped
<1>6. named = {t \in ids : RowsOfTrip(trs, t) # <<>>} /\ named \in SUBSET ids
  <2>1. \A t \in ids : RowsOfTrip(trs, t) # <<>> <=> \E i \in FirstOfId(trs) : trs[i].id = t
    BY FirstOfTrip
  <2> QED BY <1>1, <1>4, <2>1 DEF NamedIds
<1>7. ASSUME NEW t \in ids
      PROVE  LET e == EmitOf(trs, times, t)  rows == RowsOfTrip(trs, t) IN
             /\ 1 \in 1..Len(e)
             /\ e[1] = IF t \in named THEN Joined(RowNamed(trs, t), AllTimes(times, t)) ELSE Orphan(AllTimes(times, t))
             /\ \A q \in 1..Len(e) : q # 1 => \E i \in DOMAIN trs \ FirstOfId(trs) : trs[i].id = t /\ e[q] = Joined(trs[i], <<>>)
             /\ \A i \in DOMAIN trs \ FirstOfId(trs) : trs[i].id = t => \E q \in 1..Len(e) : e[q] = Joined(trs[i], <<>>)
  <2>1. PICK e, rows, sorted, first :
          /\ e = EmitOf(trs, times, t) /\ rows = RowsOfTrip(trs, t) /\ sorted = SortedTimes(times, t)
          /\ first = IF TooMany(times, t) THEN Limited(rows[1]) ELSE rows[1]
    OBVIOUS
  <2>2. /\ Len(e) \in Nat /\ 1 \in DOMAIN e /\ DOMAIN e = 1..Len(e)
        /\ e[1] = IF rows = <<>> THEN Orphan(sorted) ELSE Joined(first, sorted)
        /\ Len(e) = IF rows = <<>> THEN 1 ELSE Len(rows)
        /\ \A i \in 2..Len(e) : i \in DOMAIN rows /\ e[i] = Joined(rows[i], <<>>)
        /\ rows \in Seq(ToSet(trs))
    BY <2>1, EntryOf
  <2>3. /\ rows # <<>> => rows[1] = RowNamed(trs, t)
        /\ \A q \in DOMAIN rows : q # 1 => \E i \in DOMAIN trs \ FirstOfId(trs) : rows[q] = trs[i] /\ trs[i].id = t
        /\ \A i \in DOMAIN trs \ FirstOfId(trs) : trs[i].id = t => \E q \in DOMAIN rows : q # 1 /\ rows[q] = trs[i]
    BY <2>1, FirstOfTrip
  <2>4. ~TooMany(times, t) /\ sorted = AllTimes(times, t)
    <3>1. PICK all : all = TimesOfTrip(times, t)
      OBVIOUS
    <3>2. all \in Seq(ToSet(times)) /\ Len(all) = Count(times, t) /\ Len(all) \in Nat
      <4>1. /\ TimesOfTrip(times, t) \in Seq(ToSet(times)) /\ Len(TimesOfTrip(times, t)) = Count(times, t)
            /\ Count(times, t) \in Nat
        BY <1>2, TimesOfTripIs
      <4> QED BY <3>1, <4>1
    <3>3. Len(all) <= ChunkSize /\ ~(Len(all) > ChunkSize)
      BY <1>1, <3>2, ChunkAssumption
    <3>4. Held(all) = all
      BY <3>2, <3>3, HeldAll
    <3> QED BY <2>1, <3>1, <3>3, <3>4 DEF TooMany, SortedTimes, AllTimes
  <2>5. t \in named <=> rows # <<>>
    BY <1>6, <2>1
  <2>6. e[1] = IF t \in named THEN Joined(RowNamed(trs, t), AllTimes(times, t)) ELSE Orphan(AllTimes(times, t))
    BY <2>1, <2>2, <2>3, <2>4, <2>5
  <2>7. ASSUME NEW q \in 1..Len(e), q # 1
        PROVE  \E i \in DOMAIN trs \ FirstOfId(trs) : trs[i].id = t /\ e[q] = Joined(trs[i], <<>>)
    <3>1. q \in 2..Len(e)
      BY <2>2, <2>7
    <3>2. q \in DOMAIN rows /\ e[q] = Joined(rows[q], <<>>)
      BY <2>2, <3>1
    <3>3. PICK i \in DOMAIN trs \ FirstOfId(trs) : rows[q] = trs[i] /\ trs[i].id = t
      BY <2>3, <2>7, <3>2
    <3> QED BY <3>2, <3>3
  <2>8. ASSUME NEW i \in DOMAIN trs \ FirstOfId(trs), trs[i].id = t
        PROVE  \E q \in 1..Len(e) : e[q] = Joined(trs[i], <<>>)
    <3>1. PICK q \in DOMAIN rows : q # 1 /\ rows[q] = trs[i]
      BY <2>3, <2>8
    <3>2. q \in 2..Len(e) /\ q \in 1..Len(e)
      <4>1. DOMAIN rows = 1..Len(rows) /\ Len(rows) \in Nat
        BY <2>2
      <4>2. rows # <<>>
        BY <3>1
      <4> QED BY <2>2, <3>1, <4>1, <4>2
    <3>3. e[q] = Joined(trs[i], <<>>)
      BY <2>2, <3>1, <3>2
    <3> QED BY <3>2, <3>3
  <2> QED BY <2>1, <2>2, <2>6, <2>7, <2>8
<1>8. PICK G, L, A : /\ G = GroupEntries(trs, times) /\ L = LeftEntries(trs, times)
                     /\ A = {Joined(trs[i], <<>>) : i \in DOMAIN trs \ FirstOfId(trs)}
  OBVIOUS
<1>9. ToSet(other) = G \cup L \cup A
  BY <1>8, GenericMembers
<1>10. G = {Joined(RowNamed(trs, t), AllTimes(times, t)) : t \in named} \cup {Orphan(AllTimes(times, t)) : t \in ids \ named}
  BY <1>1, <1>4, <1>8 DEF GroupEntries
<1>11. L = {Joined(trs[i], <<>>) : i \in {i \in FirstOfId(trs) : trs[i].id \notin named}}
  BY <1>1, <1>8 DEF LeftEntries
<1>12. \A t : Count(times, t) = 0 <=> t \notin ids
  BY <1>1, <1>2, CountIs
<1>13. /\ \A k \in DOMAIN alone : alone[k] \in ToSet(trs) /\ Count(times, alone[k].id) = 0
       /\ \A r \in ToSet(trs) : Count(times, r.id) = 0 => \E k \in DOMAIN alone : alone[k] = r
  BY <1>1, AloneAre
<1>14. ASSUME NEW t \in ids PROVE \E m \in 1..n : \A q \in 1..Len(EmitOf(trs, times, t)) : EmitOf(trs, times, t)[q] \in ToSet(out)
  <2>1. PICK m \in 1..n : order[m] = t
    BY <1>3
  <2>2. \A q \in 1..Len(EmitOf(trs, times, order[m])) :
          /\ From(trs, times, m) + q \in DOMAIN out
          /\ out[From(trs, times, m) + q] = EmitOf(trs, times, order[m])[q]
    BY <1>5 DEF OutShape
  <2> QED BY <2>1, <2>2 DEF ToSet
<1>15. ASSUME NEW r \in ToSet(trs), r.id \notin ids PROVE Joined(r, <<>>) \in ToSet(out)
  <2>1. PICK k \in DOMAIN alone : alone[k] = r
    BY <1>12, <1>13, <1>15
  <2>2. pass + k \in DOMAIN out /\ out[pass + k] = Joined(alone[k], <<>>)
    BY <1>5 DEF OutShape
  <2> QED BY <2>1, <2>2 DEF ToSet
<1>16. \A i \in DOMAIN trs : trs[i] \in ToSet(trs)
  BY DEF ToSet
<1>17. ASSUME NEW i \in FirstOfId(trs), trs[i].id \in ids PROVE trs[i].id \in named
  BY <1>1, <1>4, <1>17 DEF NamedIds
<1>18. G \cup L \cup A \subseteq ToSet(out)
  <2>1. G \subseteq ToSet(out)
    <3>1. \A t \in ids : EmitOf(trs, times, t)[1] \in ToSet(out)
      BY <1>7, <1>14
    <3>2. \A t \in named : Joined(RowNamed(trs, t), AllTimes(times, t)) \in ToSet(out)
      <4> TAKE t \in named
      <4>1. t \in ids
        BY <1>6
      <4>2. EmitOf(trs, times, t)[1] = Joined(RowNamed(trs, t), AllTimes(times, t))
        BY <1>7, <4>1
      <4> QED BY <3>1, <4>1, <4>2
    <3>3. \A t \in ids \ named : Orphan(AllTimes(times, t)) \in ToSet(out)
      <4> TAKE t \in ids \ named
      <4>1. t \in ids /\ t \notin named
        OBVIOUS
      <4>2. EmitOf(trs, times, t)[1] = Orphan(AllTimes(times, t))
        BY <1>7, <4>1
      <4> QED BY <3>1, <4>1, <4>2
    <3> QED BY <1>10, <3>2, <3>3
  <2>2. L \subseteq ToSet(out)
    <3>1. ASSUME NEW i \in FirstOfId(trs), trs[i].id \notin named PROVE Joined(trs[i], <<>>) \in ToSet(out)
      <4>1. trs[i].id \notin ids /\ i \in DOMAIN trs
        BY <1>17, <3>1 DEF FirstOfId
      <4> QED BY <1>15, <1>16, <4>1
    <3> QED BY <1>11, <3>1
  <2>3. A \subseteq ToSet(out)
    <3>1. ASSUME NEW i \in DOMAIN trs \ FirstOfId(trs) PROVE Joined(trs[i], <<>>) \in ToSet(out)
      <4>1. CASE trs[i].id \in ids
        <5>1. PICK t \in ids : t = trs[i].id
          BY <4>1
        <5>2. PICK q \in 1..Len(EmitOf(trs, times, t)) : EmitOf(trs, times, t)[q] = Joined(trs[i], <<>>)
          BY <1>7, <5>1
        <5> QED BY <1>14, <5>2
      <4>2. CASE trs[i].id \notin ids
        BY <1>15, <1>16, <4>2
      <4> QED BY <4>1, <4>2
    <3> QED BY <1>8, <3>1
  <2> QED BY <2>1, <2>2, <2>3
<1>19. ToSet(out) \subseteq G \cup L \cup A
  <2> SUFFICES ASSUME NEW k \in DOMAIN out PROVE out[k] \in G \cup L \cup A
    BY DEF ToSet
  <2>1. CASE OfTrip(trs, times, k)
    <3>1. PICK m \in 1..n : \E p \in 1..Len(EmitOf(trs, times, order[m])) : k = From(trs, times, m) + p
      BY <1>1, <2>1 DEF OfTrip
    <3>2. PICK q \in 1..Len(EmitOf(trs, times, order[m])) : k = From(trs, times, m) + q
      BY <3>1
    <3>3. out[k] = EmitOf(trs, times, order[m])[q]
      BY <1>5, <3>2 DEF OutShape
    <3>4. PICK t \in ids : t = order[m]
      BY <1>3
    <3>5. CASE q = 1
      <4>1. out[k] = IF t \in named THEN Joined(RowNamed(trs, t), AllTimes(times, t)) ELSE Orphan(AllTimes(times, t))
        BY <1>7, <3>3, <3>4, <3>5
      <4> QED BY <1>10, <4>1
    <3>6. CASE q # 1
      <4>1. \E i \in DOMAIN trs \ FirstOfId(trs) : out[k] = Joined(trs[i], <<>>)
        BY <1>7, <3>2, <3>3, <3>4, <3>6
      <4> QED BY <1>8, <4>1
    <3> QED BY <3>5, <3>6
  <2>2. CASE OfAlone(trs, times, k)
    <3>1. PICK i \in DOMAIN alone : k = pass + i
      BY <1>1, <2>2 DEF OfAlone
    <3>2. out[k] = Joined(alone[i], <<>>)
      BY <1>5, <3>1 DEF OutShape
    <3>3. alone[i] \in ToSet(trs) /\ alone[i].id \notin ids
      BY <1>12, <1>13
    <3>4. PICK j \in DOMAIN trs : alone[i] = trs[j]
      BY <3>3 DEF ToSet
    <3>5. CASE j \in FirstOfId(trs)
      <4>1. trs[j].id \notin named
        BY <1>6, <3>3, <3>4
      <4> QED BY <1>11, <3>2, <3>4, <3>5, <4>1
    <3>6. CASE j \notin FirstOfId(trs)
      BY <1>8, <3>2, <3>4, <3>6
    <3> QED BY <3>5, <3>6
  <2> QED BY <1>5, <2>1, <2>2 DEF OutShape
<1> QED BY <1>1, <1>9, <1>18, <1>19

(* What a feed is never changes. *)
LEMMA FeedKept ==
  ASSUME [CopyNext]_copyVars
  PROVE  UNCHANGED <<feed, opt>>
BY DEF CopyNext, copyVars, progress, patterns, NextPhase, TakeBatch, TakeGenerated, TakeTrips,
  AssignTrip, AssignOther, WriteTrips, WriteGroup, WriterFails, EndGroups

\* The feed is one that may be copied.
LEMMA FeedIsAFeed == CopySpec => [](feed \in Feed)
<1>1. CopyInit => feed \in Feed
  BY DEF CopyInit
<1>2. feed \in Feed /\ [CopyNext]_copyVars => (feed \in Feed)'
  BY FeedKept
<1> QED BY <1>1, <1>2, PTL DEF CopySpec

\* The rows of a file of it.
LEMMA RowsAre ==
  ASSUME feed \in Feed, NEW p
  PROVE  /\ Rows(p) \in Seq(ToSet(Rows(p)))
         /\ \A i \in DOMAIN Rows(p) :
              /\ p \in DOMAIN feed /\ Rows(p) = feed[p]
              /\ {"file", "id", "line", "refs", "groups", "fault"} \subseteq DOMAIN Rows(p)[i]
              /\ (Rows(p)[i].file = "trips.txt") = (p = "trips")
              /\ p = "stop_times" => {"trip", "stop", "seq", "rel"} \subseteq DOMAIN Rows(p)[i] /\ Rows(p)[i].seq \in Int
         /\ \A i, j \in DOMAIN Rows(p) : Rows(p)[i].line = Rows(p)[j].line => i = j
<1>1. CASE p \in DOMAIN feed
  <2>1. Rows(p) = feed[p]
    BY <1>1 DEF Rows
  <2> QED BY <1>1, <2>1, FeedAssumption
<1>2. CASE p \notin DOMAIN feed
  <2>1. Rows(p) = <<>>
    BY <1>2 DEF Rows
  <2>2. DOMAIN Rows(p) = {} /\ <<>> \in Seq(ToSet(<<>>))
    BY <2>1
  <2> QED BY <2>1, <2>2
<1> QED BY <1>1, <1>2

\* Without blank trip_ids it can be read.
LEMMA FeedReadable ==
  ASSUME feed \in Feed, ~HasBlankTimes
  PROVE  Readable(Rows("trips"), Rows("stop_times"))
<1> DEFINE trs == Rows("trips")  times == Rows("stop_times")
<1>1. /\ trs \in Seq(ToSet(trs)) /\ times \in Seq(ToSet(times))
      /\ \A i, j \in DOMAIN trs : trs[i].line = trs[j].line => i = j
      /\ \A i, j \in DOMAIN times : times[i].line = times[j].line => i = j
  BY RowsAre
<1>2. \A i \in DOMAIN trs : {"id", "line", "fault"} \subseteq DOMAIN trs[i]
  BY RowsAre
<1>3. \A i \in DOMAIN times : times[i].seq \in Int
  BY RowsAre
<1>4. \A i, j \in DOMAIN times : times[i] = times[j] => i = j
  BY <1>1
<1>5. \A i \in DOMAIN times : times[i].trip # NoId
  BY DEF HasBlankTimes, ToSet
<1> HIDE DEF trs, times
<1>6. Readable(trs, times)
  BY <1>1, <1>2, <1>3, <1>4, <1>5 DEF Readable, Sequenced
<1> QED BY <1>6 DEF trs, times

\* The entries of the trips come up in the order in which stop_times.txt names them.
LEMMA InOrderOfTrips ==
  ASSUME NEW trs, NEW times, Readable(trs, times), NEW i \in DOMAIN Order(times)
  PROVE  LET order == Order(times)  out == TripsWithStopTimes(trs, times) IN
         /\ Cardinality(At(out, order[i])) = 1
         /\ \A k \in At(out, order[i]) : CarriesItsTimes(trs, times, order[i], out[k])
         /\ \A j \in 1..(i - 1) : \A k \in At(out, order[i]), l \in At(out, order[j]) : l < k
<1> PICK order, out : order = Order(times) /\ out = TripsWithStopTimes(trs, times)
  OBVIOUS
<1>1. Len(order) \in Nat /\ DOMAIN order = 1..Len(order) /\ i \in 1..Len(order)
  BY OrderMembers DEF Readable
<1>2. \A m \in 1..Len(order) : /\ At(out, order[m]) = {From(trs, times, m) + 1}
                               /\ CarriesItsTimes(trs, times, order[m], out[From(trs, times, m) + 1])
  BY TripsComeUp
<1>3. \A m \in 1..Len(order) : /\ From(trs, times, m) \in Nat
                               /\ \A j \in 1..(m - 1) : From(trs, times, j) + 1 <= From(trs, times, m)
  BY OutIs
<1>4. Cardinality(At(out, order[i])) = 1
  BY <1>1, <1>2, FS_Singleton
<1>5. \A k \in At(out, order[i]) : CarriesItsTimes(trs, times, order[i], out[k])
  BY <1>1, <1>2
<1>6. ASSUME NEW j \in 1..(i - 1), NEW k \in At(out, order[i]), NEW l \in At(out, order[j]) PROVE l < k
  <2>1. j \in 1..Len(order)
    BY <1>1
  <2>2. k = From(trs, times, i) + 1 /\ l = From(trs, times, j) + 1
    BY <1>1, <1>2, <2>1
  <2>3. From(trs, times, i) \in Nat /\ From(trs, times, j) \in Nat /\ From(trs, times, j) + 1 <= From(trs, times, i)
    BY <1>1, <1>3, <2>1
  <2> QED BY <2>2, <2>3
<1> QED BY <1>4, <1>5, <1>6

\* The contract, for any file that can be read.
LEMMA ReaderContractOf ==
  ASSUME NEW trs, NEW times, Readable(trs, times)
  PROVE  LET out == TripsWithStopTimes(trs, times)  order == Order(times) IN
         /\ Grouped(times) => streamTripStopTimes(trs, times) = chunkTripStopTimes(trs, times)
         /\ (\A i \in DOMAIN order : Count(times, order[i]) <= ChunkSize)
              => \A other \in genericTripsWithStopTimes(trs, times) : ToSet(other) = ToSet(out)
<1> PICK order, out : order = Order(times) /\ out = TripsWithStopTimes(trs, times)
  OBVIOUS
<1>1. Grouped(times) => streamTripStopTimes(trs, times) = chunkTripStopTimes(trs, times)
  BY StreamPass, ChunkPass
<1>2. ASSUME \A i \in DOMAIN order : Count(times, order[i]) <= ChunkSize,
             NEW other \in genericTripsWithStopTimes(trs, times)
      PROVE  ToSet(other) = ToSet(out)
  <2>1. DOMAIN order = 1..Len(order) /\ \A t \in TripIds(times) : \E m \in 1..Len(order) : order[m] = t
    <3>1. times \in Seq(ToSet(times))
      BY DEF Readable
    <3>2. DOMAIN Order(times) = 1..Len(Order(times))
          /\ \A t \in TripIds(times) : \E m \in 1..Len(Order(times)) : Order(times)[m] = t
      BY <3>1, OrderMembers
    <3> QED BY <3>2
  <2>2. \A t \in TripIds(times) : Count(times, t) <= ChunkSize
    BY <1>2, <2>1
  <2> QED BY <1>2, <2>2, GenericIsThePass
<1> QED BY <1>1, <1>2

(* What the copier asks of a reader: both passes of the CSV reader, and the    *)
(* fallback, give it for every feed in which every row has a trip_id.        *)
THEOREM ReaderContract == CopySpec => []ReaderKeepsContract
<1>1. ASSUME feed \in Feed PROVE ReaderKeepsContract
  <2> SUFFICES ASSUME ~HasBlankTimes
               PROVE  LET rows == Rows("trips")  times == Rows("stop_times")
                          out == TripsWithStopTimes(rows, times)  order == Order(times) IN
                      /\ YieldsEachTripOnce(rows, out)
                      /\ \A i \in DOMAIN order :
                           /\ Cardinality(At(out, order[i])) = 1
                           /\ \A k \in At(out, order[i]) : CarriesItsTimes(rows, times, order[i], out[k])
                           /\ \A j \in 1..(i - 1) : \A k \in At(out, order[i]), l \in At(out, order[j]) : l < k
                      /\ Grouped(times) => streamTripStopTimes(rows, times) = chunkTripStopTimes(rows, times)
                      /\ (\A i \in DOMAIN order : Count(times, order[i]) <= ChunkSize)
                           => \A other \in genericTripsWithStopTimes(rows, times) : ToSet(other) = ToSet(out)
    BY DEF ReaderKeepsContract
  <2>1. PICK rows, times : rows = Rows("trips") /\ times = Rows("stop_times")
    OBVIOUS
  <2>2. Readable(rows, times)
    BY <1>1, <2>1, FeedReadable
  <2>3. YieldsEachTripOnce(rows, TripsWithStopTimes(rows, times))
    BY <2>2, EachTripOnce
  <2> QED BY <2>1, <2>2, <2>3, InOrderOfTrips, ReaderContractOf
<1> QED BY <1>1, FeedIsAFeed, PTL

-----------------------------------------------------------------------------
(***************************************************************************)
(* The copy that an import makes (module Copier), for every feed, all       *)
(* options and all sizes of a batch.                                       *)
(***************************************************************************)

(* What a set of rows provides, apart from the generated calendars.         *)
KeysOf(R) == UNION {Keys(r) \cup CompatKeys(r) : r \in R}
KnownServices ==
  IF opt.normalizeServices THEN {} ELSE {Key(r) : r \in ToSet(GeneratedCalendars)}

Strict == ~opt.allowErrors \/ ~opt.allowReferences

(* The entity map knows nothing that the writer has not got; and in its     *)
(* phase the source is what calendar_dates.txt alone knows.                 *)
RefInv ==
  /\ emap \subseteq Provided
  /\ NoDanglingReferences
  /\ Phases[phase] = "generated" => src \in {<<>>, GeneratedCalendars}

LEMMA ProvidedParts == Provided = KeysOf(written) \cup KnownServices
  BY DEF Provided, KeysOf, KnownServices

(* Nobody changes the feed or the options. *)
LEMMA SameFeed ==
  ASSUME UNCHANGED <<feed, opt>>
  PROVE  /\ GeneratedCalendars' = GeneratedCalendars
         /\ KnownServices' = KnownServices
         /\ KeysOf(written)' = KeysOf(written')
         /\ Strict' = Strict
  <1>1. feed' = feed /\ opt' = opt
    OBVIOUS
  <1>2. GeneratedCalendars' = GeneratedCalendars
    BY <1>1, Zenon DEF GeneratedCalendars, Rows
  <1>3. KnownServices' = KnownServices
    BY <1>1, <1>2, Zenon DEF KnownServices
  <1>4. KeysOf(written)' = KeysOf(written')
    BY <1>1, Zenon DEF KeysOf, CompatKeys
  <1>5. Strict' = Strict
    BY <1>1 DEF Strict
  <1> QED BY <1>2, <1>3, <1>4, <1>5

(* Strict options accept no row whose references the entity map lacks.       *)
LEMMA AcceptedIsSafe ==
  ASSUME Strict, NEW group, NEW i \in Passed(group)
  PROVE  group[i].refs \subseteq emap
  <1>1. Outcome(group, i) = "ok"
    BY DEF Passed
  <1>2. RefErrors(group[i]) = {}
    BY <1>1 DEF Outcome, Strict
  <1> QED BY <1>2 DEF RefErrors

(* What the writer has got provides more with every row. *)
LEMMA ProvidedNext ==
  ASSUME UNCHANGED <<feed, opt>>
  PROVE  Provided' = KeysOf(written') \cup KnownServices
  <1>1. Provided' = (KeysOf(written) \cup KnownServices)'
    BY DEF Provided, KeysOf, KnownServices
  <1> QED BY <1>1, SameFeed

LEMMA ProvidedGrows ==
  ASSUME UNCHANGED <<feed, opt>>, written \subseteq written'
  PROVE  Provided \subseteq Provided'
  <1>1. KeysOf(written) \subseteq KeysOf(written')
    BY DEF KeysOf
  <1> QED BY <1>1, ProvidedNext, ProvidedParts

(* The first two parts of the invariant. *)
Referential == emap \subseteq Provided /\ NoDanglingReferences

(* A group that is checked and written. *)
LEMMA WriteKeepsReferences ==
  ASSUME Referential, UNCHANGED <<feed, opt>>, NEW group, CheckAndWrite(group)
  PROVE  Referential'
  <1> DEFINE new == {group[i] : i \in Passed(group)}
  <1>1. written' = written \cup new /\ emap' = emap \cup KeysOf(new)
    BY DEF CheckAndWrite, KeysOf
  <1>2. Provided \subseteq Provided'
    BY <1>1, ProvidedGrows
  <1>3. KeysOf(new) \subseteq Provided'
    BY <1>1, ProvidedNext DEF KeysOf
  <1>4. emap' \subseteq Provided'
    BY <1>1, <1>2, <1>3 DEF Referential
  <1>5. ASSUME Strict, NEW row \in written' PROVE row.refs \subseteq Provided'
    <2>1. CASE row \in written
      BY <1>2, <1>5, <2>1 DEF Referential, NoDanglingReferences, Strict
    <2>2. CASE row \in new
      BY <1>2, <1>5, <2>2, AcceptedIsSafe DEF Referential
    <2> QED BY <1>1, <2>1, <2>2
  <1>6. NoDanglingReferences'
    BY <1>5, SameFeed DEF NoDanglingReferences, Strict
  <1> QED BY <1>4, <1>6 DEF Referential

(* A group the writer does not take, and every step that writes nothing.     *)
LEMMA NothingWritten ==
  ASSUME Referential, UNCHANGED <<feed, opt, written>>, emap' \subseteq emap \cup KnownServices
  PROVE  Referential'
  <1>1. Provided' = Provided
    BY ProvidedNext, ProvidedParts
  <1>2. emap' \subseteq Provided'
    BY <1>1, ProvidedParts DEF Referential
  <1>3. NoDanglingReferences'
    BY <1>1, SameFeed DEF Referential, NoDanglingReferences, Strict
  <1> QED BY <1>2, <1>3 DEF Referential

LEMMA RefInit == CopyInit => RefInv
  BY DEF CopyInit, RefInv, NoDanglingReferences

LEMMA RefStep == RefInv /\ [CopyNext]_copyVars => RefInv'
  <1> SUFFICES ASSUME RefInv, [CopyNext]_copyVars PROVE RefInv'
    OBVIOUS
  <1> DEFINE Sourced == Phases[phase] = "generated" => src \in {<<>>, GeneratedCalendars}
  <1>r. Referential /\ Sourced
    BY DEF RefInv, Referential
  <1>same. UNCHANGED <<feed, opt>>
    BY DEF CopyNext, copyVars, progress, patterns, NextPhase, TakeBatch,
         TakeGenerated, TakeTrips,
           AssignTrip, AssignOther, WriteTrips, WriteGroup, WriterFails,
                EndGroups
  <1>src. ASSUME UNCHANGED <<phase, src>> PROVE Sourced'
    BY <1>r, <1>same, <1>src, SameFeed
  <1> HIDE DEF Sourced
  <1>1. CASE NextPhase
    <2>1. Referential'
      BY <1>1, <1>r, <1>same, NothingWritten DEF NextPhase
    <2>2. Sourced'
      <3>1. CASE UNCHANGED <<phase, src>>
        BY <3>1, <1>src
      <3>2. CASE phase' = phase + 1 /\ src' \in Source(Phases[phase + 1])
        BY <3>2, <1>same, SameFeed DEF Source, Sourced
      <3> QED BY <1>1, <3>1, <3>2 DEF NextPhase
    <2> QED BY <2>1, <2>2 DEF RefInv, Referential, Sourced
  <1>2. CASE TakeBatch
    <2>1. Referential'
      BY <1>2, <1>r, <1>same, NothingWritten DEF TakeBatch
    <2>2. Sourced'
      BY <1>2 DEF TakeBatch, Sourced
    <2> QED BY <2>1, <2>2 DEF RefInv, Referential, Sourced
  <1>3. CASE TakeGenerated
    <2>1. src = GeneratedCalendars
      BY <1>3, <1>r DEF TakeGenerated, Sourced
    <2>2. emap' \subseteq emap \cup KnownServices
      <3>1. CASE opt.normalizeServices
        BY <1>3, <3>1 DEF TakeGenerated
      <3>2. CASE ~opt.normalizeServices
        <4>1. emap' = emap \cup {Key(src[i]) : i \in DOMAIN src}
          BY <1>3, <3>2 DEF TakeGenerated
        <4> QED BY <4>1, <3>2, <2>1 DEF KnownServices, ToSet
      <3> QED BY <3>1, <3>2
    <2>3. Referential'
      BY <1>3, <1>r, <1>same, <2>2, NothingWritten DEF TakeGenerated
    <2>4. Sourced'
      BY <1>3 DEF TakeGenerated, Sourced
    <2> QED BY <2>3, <2>4 DEF RefInv, Referential, Sourced
  <1>4. CASE TakeTrips
    <2>1. Referential'
      BY <1>4, <1>r, <1>same, NothingWritten DEF TakeTrips
    <2>2. Sourced'
      BY <1>4 DEF TakeTrips, Sourced
    <2> QED BY <2>1, <2>2 DEF RefInv, Referential, Sourced
  <1>5. CASE AssignTrip
    <2>1. CASE UNCHANGED <<written, emap>>
      <3>1. Referential'
        BY <2>1, <1>r, <1>same, NothingWritten
      <3> QED BY <3>1, <1>5, <1>src DEF AssignTrip, RefInv, Referential, Sourced
    <2>2. CASE \E second : \E n : CheckAndWrite(<<GeneratedShape(n, second)>>)
      <3>1. Referential'
        BY <2>2, <1>r, <1>same, WriteKeepsReferences
      <3> QED BY <3>1, <1>5, <1>src DEF AssignTrip, RefInv, Referential, Sourced
    <2> QED BY <1>5, <2>1, <2>2 DEF AssignTrip, CheckAndFail
  <1>6. CASE WriteGroup
    <2>1. Referential'
      BY <1>6, <1>r, <1>same, WriteKeepsReferences DEF WriteGroup
    <2> QED BY <2>1, <1>6, <1>src DEF WriteGroup, RefInv, Referential, Sourced
  <1>7. CASE AssignOther \/ WriteTrips \/ WriterFails \/ EndGroups \/ UNCHANGED copyVars
    <2>1. UNCHANGED <<phase, src, written, emap>>
      BY <1>7 DEF AssignOther, WriteTrips, WriterFails, EndGroups, CheckAndFail,
           copyVars, progress
    <2>2. Referential'
      BY <2>1, <1>r, <1>same, NothingWritten
    <2> QED BY <2>1, <2>2, <1>src DEF RefInv, Referential, Sourced
  <1> QED BY <1>1, <1>2, <1>3, <1>4, <1>5, <1>6, <1>7 DEF CopyNext

(* Whatever is left out on the way, a row that was written refers only to    *)
(* what was written, unless both checks are switched off: for every feed,    *)
(* however its files, batches and groups are cut, and wherever the writer    *)
(* fails.                                                                   *)
THEOREM ReferencesHold == CopySpec => []NoDanglingReferences
  <1>1. CopySpec => []RefInv
    BY RefInit, RefStep, PTL DEF CopySpec
  <1>2. RefInv => NoDanglingReferences
    BY DEF RefInv
  <1> QED BY <1>1, <1>2, PTL

-----------------------------------------------------------------------------
(* Rows on their way. *)
RowsOf(groups) == UNION {ToSet(groups[g]) : g \in DOMAIN groups}

\* What is one of two parts of a sequence.
LEMMA PartsOfSeq ==
  ASSUME NEW X, NEW s \in Seq(X), NEW n \in 0..Len(s)
  PROVE  /\ SubSeq(s, 1, n) \in Seq(X) /\ SubSeq(s, n + 1, Len(s)) \in Seq(X)
         /\ Len(SubSeq(s, 1, n)) = n
         /\ SubSeq(s, 1, n) \o SubSeq(s, n + 1, Len(s)) = s
<1>0. Len(s) \in Nat /\ n \in Int /\ \A i \in 1..Len(s) : s[i] \in X
  OBVIOUS
<1>1. SubSeq(s, 1, n) \in Seq(X) /\ Len(SubSeq(s, 1, n)) = n
  BY <1>0, SubSeqProperties
<1>2. SubSeq(s, n + 1, Len(s)) \in Seq(X)
  BY <1>0, SubSeqProperties
<1>3. SubSeq(s, 1, n) \o SubSeq(s, n + 1, Len(s)) = SubSeq(s, 1, Len(s))
  <2>1. 1 \in 1..(Len(s) + 1) /\ n \in (1 - 1)..Len(s) /\ Len(s) \in n..Len(s)
    BY <1>0
  <2> QED BY <2>1, ConcatAdjacentSubSeq
<1>4. SubSeq(s, 1, Len(s)) = s
  BY SubSeqFull
<1> QED BY <1>1, <1>2, <1>3, <1>4

\* The last number of a set that is not beyond a bound.
LEMMA LastNumber ==
  ASSUME NEW S, S \subseteq Nat, NEW i \in Nat, NEW x \in S, x <= i
  PROVE  \E b \in S : b <= i /\ \A y \in S : y <= i => y <= b
<1> DEFINE T == {i - y : y \in {y \in S : y <= i}}
<1>1. T \subseteq Nat /\ i - x \in T
  OBVIOUS
<1>2. PICK m \in T : \A z \in T : m <= z
  BY <1>1, SmallestNumber
<1>3. PICK b \in S : b <= i /\ m = i - b
  BY <1>2
<1>4. ASSUME NEW y \in S, y <= i PROVE y <= b
  <2>1. i - b <= i - y
    BY <1>2, <1>3, <1>4
  <2> QED BY <2>1, <1>3, <1>4
<1> QED BY <1>3, <1>4

\* The groups of one file hold the rows, and no others.
LEMMA GroupsCover ==
  ASSUME NEW X, NEW rows \in Seq(X)
  PROVE  GroupsOf(rows) \in Seq(Seq(X)) /\ RowsOf(GroupsOf(rows)) = ToSet(rows)
<1> DEFINE begins == {i \in DOMAIN rows : i = 1 \/ rows[i - 1].file # rows[i].file}
           n == Cardinality(begins)
           at == InOrder(begins)
           End(g) == IF g = Cardinality(begins) THEN Len(rows) ELSE at[g + 1] - 1
           groups == [g \in 1..n |-> SubSeq(rows, at[g], End(g))]
<1>1. Len(rows) \in Nat /\ DOMAIN rows = 1..Len(rows) /\ \A i \in 1..Len(rows) : rows[i] \in X
  OBVIOUS
<1>2. GroupsOf(rows) = groups
  BY Zenon DEF GroupsOf
<1>3. begins \subseteq 1..Len(rows) /\ (1 <= Len(rows) => 1 \in begins)
  BY <1>1
<1> HIDE DEF begins
<1>4. IsFiniteSet(begins) /\ begins \subseteq Nat /\ n \in Nat
  <2>1. IsFiniteSet(1..Len(rows))
    BY <1>1, FS_Interval
  <2>2. IsFiniteSet(begins)
    BY <2>1, <1>3, FS_Subset
  <2> QED BY <2>2, <1>3, FS_CardinalityType
<1>5. /\ \A g \in 1..n : at[g] \in begins
      /\ \A g, h \in 1..n : g < h <=> at[g] < at[h]
      /\ \A x \in begins : \E g \in 1..n : at[g] = x
  BY <1>4, InOrderIs
<1> HIDE DEF at, n
<1>6. ASSUME NEW g \in 1..n
      PROVE  /\ at[g] \in 1..Len(rows) /\ End(g) \in 1..Len(rows) /\ at[g] <= End(g)
             /\ groups[g] \in Seq(X)
             /\ \A i \in 1..Len(groups[g]) : groups[g][i] \in ToSet(rows)
             /\ \A i \in at[g]..End(g) : rows[i] \in ToSet(groups[g])
  <2>1. at[g] \in 1..Len(rows)
    BY <1>3, <1>5
  <2>2. End(g) \in 1..Len(rows) /\ at[g] <= End(g)
    <3>1. CASE g = n
      BY <1>1, <2>1, <3>1 DEF n
    <3>2. CASE g # n
      <4>1. g + 1 \in 1..n /\ g < g + 1
        BY <1>4, <3>2
      <4>2. at[g + 1] \in 1..Len(rows) /\ at[g] < at[g + 1]
        BY <4>1, <1>3, <1>5
      <4>3. End(g) = at[g + 1] - 1
        BY <3>2 DEF n
      <4> QED BY <2>1, <4>2, <4>3, <1>1
    <3> QED BY <3>1, <3>2
  <2> PICK a, e : a = at[g] /\ e = End(g)
    OBVIOUS
  <2> HIDE DEF End
  <2>3. groups[g] = SubSeq(rows, a, e)
    OBVIOUS
  <2>4. /\ SubSeq(rows, a, e) \in Seq(X) /\ Len(SubSeq(rows, a, e)) = e - a + 1
        /\ \A i \in 1..(e - a + 1) : SubSeq(rows, a, e)[i] = rows[a + i - 1]
    BY <1>1, <2>1, <2>2, SubSeqProperties, SMTT(30)
  <2>5. \A i \in 1..Len(groups[g]) : groups[g][i] \in ToSet(rows)
    BY <1>1, <2>1, <2>2, <2>3, <2>4, SMTT(30) DEF ToSet
  <2>6. ASSUME NEW i \in a..e PROVE rows[i] \in ToSet(groups[g])
    <3>1. i - a + 1 \in 1..(e - a + 1) /\ a + (i - a + 1) - 1 = i
      BY <1>1, <2>1, <2>2
    <3>2. groups[g][i - a + 1] = rows[i] /\ i - a + 1 \in DOMAIN groups[g]
      BY <2>3, <2>4, <3>1, SMTT(30)
    <3> QED BY <3>2 DEF ToSet
  <2> QED BY <2>1, <2>2, <2>3, <2>4, <2>5, <2>6
<1>7. groups \in Seq(Seq(X)) /\ DOMAIN groups = 1..n
  <2>1. groups = [g \in 1..n |-> groups[g]]
    OBVIOUS
  <2>2. \A g \in 1..n : groups[g] \in Seq(X)
    BY <1>6
  <2> HIDE DEF groups
  <2> QED BY <1>4, <2>1, <2>2
<1>8. ASSUME NEW i \in DOMAIN rows PROVE \E g \in 1..n : i \in at[g]..End(g)
  <2>0. i \in Nat /\ 1 \in begins /\ 1 <= i
    BY <1>1, <1>3
  <2>1. PICK b \in begins : b <= i /\ \A y \in begins : y <= i => y <= b
    BY <2>0, <1>4, LastNumber
  <2>2. PICK g \in 1..n : at[g] = b
    BY <1>5, <2>1
  <2>3. i <= End(g)
    <3>1. CASE g = n
      BY <1>1, <3>1 DEF n
    <3>2. CASE g # n
      <4>1. g + 1 \in 1..n /\ g < g + 1
        BY <1>4, <3>2
      <4>2. at[g + 1] \in 1..Len(rows) /\ at[g] < at[g + 1] /\ at[g + 1] \in begins
        BY <4>1, <1>3, <1>5
      <4>3. ~(at[g + 1] <= i)
        BY <2>1, <2>2, <4>2, <1>4
      <4>4. End(g) = at[g + 1] - 1
        BY <3>2 DEF n
      <4> QED BY <4>2, <4>3, <4>4, <1>1
    <3> QED BY <3>1, <3>2
  <2>4. End(g) \in 1..Len(rows) /\ at[g] \in 1..Len(rows)
    BY <1>6
  <2> QED BY <2>1, <2>2, <2>3, <2>4, <1>1
<1> HIDE DEF groups, End
<1>9. RowsOf(groups) = ToSet(rows)
  <2>1. ASSUME NEW w \in RowsOf(groups) PROVE w \in ToSet(rows)
    <3>1. PICK g \in 1..n : w \in ToSet(groups[g])
      BY <1>7 DEF RowsOf
    <3>2. groups[g] \in Seq(X)
      BY <1>6
    <3>3. PICK i \in 1..Len(groups[g]) : w = groups[g][i]
      BY <3>1, <3>2 DEF ToSet
    <3> QED BY <1>6, <3>3
  <2>2. ASSUME NEW w \in ToSet(rows) PROVE w \in RowsOf(groups)
    <3>1. PICK i \in DOMAIN rows : w = rows[i]
      BY <2>2 DEF ToSet
    <3>2. PICK g \in 1..n : i \in at[g]..End(g)
      BY <1>8
    <3>3. w \in ToSet(groups[g])
      BY <1>6, <3>1, <3>2
    <3> QED BY <1>7, <3>3 DEF RowsOf
  <2> QED BY <2>1, <2>2
<1> QED BY <1>2, <1>7, <1>9

Linked(a, n, c, e) == e \in Seq({a, c} \cup ToSet(n)) /\ ToSet(e) = {a, c} \cup ToSet(n)

LEMMA LinksAre ==
  ASSUME NEW a, NEW n, NEW c, n = <<>> \/ \E b : n = <<b>>, NEW e, e = <<a>> \o n \o <<c>>
  PROVE  Linked(a, n, c, e)
<1> DEFINE X == {a, c} \cup ToSet(n)
<1>1. <<a>> \in Seq(X) /\ <<c>> \in Seq(X)
  OBVIOUS
<1>2. n \in Seq(X)
  <2>1. CASE n = <<>>
    BY <2>1
  <2>2. CASE \E b : n = <<b>>
    <3>1. PICK b : n = <<b>>
      BY <2>2
    <3>2. b \in ToSet(n)
      BY <3>1 DEF ToSet
    <3> QED BY <3>1, <3>2
  <2> QED BY <2>1, <2>2
<1>3. ToSet(<<a>>) = {a} /\ ToSet(<<c>>) = {c}
  BY DEF ToSet
<1> HIDE DEF X
<1>4. PICK x, z : x = <<a>> /\ z = <<c>>
  OBVIOUS
<1>5. x \o n \in Seq(X) /\ ToSet(x \o n) = {a} \cup ToSet(n)
  <2>1. x \in Seq(X) /\ ToSet(x) = {a}
    BY <1>1, <1>3, <1>4
  <2> QED BY <1>2, <2>1, ConcatMembers
<1>6. PICK y : y = x \o n
  OBVIOUS
<1>7. y \o z \in Seq(X) /\ ToSet(y \o z) = {a} \cup ToSet(n) \cup {c}
  <2>1. z \in Seq(X) /\ ToSet(z) = {c}
    BY <1>1, <1>3, <1>4
  <2>2. y \in Seq(X) /\ ToSet(y) = {a} \cup ToSet(n)
    BY <1>5, <1>6
  <2> QED BY <2>1, <2>2, ConcatMembers
<1>8. <<a>> \o n \o <<c>> = y \o z
  BY <1>4, <1>6, Zenon
<1>9. e \in Seq(X) /\ ToSet(e) = {a} \cup ToSet(n) \cup {c}
  BY <1>7, <1>8
<1> QED BY <1>9 DEF X, Linked

\* Rows that link a route to its network.
IsLink(w) == w.file \in {"networks.txt", "route_networks.txt"} /\ w.groups = {}

\* What becomes of rows before they are checked.
Expanded(rows) == UNION {ToSet(Expand(rows[i])) : i \in DOMAIN rows}

LEMMA ExpandIs ==
  ASSUME NEW row
  PROVE  /\ Expand(row) \in Seq(ToSet(Expand(row)))
         /\ row \in ToSet(Expand(row))
         /\ \A w \in ToSet(Expand(row)) : w = row \/ IsLink(w)
<1> DEFINE net == NewRow("networks.txt", row.net, {}, row)
           link == NewRow("route_networks.txt", NoId, {Key(row), <<"networks.txt", row.net>>}, row)
<1>1. IsLink(net) /\ IsLink(link)
  BY DEF NewRow, IsLink
<1> HIDE DEF net, link
<1>2. \/ Expand(row) = <<row>>
      \/ Expand(row) = <<row>> \o <<>> \o <<link>>
      \/ Expand(row) = <<row>> \o <<net>> \o <<link>>
  BY DEF Expand, net, link
<1>3. CASE Expand(row) = <<row>>
  BY <1>3 DEF ToSet
<1>4. CASE Expand(row) = <<row>> \o <<>> \o <<link>>
  <2>1. PICK n : n = <<>> /\ ToSet(n) = {}
    BY DEF ToSet
  <2>2. PICK e : e = Expand(row) /\ e = <<row>> \o n \o <<link>>
    BY <1>4, <2>1, Zenon
  <2>3. n = <<>> \/ \E b : n = <<b>>
    BY <2>1
  <2>4. Linked(row, n, link, e)
    BY <2>2, <2>3, LinksAre, Zenon
  <2> QED BY <1>1, <2>1, <2>2, <2>4 DEF Linked
<1>5. CASE Expand(row) = <<row>> \o <<net>> \o <<link>>
  <2>0. PICK n : n = <<net>>
    OBVIOUS
  <2>1. n = <<net>> /\ ToSet(n) = {net}
    BY <2>0 DEF ToSet
  <2>2. PICK e : e = Expand(row) /\ e = <<row>> \o n \o <<link>>
    BY <1>5, <2>1, Zenon
  <2>3. n = <<>> \/ \E b : n = <<b>>
    BY <2>1
  <2>4. Linked(row, n, link, e)
    BY <2>2, <2>3, LinksAre, Zenon
  <2> QED BY <1>1, <2>1, <2>2, <2>4 DEF Linked
<1> QED BY <1>2, <1>3, <1>4, <1>5

\* All of it is to be written.
LEMMA CopyEntitiesIs ==
  ASSUME NEW X, NEW rows \in Seq(X), copyEntities(rows)
  PROVE  /\ todo' \in Seq(Seq(Expanded(rows))) /\ RowsOf(todo') = Expanded(rows)
         /\ ok' = <<>>
         /\ ToSet(rows) \subseteq Expanded(rows)
         /\ \A w \in Expanded(rows) : w \in ToSet(rows) \/ IsLink(w)
<1> DEFINE E == Expanded(rows)
           parts == [i \in DOMAIN rows |-> Expand(rows[i])]
<1>1. \A i \in DOMAIN rows : /\ Expand(rows[i]) \in Seq(ToSet(Expand(rows[i])))
                             /\ ToSet(Expand(rows[i])) \subseteq E
                             /\ rows[i] \in ToSet(Expand(rows[i]))
                             /\ \A w \in ToSet(Expand(rows[i])) : w = rows[i] \/ IsLink(w)
  BY ExpandIs DEF Expanded
<1>2. \A i \in DOMAIN rows : Expand(rows[i]) \in Seq(E)
  BY <1>1
<1>3. parts \in Seq(Seq(E)) /\ DOMAIN parts = DOMAIN rows
  BY <1>2
<1>4. FlattenSeq(parts) \in Seq(E) /\ ToSet(FlattenSeq(parts)) = E
  <2>1. \A i \in DOMAIN rows : parts[i] = Expand(rows[i])
    OBVIOUS
  <2> HIDE DEF parts
  <2>2. FlattenSeq(parts) \in Seq(E) /\ ToSet(FlattenSeq(parts)) = UNION {ToSet(parts[i]) : i \in DOMAIN parts}
    BY <1>3, FlattenMembers
  <2>3. UNION {ToSet(parts[i]) : i \in DOMAIN parts} = E
    BY <2>1, <1>3 DEF Expanded
  <2> QED BY <2>2, <2>3
<1>5. todo' = GroupsOf(FlattenSeq(parts)) /\ ok' = <<>>
  BY DEF copyEntities
<1> HIDE DEF parts, E
<1>6. todo' \in Seq(Seq(E)) /\ RowsOf(todo') = E
  BY <1>4, <1>5, GroupsCover
<1>7. ToSet(rows) \subseteq E
  BY <1>1 DEF ToSet, E
<1>8. \A w \in E : w \in ToSet(rows) \/ IsLink(w)
  <2>1. \A w \in E : \E i \in DOMAIN rows : w \in ToSet(Expand(rows[i]))
    BY DEF E, Expanded
  <2> QED BY <1>1, <2>1 DEF ToSet
<1> QED BY <1>5, <1>6, <1>7, <1>8 DEF E

(* What a reader yields for a batch: no trip has its stop_times twice. *)
Timely(e) == e.valid /\ e.times # <<>>
OwnTimesOnly(e) == e.valid => \A i \in DOMAIN e.times : e.times[i].trip = e.trip.id
OncePerTrip(q) ==
  \A k, l \in DOMAIN q : Timely(q[k]) /\ Timely(q[l]) /\ q[k].trip.id = q[l].trip.id => k = l
Entries(trs, times, q) ==
  /\ q \in Seq(EntrySet(trs, times))
  /\ \A k \in DOMAIN q : OwnTimesOnly(q[k])
  /\ OncePerTrip(q)

LEMMA JoinedIs ==
  ASSUME NEW r, NEW s
  PROVE  /\ Joined(r, s).valid /\ Joined(r, s).trip = r /\ Joined(r, s).times = s
         /\ ~Orphan(s).valid /\ Orphan(s).times = s
BY DEF Joined, Orphan

\* A row of trips.txt, with or without the error of a trip that is cut off.
LEMMA TripRowIs ==
  ASSUME NEW trs, NEW times, Readable(trs, times), NEW r \in TripRow(trs)
  PROVE  \E s \in ToSet(trs) : /\ r.id = s.id /\ r.line = s.line /\ (r = s \/ r = Limited(s))
<1>1. CASE r \in ToSet(trs)
  BY <1>1
<1>2. CASE \E s \in ToSet(trs) : r = Limited(s)
  BY <1>2, RowLines
<1> QED BY <1>1, <1>2 DEF TripRow

LEMMA EntryIs ==
  ASSUME NEW trs, NEW times, NEW e \in EntrySet(trs, times)
  PROVE  /\ e.times \in Seq(ToSet(times)) /\ e.valid \in BOOLEAN
         /\ e.valid => e.trip \in TripRow(trs)
<1>1. CASE \E r \in TripRow(trs), s \in Seq(ToSet(times)) : e = Joined(r, s)
  BY <1>1, JoinedIs DEF Joined
<1>2. CASE \E s \in Seq(ToSet(times)) : e = Orphan(s)
  BY <1>2, JoinedIs DEF Orphan
<1> QED BY <1>1, <1>2 DEF EntrySet

\* More entries without stop_times change nothing.
LEMMA MoreEntries ==
  ASSUME NEW trs, NEW times, NEW q, Entries(trs, times, q), NEW b \in Seq(EntrySet(trs, times)),
         \A k \in DOMAIN b : b[k].times = <<>>
  PROVE  Entries(trs, times, q \o b)
<1> PICK E, c : E = EntrySet(trs, times) /\ c = q \o b
  OBVIOUS
<1>1. q \in Seq(E) /\ b \in Seq(E)
  BY DEF Entries
<1>2. /\ c \in Seq(E) /\ Len(q) \in Nat /\ Len(b) \in Nat /\ DOMAIN c = 1..(Len(q) + Len(b))
      /\ DOMAIN q = 1..Len(q) /\ DOMAIN b = 1..Len(b)
      /\ \A k \in 1..(Len(q) + Len(b)) : c[k] = IF k <= Len(q) THEN q[k] ELSE b[k - Len(q)]
  BY <1>1
<1>3. \A k \in DOMAIN c : (k \in DOMAIN q /\ c[k] = q[k]) \/ c[k].times = <<>>
  <2> TAKE k \in DOMAIN c
  <2>1. CASE k <= Len(q)
    BY <1>2, <2>1
  <2>2. CASE ~(k <= Len(q))
    <3>1. k - Len(q) \in DOMAIN b /\ c[k] = b[k - Len(q)]
      BY <1>2, <2>2
    <3> QED BY <3>1
  <2> QED BY <2>1, <2>2
<1>4. \A k \in DOMAIN c : OwnTimesOnly(c[k])
  BY <1>3 DEF Entries, OwnTimesOnly
<1>5. OncePerTrip(c)
  BY <1>3 DEF Entries, OncePerTrip, Timely
<1> QED BY <1>2, <1>4, <1>5 DEF Entries

\* The passes of the CSV reader.
LEMMA ReadEntries ==
  ASSUME NEW trs, NEW times, Readable(trs, times)
  PROVE  Entries(trs, times, TripsWithStopTimes(trs, times))
<1> PICK order, out, alone, n, pass, E :
      /\ order = Order(times) /\ out = TripsWithStopTimes(trs, times) /\ alone = Alone(trs, times)
      /\ n = Len(order) /\ pass = PassLen(trs, times) /\ E = EntrySet(trs, times)
  OBVIOUS
<1>1. OutShape(trs, times, out, order, alone, n, pass)
  BY OutShaped
<1>2. out \in Seq(E)
  <2>1. PICK p, a : p = Pass(trs, times) /\ a = [i \in DOMAIN alone |-> Joined(alone[i], <<>>)]
    OBVIOUS
  <2>2. out = p \o a
    BY <2>1, ReaderPass, Zenon DEF Alone
  <2>3. p \in Seq(E)
    <3>1. order \in Seq(TripIds(times))
      BY OrderMembers DEF Readable
    <3>2. EmitsEach(trs, times, order)
      BY <3>1, EmitAllType, Zenon
    <3>3. EmitAll(trs, times, order) \in Seq(Seq(E))
      BY <3>2 DEF EmitsEach
    <3> QED BY <2>1, <3>3, FlattenMembers DEF Pass
  <2>4. a \in Seq(E)
    <3>1. trs \in Seq(ToSet(trs)) /\ {i \in DOMAIN trs : Count(times, trs[i].id) = 0} \in SUBSET DOMAIN trs
      BY DEF Readable
    <3>2. alone \in Seq(ToSet(trs))
      BY <3>1, RowsAtIs DEF Alone
    <3>3. DOMAIN alone = 1..Len(alone) /\ Len(alone) \in Nat /\ \A i \in DOMAIN alone : alone[i] \in ToSet(trs)
      BY <3>2
    <3>4. \A r \in ToSet(trs) : Joined(r, <<>>) \in E
      <4>1. <<>> \in Seq(ToSet(times))
        OBVIOUS
      <4>2. \A s \in Seq(ToSet(times)) : \A r \in TripRow(trs) : Joined(r, s) \in EntrySet(trs, times)
        BY DEF EntrySet
      <4>3. \A r \in ToSet(trs) : r \in TripRow(trs)
        BY DEF TripRow
      <4> QED BY <4>1, <4>2, <4>3
    <3>5. a \in [1..Len(alone) -> E]
      BY <2>1, <3>3, <3>4
    <3> QED BY <3>3, <3>5
  <2> QED BY <2>2, <2>3, <2>4, ConcatMembers
<1>3. ASSUME NEW k \in DOMAIN out, out[k].times # <<>>
      PROVE  \E m \in 1..n : /\ k = From(trs, times, m) + 1
                             /\ \A i \in DOMAIN out[k].times : out[k].times[i].trip = order[m]
                             /\ out[k].valid => out[k].trip.id = order[m]
  <2>1. ~OfAlone(trs, times, k)
    <3> SUFFICES ASSUME OfAlone(trs, times, k) PROVE FALSE
      OBVIOUS
    <3>1. PICK i \in DOMAIN alone : k = pass + i
      BY DEF OfAlone
    <3>2. out[k] = Joined(alone[i], <<>>)
      BY <1>1, <3>1 DEF OutShape
    <3> QED BY <1>3, <3>2, JoinedIs
  <2>2. PICK m \in 1..n : \E q \in 1..Len(EmitOf(trs, times, order[m])) : k = From(trs, times, m) + q
    BY <1>1, <2>1 DEF OutShape, OfTrip
  <2>q. PICK q \in 1..Len(EmitOf(trs, times, order[m])) : k = From(trs, times, m) + q
    BY <2>2
  <2>3. PICK t, em, rows, sorted, first :
          /\ t = order[m] /\ em = EmitOf(trs, times, t) /\ rows = RowsOfTrip(trs, t)
          /\ sorted = SortedTimes(times, t)
          /\ first = IF TooMany(times, t) THEN Limited(rows[1]) ELSE rows[1]
    OBVIOUS
  <2>4. t \in TripIds(times)
    <3>1. times \in Seq(ToSet(times))
      BY DEF Readable
    <3> QED BY <2>3, <3>1, OrderMembers
  <2>5. out[k] = em[q] /\ q \in 1..Len(em)
    BY <1>1, <2>q, <2>3 DEF OutShape
  <2>6. q = 1 /\ em[1].times = sorted
    BY <1>3, <2>3, <2>4, <2>5, FirstEntry
  <2>7. \A i \in DOMAIN sorted : sorted[i].trip = t
    BY <2>3, <2>4, TripTimes
  <2>8. em[1] = IF rows = <<>> THEN Orphan(sorted) ELSE Joined(first, sorted)
    BY <2>3, EntryOf
  <2>9. rows # <<>> => first.id = t
    <3> SUFFICES ASSUME rows # <<>> PROVE first.id = t
      OBVIOUS
    <3>1. 1 \in DOMAIN rows
      BY <2>3, EntryOf
    <3>2. rows[1] \in ToSet(trs) /\ rows[1].id = t
      BY <2>3, <3>1, TripRowsAre
    <3> QED BY <2>3, <3>2, RowLines
  <2>10. out[k].valid => out[k].trip.id = t
    BY <2>5, <2>6, <2>8, <2>9, JoinedIs
  <2> QED BY <2>q, <2>3, <2>5, <2>6, <2>7, <2>8, <2>10
<1>4. \A k \in DOMAIN out : OwnTimesOnly(out[k])
  <2> TAKE k \in DOMAIN out
  <2>1. CASE out[k].times = <<>>
    BY <2>1 DEF OwnTimesOnly
  <2>2. CASE out[k].times # <<>>
    BY <1>3, <2>2 DEF OwnTimesOnly
  <2> QED BY <2>1, <2>2
<1>5. OncePerTrip(out)
  <2>1. \A j, m \in 1..n : order[j] = order[m] => j = m
    BY OrderMembers, SMTT(30) DEF Readable
  <2> QED BY <1>3, <2>1 DEF OncePerTrip, Timely
<1> QED BY <1>2, <1>4, <1>5 DEF Entries

LEMMA SeqOfSetApart ==
  ASSUME NEW S, IsFiniteSet(S), NEW f \in SetToSeqs(S)
  PROVE  f \in Seq(S) /\ ToSet(f) = S /\ \A i, j \in DOMAIN f : f[i] = f[j] => i = j
<1> DEFINE n == Cardinality(S)
           D == 1..n
<1>1. n \in Nat /\ f \in [D -> S] /\ \A i, j \in D : i # j => f[i] # f[j]
  BY FS_CardinalityType DEF SetToSeqs
<1> QED BY <1>1, SeqOfSet

\* The fallback for readers without a pass of their own.
LEMMA GenericEntries ==
  ASSUME NEW trs, NEW times, Readable(trs, times), NEW other \in genericTripsWithStopTimes(trs, times)
  PROVE  Entries(trs, times, other)
<1>1. PICK G, L, R, named, ids :
        /\ G = GroupEntries(trs, times) /\ L = LeftEntries(trs, times) /\ R = RepeatedEntries(trs)
        /\ ids = ToSet(Order(times)) /\ named = NamedIds(trs, times)
  OBVIOUS
<1>2. PICK g \in SetToSeqs(G), l \in SetToSeqs(L) : other = g \o l \o R
  BY <1>1, GenericIs, SMTT(30)
<1>3. PICK E : E = EntrySet(trs, times)
  OBVIOUS
<1>4. trs \in Seq(ToSet(trs)) /\ times \in Seq(ToSet(times)) /\ Sequenced(times)
  BY DEF Readable
<1>5. /\ \A s \in Seq(ToSet(times)) : (\A r \in ToSet(trs) : Joined(r, s) \in E) /\ Orphan(s) \in E
      /\ \A r \in ToSet(trs) : Joined(r, <<>>) \in E
  <2>1. \A s \in Seq(ToSet(times)) : (\A r \in TripRow(trs) : Joined(r, s) \in E) /\ Orphan(s) \in E
    BY <1>3 DEF EntrySet
  <2>2. \A r \in ToSet(trs) : r \in TripRow(trs)
    BY DEF TripRow
  <2>3. <<>> \in Seq(ToSet(times))
    OBVIOUS
  <2> QED BY <2>1, <2>2, <2>3
<1>6. \A t : /\ AllTimes(times, t) \in Seq(ToSet(times))
             /\ \A i \in DOMAIN AllTimes(times, t) : AllTimes(times, t)[i].trip = t
  <2> TAKE t
  <2>1. PICK own : own = TimesOfTrip(times, t)
    OBVIOUS
  <2>2. own \in Seq(ToSet(times)) /\ \A i \in DOMAIN own : own[i].trip = t
    <3>1. PICK Y : Y = ToSet(times)
      OBVIOUS
    <3>2. times \in Seq(Y)
      BY <1>4, <3>1
    <3>3. own \in Seq(Y)
      BY <2>1, <3>2, TimesOfTripIs
    <3>4. \A i \in DOMAIN TimesOfTrip(times, t) : TimesOfTrip(times, t)[i].trip = t
      BY <3>2, TimesOfTripIs, ZenonT(30)
    <3> QED BY <2>1, <3>1, <3>3, <3>4
  <2>3. Sequenced(own)
    <3>1. \A i \in DOMAIN own : own[i] \in ToSet(times)
      BY <2>2
    <3>2. \A r \in ToSet(times) : r.seq \in Int
      BY <1>4 DEF Sequenced, ToSet
    <3> QED BY <3>1, <3>2 DEF Sequenced
  <2>4. PICK s : s = InSequence(own)
    OBVIOUS
  <2>5. s \in Seq(ToSet(times)) /\ ToSet(s) = ToSet(own)
    BY <2>2, <2>3, <2>4, InSequenceIs
  <2>6. \A i \in DOMAIN s : s[i].trip = t
    <3>1. \A i \in DOMAIN s : s[i] \in ToSet(own)
      BY <2>5 DEF ToSet
    <3>2. \A r \in ToSet(own) : r.trip = t
      BY <2>2 DEF ToSet
    <3> QED BY <3>1, <3>2
  <2> QED BY <2>1, <2>4, <2>5, <2>6 DEF AllTimes
<1>7. \A t \in named : RowNamed(trs, t) \in ToSet(trs) /\ RowNamed(trs, t).id = t
  <2>1. \A t \in named : \E i \in FirstOfId(trs) : trs[i].id = t
    BY <1>1 DEF NamedIds
  <2>2. FirstOfId(trs) \subseteq DOMAIN trs
    BY DEF FirstOfId
  <2> QED BY <2>1, <2>2 DEF RowNamed, ToSet
<1>8. IsFiniteSet(G) /\ IsFiniteSet(L)
  BY <1>1, GroupsAreFinite
<1>9. /\ g \in Seq(G) /\ ToSet(g) = G /\ \A i, j \in DOMAIN g : g[i] = g[j] => i = j
      /\ l \in Seq(L) /\ ToSet(l) = L
  BY <1>8, SeqOfSetApart
<1>10. ASSUME NEW e \in G
       PROVE  /\ e \in E
              /\ e.valid => \E t \in named : e = Joined(RowNamed(trs, t), AllTimes(times, t))
  <2>1. CASE \E t \in named : e = Joined(RowNamed(trs, t), AllTimes(times, t))
    BY <1>5, <1>6, <1>7, <2>1
  <2>2. CASE \E t \in ids \ named : e = Orphan(AllTimes(times, t))
    <3>1. PICK t \in ids \ named : e = Orphan(AllTimes(times, t))
      BY <2>2
    <3>2. PICK s : s = AllTimes(times, t) /\ s \in Seq(ToSet(times))
      BY <1>6
    <3>3. e = Orphan(s) /\ ~Orphan(s).valid
      BY <3>1, <3>2, JoinedIs
    <3> QED BY <1>5, <3>2, <3>3
  <2> QED BY <1>1, <1>10, <2>1, <2>2 DEF GroupEntries
<1>11. Entries(trs, times, g)
  <2>1. g \in Seq(E) /\ \A k \in DOMAIN g : g[k] \in G
    <3>1. DOMAIN g = 1..Len(g) /\ Len(g) \in Nat /\ \A k \in DOMAIN g : g[k] \in G
      BY <1>9
    <3>2. \A k \in DOMAIN g : g[k] \in E
      BY <1>10, <3>1
    <3> QED BY <1>9, <3>1, <3>2
  <2>2. ASSUME NEW k \in DOMAIN g, g[k].valid
        PROVE  \E t \in named : /\ g[k] = Joined(RowNamed(trs, t), AllTimes(times, t))
                                /\ g[k].trip.id = t
                                /\ \A i \in DOMAIN g[k].times : g[k].times[i].trip = t
    <3>1. PICK t \in named : g[k] = Joined(RowNamed(trs, t), AllTimes(times, t))
      BY <1>10, <2>1, <2>2
    <3>2. g[k].trip = RowNamed(trs, t) /\ g[k].times = AllTimes(times, t)
      BY <3>1, JoinedIs
    <3> QED BY <1>6, <1>7, <3>1, <3>2
  <2>3. \A k \in DOMAIN g : OwnTimesOnly(g[k])
    BY <2>2 DEF OwnTimesOnly
  <2>4. OncePerTrip(g)
    BY <1>9, <2>2 DEF OncePerTrip, Timely
  <2> QED BY <1>3, <2>1, <2>3, <2>4 DEF Entries
<1>12. l \in Seq(E) /\ \A k \in DOMAIN l : l[k].times = <<>>
  <2>1. \A e \in L : e \in E /\ e.times = <<>>
    <3>1. \A e \in L : \E i \in DOMAIN trs : e = Joined(trs[i], <<>>)
      BY <1>1 DEF LeftEntries, FirstOfId
    <3>2. \A i \in DOMAIN trs : trs[i] \in ToSet(trs)
      BY DEF ToSet
    <3> QED BY <1>5, <3>1, <3>2, JoinedIs
  <2>2. DOMAIN l = 1..Len(l) /\ Len(l) \in Nat /\ \A k \in DOMAIN l : l[k] \in L
    BY <1>9
  <2> QED BY <1>9, <2>1, <2>2
<1>13. R \in Seq(E) /\ \A k \in DOMAIN R : R[k].times = <<>>
  <2>1. PICK again : again = Repeated(trs)
    OBVIOUS
  <2>2. again \in Seq(ToSet(trs))
    <3>1. DOMAIN trs \ FirstOfId(trs) \in SUBSET DOMAIN trs
      OBVIOUS
    <3> QED BY <1>4, <2>1, <3>1, RowsAtIs DEF Repeated
  <2>3. DOMAIN again = 1..Len(again) /\ Len(again) \in Nat /\ \A k \in DOMAIN again : again[k] \in ToSet(trs)
    BY <2>2
  <2>4. R = [k \in 1..Len(again) |-> Joined(again[k], <<>>)]
    BY <1>1, <2>1, <2>3 DEF RepeatedEntries
  <2>5. R \in [1..Len(again) -> E]
    BY <1>5, <2>3, <2>4
  <2>6. R \in Seq(E)
    BY <2>3, <2>5
  <2>7. \A k \in DOMAIN R : R[k].times = <<>>
    BY <2>4, JoinedIs
  <2> QED BY <2>6, <2>7
<1>14. PICK gl : gl = g \o l
  OBVIOUS
<1>15. Entries(trs, times, gl)
  BY <1>3, <1>11, <1>12, <1>14, MoreEntries
<1>16. Entries(trs, times, gl \o R)
  BY <1>3, <1>13, <1>15, MoreEntries
<1> QED BY <1>2, <1>14, <1>16

LEMMA PhasesAre ==
  /\ Len(Phases) = 33
  /\ \A p \in 1..33 : (Phases[p] = "trips") <=> (p = 14)
  /\ \A p \in 14..33 : Phases[p] \notin {"calendar", "generated"}
BY DEF Phases

LEMMA PhasesApart == \A n \in 14..33, m \in 1..13 : Phases[n] # Phases[m]
<1>1. \A m \in 1..13 : Phases[m] \in {"agency", "routes", "levels", "shapes", "stations", "platforms",
         "boarding_areas", "calendar", "generated", "booking_rules", "locations", "location_groups",
         "location_group_stops"}
  BY DEF Phases
<1>2. \A n \in 14..33 : Phases[n] \notin {"agency", "routes", "levels", "shapes", "stations", "platforms",
         "boarding_areas", "calendar", "generated", "booking_rules", "locations", "location_groups",
         "location_group_stops"}
  BY DEF Phases
<1> QED BY <1>1, <1>2

\* What calendar_dates.txt alone knows makes rows of calendar.txt.
LEMMA GeneratedAre ==
  ASSUME feed \in Feed
  PROVE  /\ GeneratedCalendars \in Seq(ToSet(GeneratedCalendars))
         /\ \A r \in ToSet(GeneratedCalendars) : r.file = "calendar.txt"
<1> DEFINE dates == Rows("calendar_dates")
           services == {r.service : r \in ToSet(dates)} \ {r.id : r \in ToSet(Rows("calendar"))}
           order == SetToSeq(services)
           New(s) == [file |-> "calendar.txt", id |-> s, line |-> <<"generated", s>>, refs |-> {},
                      groups |-> {}, fault |-> "none"]
<1>1. GeneratedCalendars = [k \in DOMAIN order |-> New(order[k])]
  BY Zenon DEF GeneratedCalendars
<1>2. IsFiniteSet(services)
  <2>1. dates \in Seq(ToSet(dates))
    BY RowsAre
  <2>2. PICK n : n = Len(dates) /\ n \in Nat /\ DOMAIN dates = 1..n
    BY <2>1
  <2> DEFINE D == DOMAIN dates
             f == [i \in D |-> dates[i].service]
  <2>3. IsFiniteSet(D)
    BY <2>2, FS_Interval
  <2>4. IsFiniteSet({f[i] : i \in D})
    <3>1. DOMAIN f = D
      OBVIOUS
    <3> HIDE DEF f, D
    <3> QED BY <2>3, <3>1, FiniteImage
  <2>5. services \subseteq {f[i] : i \in D}
    BY DEF ToSet
  <2> HIDE DEF services, f, D
  <2> QED BY <2>4, <2>5, FS_Subset
<1> HIDE DEF services
<1>3. Cardinality(services) \in Nat /\ DOMAIN order = 1..Cardinality(services)
  <2>1. PICK n : n = Cardinality(services) /\ n \in Nat
    BY <1>2, FS_CardinalityType
  <2>2. ExistsBijection(1..n, services)
    BY <1>2, <2>1, FS_CardinalityType
  <2>3. PICK b : b \in Bijection(1..n, services)
    BY <2>2 DEF ExistsBijection
  <2>4. b \in [1..n -> services] /\ IsInjective(b)
    BY <2>3 DEF Bijection, Injection, IsInjective
  <2>5. SetToSeq(services) \in [1..n -> services]
    BY <2>1, <2>4, Zenon DEF SetToSeq
  <2> QED BY <2>1, <2>5
<1> HIDE DEF order
<1>4. /\ GeneratedCalendars = [k \in 1..Cardinality(services) |-> New(order[k])]
      /\ \A k \in 1..Cardinality(services) : New(order[k]).file = "calendar.txt"
  BY <1>1, <1>3
<1> HIDE DEF New
<1>5. PICK n, g : n = Cardinality(services) /\ g = GeneratedCalendars
  OBVIOUS
<1>6. n \in Nat /\ DOMAIN g = 1..n /\ g = [k \in 1..n |-> g[k]] /\ \A k \in 1..n : g[k].file = "calendar.txt"
  BY <1>3, <1>4, <1>5
<1>7. \A k \in 1..n : g[k] \in ToSet(g)
  BY <1>6 DEF ToSet
<1>8. g \in Seq(ToSet(g))
  BY <1>6, <1>7
<1>9. \A r \in ToSet(g) : r.file = "calendar.txt"
  BY <1>6 DEF ToSet
<1> QED BY <1>5, <1>8, <1>9

\* What a phase reads: in its own phase the joined trips, in the others no trip.
LEMMA SourceIs ==
  ASSUME feed \in Feed, ~HasBlankTimes, NEW p, NEW out \in Source(p)
  PROVE  /\ out \in Seq(ToSet(out))
         /\ p = "trips" => Entries(Rows("trips"), Rows("stop_times"), out)
         /\ p # "trips" => \A r \in ToSet(out) : r.file # "trips.txt"
<1>1. CASE p = "trips"
  <2>1. Readable(Rows("trips"), Rows("stop_times"))
    BY FeedReadable
  <2>2. Entries(Rows("trips"), Rows("stop_times"), out)
    <3>1. out = TripsWithStopTimes(Rows("trips"), Rows("stop_times"))
            \/ out \in genericTripsWithStopTimes(Rows("trips"), Rows("stop_times"))
      BY <1>1 DEF Source
    <3> QED BY <2>1, <3>1, ReadEntries, GenericEntries
  <2>3. out \in Seq(ToSet(out))
    <3>1. PICK E : E = EntrySet(Rows("trips"), Rows("stop_times")) /\ out \in Seq(E)
      BY <2>2 DEF Entries
    <3> QED BY <3>1, SelfTyped
  <2> QED BY <1>1, <2>2, <2>3
<1>2. CASE p = "generated"
  <2>1. out = GeneratedCalendars
    BY <1>2 DEF Source
  <2> QED BY <1>2, <2>1, GeneratedAre
<1>3. CASE p # "trips" /\ p # "generated"
  <2>1. out = Rows(p)
    BY <1>3 DEF Source
  <2>2. out \in Seq(ToSet(out))
    BY <2>1, RowsAre
  <2>3. \A r \in ToSet(out) : r.file # "trips.txt"
    <3>1. \A i \in DOMAIN Rows(p) : (Rows(p)[i].file = "trips.txt") = (p = "trips")
      BY RowsAre
    <3> QED BY <1>3, <2>1, <3>1 DEF ToSet
  <2> QED BY <1>3, <2>2, <2>3
<1> QED BY <1>1, <1>2, <1>3

-----------------------------------------------------------------------------
(* Numbers of stop patterns.  The names are the ids of trips.txt, sts the rows   *)
(* of stop_times.txt, table the stop patterns and their numbers, and open the   *)
(* ids of the trips that have stop_times and wait for their patterns.          *)
IsTrip(w) == w.file = "trips.txt"
HasTimes(w) == IsTrip(w) /\ w.times # <<>>

\* Trips know the number of their pattern; no two with stop_times have one id.
TripsFiled(shelf, names, sts, table, open) ==
  /\ \A w \in shelf : IsTrip(w) => w.times \in Seq(sts)
  /\ \A w \in shelf : HasTimes(w) =>
       /\ w.id \in names \ open
       /\ stopPatternKey(w, w.times) \in DOMAIN table
       /\ w.pattern = table[stopPatternKey(w, w.times)]
  /\ \A v, w \in shelf : HasTimes(v) /\ HasTimes(w) /\ v.id = w.id => v = w

\* Every pattern has a number of its own, below the number of patterns.
Numbered(names, sts, table, open) ==
  /\ IsFiniteSet(DOMAIN table)
  /\ \A k \in DOMAIN table : table[k] \in 0..(Cardinality(DOMAIN table) - 1)
  /\ \A k, l \in DOMAIN table : table[k] = table[l] => k = l
  /\ \A k \in DOMAIN table : \/ \E s \in Seq(sts) : s # <<>> /\ k = Stops(s)
                             \/ \E t \in names \ open : k = <<t>>

Apart(names, sts) == \A t \in names, r \in sts : t # r.stop

LEMMA FirstStop ==
  ASSUME NEW sts, NEW s \in Seq(sts), s # <<>>
  PROVE  \E r \in sts : Stops(s)[1] = r.stop
<1>1. 1 \in DOMAIN s /\ s[1] \in sts
  OBVIOUS
<1>2. Stops(s)[1] = s[1].stop
  BY <1>1 DEF Stops
<1> QED BY <1>1, <1>2

\* Rows move, and rows come that are no trips with stop_times.
FromShelf(moved, shelf) == \A w \in moved : w \in shelf \/ (IsTrip(w) => w.times = <<>>)

LEMMA ShelfMoves ==
  ASSUME NEW shelf, NEW names, NEW sts, NEW table, NEW open, TripsFiled(shelf, names, sts, table, open),
         NEW moved, FromShelf(moved, shelf), NEW fewer, fewer \subseteq open
  PROVE  TripsFiled(moved, names, sts, table, fewer)
<1>0. <<>> \in Seq(sts)
  OBVIOUS
<1>1. \A w \in moved : IsTrip(w) => w.times \in Seq(sts)
  BY <1>0, Zenon DEF TripsFiled, FromShelf
<1>2. \A w \in moved : HasTimes(w) => w \in shelf
  BY DEF HasTimes, FromShelf
<1> QED BY <1>1, <1>2 DEF TripsFiled

LEMMA FewerOpen ==
  ASSUME NEW names, NEW sts, NEW table, NEW open, Numbered(names, sts, table, open),
         NEW fewer, fewer \subseteq open
  PROVE  Numbered(names, sts, table, fewer)
BY DEF Numbered

\* A trip that waits for its pattern gets it.
LEMMA TripIsFiled ==
  ASSUME NEW shelf, NEW names, NEW sts, NEW table, NEW open,
         TripsFiled(shelf, names, sts, table, open), Numbered(names, sts, table, open),
         Apart(names, sts),
         NEW w, NEW times \in Seq(sts), times # <<>>, NEW key, NEW n,
         w.id \in names, w.id \in open, w.times = times, w.pattern = n, key = stopPatternKey(w, times),
         n = IF AllStopsHaveStopID(times) /\ key \in DOMAIN table THEN table[key]
             ELSE Cardinality(DOMAIN table),
         NEW fewer, fewer \subseteq open \ {w.id}
  PROVE  /\ TripsFiled(shelf \cup {w}, names, sts, Put(table, key, n), fewer)
         /\ Numbered(names, sts, Put(table, key, n), fewer)
<1> PICK next : next = Put(table, key, n)
  OBVIOUS
<1>1. /\ DOMAIN next = DOMAIN table \cup {key} /\ next[key] = n
      /\ \A k \in DOMAIN table : k # key => next[k] = table[k]
  BY DEF Put
<1>2. key = IF AllStopsHaveStopID(times) THEN Stops(times) ELSE <<w.id>>
  BY DEF stopPatternKey
<1>3. ~AllStopsHaveStopID(times) => key \notin DOMAIN table
  <2> SUFFICES ASSUME ~AllStopsHaveStopID(times), key \in DOMAIN table PROVE FALSE
    OBVIOUS
  <2>1. key = <<w.id>> /\ key[1] = w.id
    BY <1>2
  <2>2. CASE \E s \in Seq(sts) : s # <<>> /\ key = Stops(s)
    <3>1. \E r \in sts : key[1] = r.stop
      BY <2>2, FirstStop
    <3> QED BY <2>1, <3>1 DEF Apart
  <2>3. CASE \E t \in names \ open : key = <<t>>
    BY <2>1, <2>3
  <2> QED BY <2>2, <2>3 DEF Numbered
<1>4. \A k \in DOMAIN table : next[k] = table[k]
  <2>1. key \in DOMAIN table => n = table[key]
    BY <1>3
  <2> QED BY <1>1, <2>1
<1>5. TripsFiled(shelf \cup {w}, names, sts, next, fewer)
  <2>1. \A v \in shelf \cup {w} : IsTrip(v) => v.times \in Seq(sts)
    BY Zenon DEF TripsFiled
  <2>2. \A v \in shelf \cup {w} : HasTimes(v) =>
          /\ v.id \in names \ fewer
          /\ stopPatternKey(v, v.times) \in DOMAIN next
          /\ v.pattern = next[stopPatternKey(v, v.times)]
    <3> TAKE v \in shelf \cup {w}
    <3>1. CASE v \in shelf
      BY <1>1, <1>4, <3>1 DEF TripsFiled
    <3>2. CASE v = w
      BY <1>1, <3>2
    <3> QED BY <3>1, <3>2
  <2>3. \A u, v \in shelf \cup {w} : HasTimes(u) /\ HasTimes(v) /\ u.id = v.id => u = v
    <3>1. \A v \in shelf : HasTimes(v) => v.id # w.id
      BY DEF TripsFiled
    <3> QED BY <3>1 DEF TripsFiled
  <2> QED BY <2>1, <2>2, <2>3 DEF TripsFiled
<1>6. Numbered(names, sts, next, fewer)
  <2>1. IsFiniteSet(DOMAIN table) /\ Cardinality(DOMAIN table) \in Nat
    BY FS_CardinalityType DEF Numbered
  <2>2. \/ \E s \in Seq(sts) : s # <<>> /\ key = Stops(s)
        \/ \E t \in names \ fewer : key = <<t>>
    <3>1. CASE AllStopsHaveStopID(times)
      BY <1>2, <3>1
    <3>2. CASE ~AllStopsHaveStopID(times)
      BY <1>2, <3>2
    <3> QED BY <3>1, <3>2
  <2>3. \A k \in DOMAIN next : \/ \E s \in Seq(sts) : s # <<>> /\ k = Stops(s)
                               \/ \E t \in names \ fewer : k = <<t>>
    BY <1>1, <2>2 DEF Numbered
  <2>4. CASE key \in DOMAIN table
    <3>1. DOMAIN next = DOMAIN table
      BY <1>1, <2>4
    <3> QED BY <1>4, <2>3, <3>1 DEF Numbered
  <2>5. CASE key \notin DOMAIN table
    <3>1. /\ IsFiniteSet(DOMAIN next) /\ Cardinality(DOMAIN next) = Cardinality(DOMAIN table) + 1
      BY <1>1, <2>1, <2>5, FS_AddElement
    <3>2. n = Cardinality(DOMAIN table)
      BY <2>5
    <3>3. \A k \in DOMAIN next : next[k] \in 0..(Cardinality(DOMAIN next) - 1)
      <4>1. \A k \in DOMAIN table : next[k] \in 0..(Cardinality(DOMAIN table) - 1)
        BY <1>4 DEF Numbered
      <4>2. PICK c : c = Cardinality(DOMAIN table) /\ c \in Nat /\ Cardinality(DOMAIN next) = c + 1
        BY <2>1, <3>1
      <4>3. next[key] = c
        BY <1>1, <3>2, <4>2
      <4>4. \A k \in DOMAIN table : next[k] \in 0..(c - 1)
        BY <4>1, <4>2
      <4> QED BY <1>1, <4>2, <4>3, <4>4
    <3>4. \A k \in DOMAIN table : next[k] # next[key]
      <4>1. PICK c : c = Cardinality(DOMAIN table) /\ c \in Nat
        BY <2>1
      <4>2. \A k \in DOMAIN table : next[k] \in 0..(c - 1)
        BY <1>4, <4>1 DEF Numbered
      <4>3. next[key] = c
        BY <1>1, <3>2, <4>1
      <4> QED BY <4>1, <4>2, <4>3
    <3>5. \A k, l \in DOMAIN table : next[k] = next[l] => k = l
      BY <1>4 DEF Numbered
    <3>6. \A k, l \in DOMAIN next : next[k] = next[l] => k = l
      BY <1>1, <3>4, <3>5
    <3> QED BY <2>3, <3>1, <3>3, <3>6 DEF Numbered
  <2> QED BY <2>4, <2>5
<1> QED BY <1>5, <1>6

-----------------------------------------------------------------------------
(* Where rows are. *)
LEMMA TypedBy ==
  ASSUME NEW X, NEW Z, NEW s \in Seq(X), \A i \in DOMAIN s : s[i] \in Z
  PROVE  s \in Seq(Z)
OBVIOUS

LEMMA HeadAndTail ==
  ASSUME NEW X, NEW s \in Seq(X), s # <<>>
  PROVE  /\ Head(s) = s[1] /\ s[1] \in X /\ 1 \in DOMAIN s /\ Tail(s) \in Seq(X)
         /\ \A k \in DOMAIN Tail(s) : k + 1 \in DOMAIN s /\ Tail(s)[k] = s[k + 1] /\ k \in Nat
<1>1. /\ Len(s) \in Nat /\ Len(s) >= 1 /\ DOMAIN s = 1..Len(s) /\ Head(s) = s[1] /\ s[1] \in X
      /\ Tail(s) \in Seq(X) /\ Len(Tail(s)) = Len(s) - 1
      /\ \A k \in 1..(Len(s) - 1) : Tail(s)[k] = s[k + 1]
  OBVIOUS
<1>2. DOMAIN Tail(s) = 1..(Len(s) - 1)
  BY <1>1
<1> QED BY <1>1, <1>2

LEMMA TailOfConcat ==
  ASSUME NEW X, NEW a \in Seq(X), NEW b \in Seq(X), a # <<>>
  PROVE  Tail(a \o b) = Tail(a) \o b /\ Head(a) = Head(a \o b) /\ a \o b # <<>> /\ a \o b \in Seq(X)
<1>1. PICK t, c : t = Tail(a) /\ c = a \o b
  OBVIOUS
<1>2. /\ t \in Seq(X) /\ c \in Seq(X) /\ Len(a) \in Nat /\ Len(b) \in Nat /\ Len(a) >= 1
      /\ Len(t) = Len(a) - 1 /\ Len(c) = Len(a) + Len(b)
      /\ \A i \in 1..(Len(a) - 1) : t[i] = a[i + 1]
      /\ \A i \in 1..(Len(a) + Len(b)) : c[i] = IF i <= Len(a) THEN a[i] ELSE b[i - Len(a)]
  BY <1>1
<1>3. PICK u, v : u = Tail(c) /\ v = t \o b
  OBVIOUS
<1>4. /\ u \in Seq(X) /\ v \in Seq(X) /\ Len(u) = Len(a) + Len(b) - 1 /\ Len(v) = Len(a) - 1 + Len(b)
      /\ \A i \in 1..(Len(a) + Len(b) - 1) : u[i] = c[i + 1]
      /\ \A i \in 1..(Len(a) + Len(b) - 1) : v[i] = IF i <= Len(a) - 1 THEN t[i] ELSE b[i - (Len(a) - 1)]
  BY <1>2, <1>3
<1>5. \A i \in 1..(Len(a) + Len(b) - 1) : u[i] = v[i]
  <2> TAKE i \in 1..(Len(a) + Len(b) - 1)
  <2>1. CASE i <= Len(a) - 1
    BY <1>2, <1>4, <2>1
  <2>2. CASE ~(i <= Len(a) - 1)
    <3>1. i + 1 \in 1..(Len(a) + Len(b)) /\ ~(i + 1 <= Len(a)) /\ i + 1 - Len(a) = i - (Len(a) - 1)
      BY <1>2, <2>2
    <3>2. c[i + 1] = b[i + 1 - Len(a)] /\ u[i] = c[i + 1]
      BY <1>2, <1>4, <3>1
    <3>3. v[i] = b[i - (Len(a) - 1)]
      BY <1>4, <2>2
    <3> QED BY <3>1, <3>2, <3>3
  <2> QED BY <2>1, <2>2
<1>6. u = v
  <2>1. Len(u) = Len(v) /\ DOMAIN u = 1..(Len(a) + Len(b) - 1)
    BY <1>2, <1>4
  <2>2. \A i \in 1..Len(u) : u[i] = v[i]
    BY <1>4, <1>5
  <2> QED BY <1>4, <2>1, <2>2, SeqEqual
<1>7. Head(a) = Head(c)
  BY <1>2
<1>8. c # <<>>
  BY <1>2
<1> QED BY <1>1, <1>2, <1>3, <1>6, <1>7, <1>8

\* The first group of rows, and the others.
LEMMA FirstGroup ==
  ASSUME NEW groups, groups \in Seq(Seq(RowsOf(groups))), groups # <<>>
  PROVE  /\ Head(groups) \in Seq(RowsOf(groups)) /\ ToSet(Head(groups)) \subseteq RowsOf(groups)
         /\ Tail(groups) \in Seq(Seq(RowsOf(Tail(groups)))) /\ RowsOf(Tail(groups)) \subseteq RowsOf(groups)
<1>0. PICK X, Y, tail : X = RowsOf(groups) /\ Y = Seq(X) /\ tail = Tail(groups)
  OBVIOUS
<1>1. groups \in Seq(Y)
  BY <1>0
<1>2. /\ Head(groups) = groups[1] /\ groups[1] \in Y /\ 1 \in DOMAIN groups /\ tail \in Seq(Y)
      /\ \A k \in DOMAIN tail : k + 1 \in DOMAIN groups /\ tail[k] = groups[k + 1] /\ k \in Nat
  BY <1>0, <1>1, HeadAndTail
<1>3. ToSet(Head(groups)) \subseteq X
  BY <1>0, <1>2 DEF RowsOf
<1>4. RowsOf(tail) \subseteq X
  BY <1>0, <1>2 DEF RowsOf
<1>5. \A k \in DOMAIN tail : tail[k] \in Seq(RowsOf(tail))
  <2> TAKE k \in DOMAIN tail
  <2>1. PICK s : s = tail[k] /\ s \in Seq(X)
    BY <1>0, <1>2
  <2>2. \A i \in DOMAIN s : s[i] \in RowsOf(tail)
    BY <2>1 DEF RowsOf, ToSet
  <2>3. s \in Seq(RowsOf(tail))
    BY <2>1, <2>2, TypedBy
  <2> QED BY <2>1, <2>3
<1>6. tail \in Seq(Seq(RowsOf(tail)))
  <2>1. PICK Z : Z = Seq(RowsOf(tail))
    OBVIOUS
  <2>2. DOMAIN tail = 1..Len(tail) /\ Len(tail) \in Nat
    BY <1>2
  <2>3. \A k \in DOMAIN tail : tail[k] \in Z
    BY <1>5, <2>1
  <2>4. tail \in Seq(Z)
    BY <1>2, <2>2, <2>3
  <2> QED BY <2>1, <2>4
<1> QED BY <1>0, <1>2, <1>3, <1>4, <1>6

\* Ids of the trips that wait, with their stop_times, for their patterns.
Waiting(q) == {q[k].trip.id : k \in {k \in DOMAIN q : Timely(q[k])}}

LEMMA NextEntry ==
  ASSUME NEW trs, NEW times, NEW q, Entries(trs, times, q), q # <<>>
  PROVE  /\ Entries(trs, times, Tail(q)) /\ Waiting(Tail(q)) \subseteq Waiting(q)
         /\ Head(q) \in EntrySet(trs, times)
         /\ Timely(Head(q)) => /\ Head(q).trip.id \in Waiting(q)
                               /\ Waiting(Tail(q)) \subseteq Waiting(q) \ {Head(q).trip.id}
<1>0. PICK E, r : E = EntrySet(trs, times) /\ r = Tail(q) /\ q \in Seq(E)
  BY DEF Entries
<1>1. /\ Head(q) = q[1] /\ q[1] \in E /\ 1 \in DOMAIN q /\ r \in Seq(E)
      /\ \A k \in DOMAIN r : k + 1 \in DOMAIN q /\ r[k] = q[k + 1] /\ k \in Nat
  BY <1>0, HeadAndTail
<1>2. \A k \in DOMAIN r : OwnTimesOnly(r[k])
  BY <1>1 DEF Entries
<1>3. OncePerTrip(r)
  <2> SUFFICES ASSUME NEW k \in DOMAIN r, NEW l \in DOMAIN r,
                      Timely(r[k]), Timely(r[l]), r[k].trip.id = r[l].trip.id
               PROVE  k = l
    BY DEF OncePerTrip
  <2>1. k + 1 = l + 1
    BY <1>1 DEF Entries, OncePerTrip
  <2> QED BY <1>1, <2>1
<1>4. Waiting(r) \subseteq Waiting(q)
  BY <1>1 DEF Waiting
<1>5. ASSUME Timely(q[1]) PROVE q[1].trip.id \in Waiting(q) /\ q[1].trip.id \notin Waiting(r)
  <2>1. q[1].trip.id \in Waiting(q)
    BY <1>1, <1>5 DEF Waiting
  <2>2. ASSUME NEW k \in DOMAIN r, Timely(r[k]), r[k].trip.id = q[1].trip.id PROVE FALSE
    <3>1. k + 1 = 1
      BY <1>1, <1>5, <2>2 DEF Entries, OncePerTrip
    <3>2. k \in 1..Len(r) /\ Len(r) \in Nat
      BY <1>1
    <3> QED BY <3>1, <3>2
  <2> QED BY <2>1, <2>2 DEF Waiting
<1> QED BY <1>0, <1>1, <1>2, <1>3, <1>4, <1>5 DEF Entries

LEMMA NoEntries == ASSUME NEW trs, NEW times PROVE Entries(trs, times, <<>>) /\ Waiting(<<>>) = {}
BY DEF Entries, OncePerTrip, Waiting

\* A batch, and what the reader has still to yield.
LEMMA TakenIs ==
  ASSUME src \in Seq(ToSet(src)), NEW p
  PROVE  /\ Taken(p) \in Seq(ToSet(src)) /\ SubSeq(src, Len(Taken(p)) + 1, Len(src)) \in Seq(ToSet(src))
         /\ Taken(p) \o SubSeq(src, Len(Taken(p)) + 1, Len(src)) = src
<1>0. PICK X : X = ToSet(src)
  OBVIOUS
<1>1. PICK n : n = IF Size(p) < Len(src) THEN Size(p) ELSE Len(src)
  OBVIOUS
<1>2. Taken(p) = SubSeq(src, 1, n)
  BY <1>1 DEF Taken
<1>3. n \in 0..Len(src)
  <2>1. Len(src) \in Nat
    OBVIOUS
  <2>2. Size(p) \in Nat
    BY <2>1, CopierAssumption DEF Size
  <2> QED BY <1>1, <2>1, <2>2
<1>4. /\ SubSeq(src, 1, n) \in Seq(X) /\ SubSeq(src, n + 1, Len(src)) \in Seq(X)
      /\ Len(SubSeq(src, 1, n)) = n
      /\ SubSeq(src, 1, n) \o SubSeq(src, n + 1, Len(src)) = src
  BY <1>0, <1>3, PartsOfSeq
<1> QED BY <1>0, <1>2, <1>4

TripNames == {r.id : r \in ToSet(Rows("trips"))}
TimeRows == ToSet(Rows("stop_times"))

\* What of the trips has no patterns yet; the rows that have been read.
Ahead == IF phase = 14 THEN batch \o src ELSE <<>>
Shelf == ToSet(trips) \cup RowsOf(todo) \cup ToSet(ok) \cup written

\* Batches are taken and written one by one, trips in a phase of their own.
Placed ==
  /\ phase \in 0..33
  /\ stage # "assign" => batch = <<>>
  /\ stage = "assign" => phase = 14
  /\ batch \in Seq(ToSet(batch)) /\ src \in Seq(ToSet(src)) /\ trips \in Seq(ToSet(trips))
  /\ loose \in Seq(TimeRows) /\ ok \in Seq(ToSet(ok)) /\ todo \in Seq(Seq(RowsOf(todo)))
  /\ phase # 14 => \A r \in ToSet(src) : ~IsTrip(r)
  /\ phase = 0 => src = <<>>

\* A trip has stop_times of its own.
HasOwnTimes(w) == w.times \in Seq(TimeRows) /\ \A i \in DOMAIN w.times : w.times[i].trip = w.id

Copying ==
  /\ Placed
  /\ Entries(Rows("trips"), Rows("stop_times"), Ahead)
  /\ phase < 14 => \A w \in Shelf : ~IsTrip(w)
  /\ \A w \in Shelf : IsTrip(w) => HasOwnTimes(w)

LEMMA SameRows ==
  ASSUME UNCHANGED feed
  PROVE  /\ \A p : Rows(p)' = Rows(p)
         /\ TripNames' = TripNames /\ TimeRows' = TimeRows /\ HasBlankTimes' = HasBlankTimes
         /\ Apart(TripNames, TimeRows)' = Apart(TripNames, TimeRows)
<1>1. \A p : Rows(p)' = Rows(p)
  BY DEF Rows
<1>2. TripNames' = TripNames /\ TimeRows' = TimeRows /\ HasBlankTimes' = HasBlankTimes
  BY <1>1 DEF TripNames, TimeRows, HasBlankTimes
<1> QED BY <1>1, <1>2 DEF Apart

LEMMA TimesAreNoTrips ==
  ASSUME feed \in Feed
  PROVE  /\ \A r \in TimeRows : ~IsTrip(r)
         /\ \A r \in ToSet(Rows("calendar_dates")) : ~IsTrip(r)
<1>1. \A i \in DOMAIN Rows("stop_times") : ~(Rows("stop_times")[i].file = "trips.txt")
  BY RowsAre
<1>2. \A i \in DOMAIN Rows("calendar_dates") : ~(Rows("calendar_dates")[i].file = "trips.txt")
  BY RowsAre
<1> QED BY <1>1, <1>2 DEF IsTrip, TimeRows, ToSet

\* A step that files no trip: nothing more waits for its patterns, unless the
\* reader begins with the trips.
Moves ==
  /\ UNCHANGED <<feed, patterns>>
  /\ Placed'
  /\ Entries(Rows("trips"), Rows("stop_times"), Ahead')
  /\ phase' < 14 => phase < 14
  /\ Waiting(Ahead') \subseteq Waiting(Ahead) \/ (phase < 14 /\ phase' = 14)
  /\ \A w \in Shelf' : w \in Shelf \/ (IsTrip(w) => phase = 14 /\ phase' = 14 /\ w.times = <<>>)

\* What a trip that is given its patterns does to the journey patterns.
FollowsJourney(w) ==
  LET key == journeyPatternKey(w, w.times)
      dup == key # <<>> /\ key \in DOMAIN journeys IN
  /\ w.journey = IF dup THEN journeys[key] ELSE w.id
  /\ journeys' = IF key = <<>> \/ dup THEN journeys ELSE Put(journeys, key, w.id)
  /\ dedup' = IF dup THEN dedup \cup {w.id} ELSE dedup

\* A step that gives a trip its patterns.
Files(w) ==
  /\ UNCHANGED <<feed, phase>> /\ phase = 14
  /\ Placed'
  /\ Entries(Rows("trips"), Rows("stop_times"), Ahead')
  /\ Waiting(Ahead') \subseteq Waiting(Ahead) \ {w.id}
  /\ \A v \in Shelf' : v \in Shelf \/ v = w \/ ~IsTrip(v)
  /\ w.id \in TripNames /\ w.id \in Waiting(Ahead) /\ HasTimes(w) /\ HasOwnTimes(w)
  /\ w.pattern = IF AllStopsHaveStopID(w.times) /\ stopPatternKey(w, w.times) \in DOMAIN stopPatterns
                 THEN stopPatterns[stopPatternKey(w, w.times)] ELSE Cardinality(DOMAIN stopPatterns)
  /\ stopPatterns' = Put(stopPatterns, stopPatternKey(w, w.times), w.pattern)
  /\ FollowsJourney(w)

\* Rows that are to be copied: with the networks they bring, they become groups.
LEMMA CopiedRows ==
  ASSUME NEW X, NEW rows \in Seq(X), copyEntities(rows)
  PROVE  /\ todo' \in Seq(Seq(RowsOf(todo'))) /\ ok' = <<>> /\ ok' \in Seq(ToSet(ok')) /\ ToSet(ok') = {}
         /\ \A w \in RowsOf(todo') : w \in ToSet(rows) \/ (IsLink(w) /\ ~IsTrip(w))
         /\ ToSet(rows) \subseteq RowsOf(todo')
<1>1. /\ todo' \in Seq(Seq(Expanded(rows))) /\ RowsOf(todo') = Expanded(rows) /\ ok' = <<>>
      /\ ToSet(rows) \subseteq Expanded(rows)
      /\ \A w \in Expanded(rows) : w \in ToSet(rows) \/ IsLink(w)
  BY CopyEntitiesIs
<1>2. ToSet(<<>>) = {} /\ <<>> \in Seq(ToSet(<<>>))
  BY DEF ToSet
<1> QED BY <1>1, <1>2 DEF IsTrip, IsLink

LEMMA Members == ASSUME NEW X, NEW s \in Seq(X) PROVE ToSet(s) \subseteq X
BY DEF ToSet

LEMMA NoRows == ToSet(<<>>) = {} /\ RowsOf(<<>>) = {} /\ \A X : <<>> \in Seq(X)
BY DEF ToSet, RowsOf

LEMMA TakeBatchMoves ==
  ASSUME feed \in Feed, Copying, TakeBatch
  PROVE  Moves /\ ok' = <<>> /\ \A w \in RowsOf(todo') : ~IsTrip(w) /\ (w \in ToSet(src) \/ IsLink(w))
<1>1. /\ phase # 14 /\ phase # 0 /\ batch = <<>> /\ src \in Seq(ToSet(src)) /\ \A r \in ToSet(src) : ~IsTrip(r)
      /\ UNCHANGED <<feed, phase, batch, trips, loose, written, patterns>> /\ stage' = "write"
  <2>1. Phases[14] = "trips"
    BY PhasesAre
  <2>2. phase # 14
    BY <2>1 DEF TakeBatch
  <2> QED BY <2>2 DEF TakeBatch, Copying, Placed
<1> PICK taken, rest, X : /\ taken = Taken(Phases[phase]) /\ X = ToSet(src)
                          /\ rest = SubSeq(src, Len(Taken(Phases[phase])) + 1, Len(src))
  OBVIOUS
<1>2. taken \in Seq(X) /\ rest \in Seq(X)
  BY <1>1, TakenIs
<1>3. src' = rest /\ copyEntities(taken)
  BY DEF TakeBatch
<1>4. /\ todo' \in Seq(Seq(RowsOf(todo'))) /\ ok' = <<>> /\ ok' \in Seq(ToSet(ok')) /\ ToSet(ok') = {}
      /\ \A w \in RowsOf(todo') : w \in ToSet(taken) \/ (IsLink(w) /\ ~IsTrip(w))
  BY <1>2, <1>3, CopiedRows
<1>5. \A w \in RowsOf(todo') : ~IsTrip(w) /\ (w \in ToSet(src) \/ IsLink(w))
  BY <1>1, <1>2, <1>4, Members
<1>6. Placed'
  <2>1. src' \in Seq(ToSet(src')) /\ \A r \in ToSet(src') : ~IsTrip(r)
    BY <1>1, <1>2, <1>3, SelfTyped, Members
  <2> QED BY <1>1, <1>4, <2>1, SameRows DEF Placed, Copying
<1>7. Moves
  <2>1. Ahead' = <<>> /\ Ahead = <<>>
    BY <1>1 DEF Ahead
  <2>2. \A w \in Shelf' : w \in Shelf \/ ~IsTrip(w)
    BY <1>1, <1>4, <1>5 DEF Shelf
  <2> QED BY <1>1, <1>5, <1>6, <2>1, <2>2, NoEntries DEF Moves
<1> QED BY <1>4, <1>5, <1>7

LEMMA TakeGeneratedMoves ==
  ASSUME feed \in Feed, Copying, TakeGenerated
  PROVE  Moves /\ \A w \in RowsOf(todo') \cup ToSet(ok') : ~IsTrip(w)
<1>1. /\ phase # 14 /\ phase # 0 /\ batch = <<>> /\ src \in Seq(ToSet(src)) /\ \A r \in ToSet(src) : ~IsTrip(r)
      /\ UNCHANGED <<feed, phase, batch, trips, loose, written, patterns>> /\ stage' = "write" /\ src' = <<>>
  <2>1. Phases[14] = "trips"
    BY PhasesAre
  <2>2. phase # 14
    BY <2>1 DEF TakeGenerated
  <2> QED BY <2>2 DEF TakeGenerated, Copying, Placed
<1>2. /\ todo' \in Seq(Seq(RowsOf(todo'))) /\ ok' \in Seq(ToSet(ok'))
      /\ \A w \in RowsOf(todo') \cup ToSet(ok') : ~IsTrip(w)
  <2>1. CASE opt.normalizeServices
    <3>1. copyEntities(src)
      BY <2>1 DEF TakeGenerated
    <3>2. PICK X : X = ToSet(src) /\ src \in Seq(X)
      BY <1>1
    <3>3. /\ todo' \in Seq(Seq(RowsOf(todo'))) /\ ok' \in Seq(ToSet(ok')) /\ ToSet(ok') = {}
          /\ \A w \in RowsOf(todo') : w \in ToSet(src) \/ ~IsTrip(w)
      BY <3>1, <3>2, CopiedRows
    <3> QED BY <1>1, <3>3
  <2>2. CASE ~opt.normalizeServices
    <3>1. ok' = src /\ todo' = <<>>
      BY <2>2 DEF TakeGenerated
    <3> QED BY <1>1, <3>1, NoRows
  <2> QED BY <2>1, <2>2
<1>3. Placed'
  BY <1>1, <1>2, SameRows, NoRows DEF Placed, Copying
<1>4. Moves
  <2>1. Ahead' = <<>> /\ Ahead = <<>>
    BY <1>1 DEF Ahead
  <2>2. \A w \in Shelf' : w \in Shelf \/ ~IsTrip(w)
    BY <1>1, <1>2 DEF Shelf
  <2> QED BY <1>1, <1>3, <2>1, <2>2, NoEntries DEF Moves
<1> QED BY <1>2, <1>4

LEMMA TakeTripsMoves ==
  ASSUME feed \in Feed, Copying, TakeTrips
  PROVE  Moves
<1>1. /\ phase = 14 /\ batch = <<>> /\ src \in Seq(ToSet(src))
      /\ UNCHANGED <<feed, phase, trips, loose, todo, ok, written, patterns>> /\ stage' = "assign"
  <2>1. Phases[phase] = "trips" /\ phase # 0 /\ phase \in 0..33
    BY DEF TakeTrips, Copying, Placed
  <2>2. phase \in 1..33
    BY <2>1
  <2>3. phase = 14
    BY <2>1, <2>2, PhasesAre
  <2> QED BY <2>3 DEF TakeTrips, Copying, Placed
<1> PICK taken, rest, X : /\ taken = Taken("trips") /\ X = ToSet(src)
                          /\ rest = SubSeq(src, Len(Taken("trips")) + 1, Len(src))
  OBVIOUS
<1>2. taken \in Seq(X) /\ rest \in Seq(X) /\ taken \o rest = src
  BY <1>1, TakenIs
<1>3. batch' = taken /\ src' = rest
  BY DEF TakeTrips
<1>4. Placed'
  <2>1. batch' \in Seq(ToSet(batch')) /\ src' \in Seq(ToSet(src'))
    BY <1>2, <1>3, SelfTyped
  <2> QED BY <1>1, <2>1, SameRows DEF Placed, Copying
<1>5. Moves
  <2>1. Ahead' = src
    BY <1>1, <1>2, <1>3 DEF Ahead
  <2>2. Ahead = src
    <3>1. <<>> \o src = src
      BY <1>1
    <3> QED BY <1>1, <3>1 DEF Ahead
  <2>3. Shelf' = Shelf
    BY <1>1 DEF Shelf
  <2> QED BY <1>1, <1>4, <2>1, <2>2, <2>3 DEF Moves, Copying
<1> QED BY <1>5

\* The next trip of the batch.
LEMMA NextTrip ==
  ASSUME Copying, stage = "assign", batch # <<>>, batch' = Tail(batch), UNCHANGED <<phase, src>>
  PROVE  /\ Ahead' = Tail(Ahead) /\ Ahead # <<>> /\ Head(batch) = Head(Ahead)
         /\ batch' \in Seq(ToSet(batch'))
<1>1. phase = 14 /\ batch \in Seq(ToSet(batch)) /\ src \in Seq(ToSet(src))
  BY DEF Copying, Placed
<1> PICK X, a, b : X = ToSet(batch) \cup ToSet(src) /\ a = batch /\ b = src
  OBVIOUS
<1>2. a \in Seq(X) /\ b \in Seq(X)
  <2>1. \A r \in ToSet(batch) : r \in X
    OBVIOUS
  <2>2. \A r \in ToSet(src) : r \in X
    OBVIOUS
  <2>3. (\A i \in DOMAIN batch : batch[i] \in X) /\ (\A i \in DOMAIN src : src[i] \in X)
    BY <2>1, <2>2 DEF ToSet
  <2> QED BY <1>1, <2>3, TypedBy
<1>3. Tail(a \o b) = Tail(a) \o b /\ Head(a) = Head(a \o b) /\ a \o b # <<>>
  BY <1>2, TailOfConcat
<1>4. Tail(a) \in Seq(X)
  BY <1>2, HeadAndTail
<1>5. batch' \in Seq(ToSet(batch'))
  BY <1>4, SelfTyped
<1> QED BY <1>1, <1>3, <1>5 DEF Ahead

LEMMA PutOther == ASSUME NEW f, NEW k, NEW key, k # key, k \in DOMAIN f, NEW value PROVE Put(f, key, value)[k] = f[k]
BY DEF Put

LEMMA AssignOtherMoves ==
  ASSUME feed \in Feed, Copying, AssignOther
  PROVE  Moves
<1>1. /\ stage = "assign" /\ batch # <<>> /\ batch' = Tail(batch) /\ phase = 14
      /\ UNCHANGED <<feed, stage, phase, src, todo, ok, written, patterns>>
  BY DEF AssignOther, Copying, Placed
<1>2. /\ Ahead' = Tail(Ahead) /\ Ahead # <<>> /\ Head(batch) = Head(Ahead)
      /\ batch' \in Seq(ToSet(batch'))
  BY <1>1, NextTrip
<1>3. /\ Entries(Rows("trips"), Rows("stop_times"), Ahead') /\ Waiting(Ahead') \subseteq Waiting(Ahead)
      /\ Head(batch) \in EntrySet(Rows("trips"), Rows("stop_times"))
  BY <1>2, NextEntry DEF Copying
<1>4. Head(batch).times \in Seq(TimeRows)
  BY <1>3, EntryIs DEF TimeRows
<1>5. CASE Head(batch).valid
  <2>1. PICK w, X, s : w = Put(Head(batch).trip, "times", <<>>) /\ X = ToSet(trips) \cup {w} /\ s = trips
    OBVIOUS
  <2>2. trips' = Append(s, w) /\ UNCHANGED loose /\ w.times = <<>> /\ s \in Seq(ToSet(s))
    <3>1. w.times = <<>>
      BY <2>1 DEF Put
    <3> QED BY <1>5, <2>1, <3>1 DEF AssignOther, Copying, Placed
  <2>3. s \in Seq(X) /\ w \in X
    <3>1. \A i \in DOMAIN s : s[i] \in X
      BY <2>1 DEF ToSet
    <3> QED BY <2>1, <2>2, <3>1, TypedBy
  <2>4. Append(s, w) \in Seq(X)
    BY <2>3
  <2>5. trips' \in Seq(ToSet(trips')) /\ ToSet(trips') \subseteq X
    BY <2>2, <2>4, SelfTyped, Members
  <2>6. Placed'
    BY <1>1, <1>2, <2>2, <2>5, SameRows DEF Placed, Copying
  <2>7. \A v \in Shelf' : v \in Shelf \/ v = w
    BY <1>1, <2>1, <2>5 DEF Shelf
  <2>8. Moves
    BY <1>1, <1>3, <2>2, <2>6, <2>7 DEF Moves
  <2> QED BY <2>8
<1>6. CASE ~Head(batch).valid
  <2>1. PICK a, b, Y : a = loose /\ b = Head(batch).times /\ Y = TimeRows
    OBVIOUS
  <2>2. loose' = a \o b /\ UNCHANGED trips /\ a \in Seq(Y) /\ b \in Seq(Y)
    BY <1>4, <1>6, <2>1 DEF AssignOther, Copying, Placed
  <2>3. loose' \in Seq(TimeRows)
    BY <2>1, <2>2, ConcatMembers
  <2>4. Placed'
    BY <1>1, <1>2, <2>2, <2>3, SameRows DEF Placed, Copying
  <2>5. Shelf' = Shelf
    BY <1>1, <2>2 DEF Shelf
  <2>6. Moves
    BY <1>1, <1>3, <2>4, <2>5 DEF Moves
  <2> QED BY <2>6
<1> QED BY <1>5, <1>6

LEMMA WriteTripsMoves ==
  ASSUME feed \in Feed, Copying, WriteTrips
  PROVE  Moves /\ ok' = <<>> /\ \A w \in RowsOf(todo') : w \in ToSet(trips) \/ (IsLink(w) /\ ~IsTrip(w))
<1>1. /\ stage = "assign" /\ batch = <<>> /\ stage' = "write" /\ trips \in Seq(ToSet(trips)) /\ copyEntities(trips)
      /\ UNCHANGED <<feed, phase, src, batch, trips, loose, written, patterns>>
  BY DEF WriteTrips, Copying, Placed
<1>2. /\ todo' \in Seq(Seq(RowsOf(todo'))) /\ ok' = <<>> /\ ok' \in Seq(ToSet(ok')) /\ ToSet(ok') = {}
      /\ \A w \in RowsOf(todo') : w \in ToSet(trips) \/ (IsLink(w) /\ ~IsTrip(w))
  <2>1. PICK X : X = ToSet(trips) /\ trips \in Seq(X)
    BY <1>1
  <2> QED BY <1>1, <2>1, CopiedRows
<1>3. Placed'
  BY <1>1, <1>2, SameRows DEF Placed, Copying
<1>4. Moves
  <2>1. Ahead' = Ahead
    BY <1>1 DEF Ahead
  <2>2. \A w \in Shelf' : w \in Shelf \/ ~IsTrip(w)
    BY <1>1, <1>2 DEF Shelf
  <2> QED BY <1>1, <1>3, <2>1, <2>2 DEF Moves, Copying
<1> QED BY <1>2, <1>4

\* The rows of a group that are accepted.
LEMMA AcceptedAre ==
  ASSUME NEW X, NEW group \in Seq(X)
  PROVE  /\ AcceptedRows(group) \in Seq(X)
         /\ ToSet(AcceptedRows(group)) = {group[i] : i \in Passed(group)}
         /\ Passed(group) \in SUBSET DOMAIN group
<1>1. Passed(group) \in SUBSET DOMAIN group
  BY DEF Passed
<1> QED BY <1>1, RowsAtIs DEF AcceptedRows

LEMMA WriteGroupMoves ==
  ASSUME feed \in Feed, Copying, WriteGroup
  PROVE  Moves
<1>1. /\ stage = "write" /\ todo # <<>> /\ todo \in Seq(Seq(RowsOf(todo))) /\ ok \in Seq(ToSet(ok))
      /\ ok' = ok \o AcceptedRows(Head(todo)) /\ todo' = Tail(todo) /\ CheckAndWrite(Head(todo))
      /\ UNCHANGED <<feed, stage, phase, src, batch, trips, loose, patterns>>
  BY DEF WriteGroup, Copying, Placed
<1> PICK group, Y : group = Head(todo) /\ Y = RowsOf(todo)
  OBVIOUS
<1>2. /\ group \in Seq(Y) /\ ToSet(group) \subseteq Y
      /\ todo' \in Seq(Seq(RowsOf(todo'))) /\ RowsOf(todo') \subseteq Y
  BY <1>1, FirstGroup
<1>3. AcceptedRows(group) \in Seq(Y) /\ \A w \in ToSet(AcceptedRows(group)) : w \in Y
  BY <1>2, AcceptedAre, Members
<1>4. \A w \in written' : w \in written \/ w \in Y
  <2>1. written' = written \cup {group[i] : i \in Passed(group)}
    BY <1>1 DEF CheckAndWrite
  <2>2. {group[i] : i \in Passed(group)} = ToSet(AcceptedRows(group))
    BY <1>2, AcceptedAre
  <2> QED BY <1>3, <2>1, <2>2
<1>5. ok' \in Seq(ToSet(ok')) /\ \A w \in ToSet(ok') : w \in ToSet(ok) \/ w \in Y
  <2> PICK a, b, Z : a = ok /\ b = AcceptedRows(group) /\ Z = ToSet(ok) \cup Y
    OBVIOUS
  <2>1. a \in Seq(Z)
    <3>1. \A i \in DOMAIN ok : ok[i] \in Z
      BY DEF ToSet
    <3> QED BY <1>1, <3>1, TypedBy
  <2>2. b \in Seq(Z)
    <3>1. \A i \in DOMAIN b : b[i] \in Z
      BY <1>3 DEF ToSet
    <3>2. b \in Seq(Y)
      BY <1>3
    <3> QED BY <3>1, <3>2, TypedBy
  <2>3. ok' = a \o b
    BY <1>1
  <2>4. a \o b \in Seq(Z)
    BY <2>1, <2>2
  <2>5. ok' \in Seq(ToSet(ok')) /\ ToSet(ok') \subseteq Z
    BY <2>3, <2>4, SelfTyped, Members
  <2> QED BY <2>5
<1>6. Placed'
  BY <1>1, <1>2, <1>5, SameRows DEF Placed, Copying
<1>7. Moves
  <2>1. Ahead' = Ahead
    BY <1>1 DEF Ahead
  <2>2. \A w \in Shelf' : w \in Shelf
    BY <1>1, <1>2, <1>4, <1>5 DEF Shelf
  <2> QED BY <1>1, <1>6, <2>1, <2>2 DEF Moves, Copying
<1> QED BY <1>7

LEMMA WriterFailsMoves ==
  ASSUME feed \in Feed, Copying, WriterFails
  PROVE  Moves
<1>1. /\ stage = "write" /\ stage' = "failed"
      /\ UNCHANGED <<feed, phase, src, batch, trips, loose, todo, ok, written, patterns>>
  BY DEF WriterFails, CheckAndFail
<1>2. Placed'
  BY <1>1, SameRows DEF Placed, Copying
<1>3. Ahead' = Ahead /\ Shelf' = Shelf
  BY <1>1 DEF Ahead, Shelf
<1>4. Moves
  BY <1>1, <1>2, <1>3 DEF Moves, Copying
<1> QED BY <1>4

\* What follows calendars or trips: no trips.
LEMMA CalendarsFollowed ==
  ASSUME feed \in Feed, NEW X, NEW rows \in Seq(X)
  PROVE  FollowCalendars(rows) \in Seq(ToSet(Rows("calendar_dates")))
<1> DEFINE First(row) == \A r \in ToSet(Rows("calendar")) : r.id = row.id => r = row \/ row.line[2] < r.line[2]
           parts == [i \in DOMAIN rows |-> IF First(rows[i]) THEN Dates(rows[i].id) ELSE <<>>]
<1>1. FollowCalendars(rows) = FlattenSeq(parts)
  BY Zenon DEF FollowCalendars
<1> HIDE DEF First
<1> PICK Y, all : Y = ToSet(Rows("calendar_dates")) /\ all = Rows("calendar_dates")
  OBVIOUS
<1>2. \A s : Dates(s) \in Seq(Y)
  <2> TAKE s
  <2>1. PICK D : D = {i \in DOMAIN all : <<"calendar.txt", s>> \in all[i].refs}
    OBVIOUS
  <2>2. D \in SUBSET DOMAIN all /\ all \in Seq(Y)
    BY <2>1, RowsAre
  <2>3. Dates(s) = RowsAt(all, D)
    BY <2>1 DEF Dates
  <2> QED BY <2>2, <2>3, RowsAtIs
<1>3. parts \in Seq(Seq(Y))
  <2>1. DOMAIN rows = 1..Len(rows) /\ Len(rows) \in Nat
    OBVIOUS
  <2>e. <<>> \in Seq(Y)
    BY NoRows
  <2>2. PICK Z : Z = Seq(Y) /\ <<>> \in Z
    BY <2>e
  <2>3. parts \in [1..Len(rows) -> Z]
    BY <1>2, <2>1, <2>2
  <2>4. parts \in Seq(Z)
    BY <2>1, <2>3
  <2> QED BY <2>2, <2>4
<1> HIDE DEF parts
<1>4. FlattenSeq(parts) \in Seq(Y)
  BY <1>3, FlattenMembers
<1> QED BY <1>1, <1>4

LEMMA TripsFollowed ==
  ASSUME loose \in Seq(TimeRows), NEW X, NEW rows \in Seq(X), \A i \in DOMAIN rows : rows[i].times \in Seq(TimeRows)
  PROVE  /\ FollowTrips(rows) \in Seq(TimeRows)
         /\ \A i \in DOMAIN rows : (opt.dedup /\ rows[i].id \in dedup) \/ ToSet(rows[i].times) \subseteq ToSet(FollowTrips(rows))
<1> DEFINE parts == [i \in DOMAIN rows |-> IF opt.dedup /\ rows[i].id \in dedup THEN <<>> ELSE rows[i].times]
<1>1. PICK Y, a, b : Y = TimeRows /\ a = loose /\ b = FlattenSeq(parts)
  OBVIOUS
<1>2. parts \in Seq(Seq(Y))
  <2>1. DOMAIN rows = 1..Len(rows) /\ Len(rows) \in Nat
    OBVIOUS
  <2>e. <<>> \in Seq(Y)
    BY NoRows
  <2>2. PICK Z : Z = Seq(Y) /\ <<>> \in Z
    BY <2>e
  <2>3. parts \in [1..Len(rows) -> Z]
    BY <1>1, <2>1, <2>2
  <2>4. parts \in Seq(Z)
    BY <2>1, <2>3
  <2> QED BY <2>2, <2>4
<1>3. FollowTrips(rows) = a \o b
  BY <1>1, Zenon DEF FollowTrips
<1>d. /\ DOMAIN parts = DOMAIN rows
      /\ \A i \in DOMAIN rows : (opt.dedup /\ rows[i].id \in dedup) \/ parts[i] = rows[i].times
  OBVIOUS
<1> HIDE DEF parts
<1>4. a \in Seq(Y) /\ b \in Seq(Y) /\ ToSet(b) = UNION {ToSet(parts[i]) : i \in DOMAIN parts}
  BY <1>1, <1>2, FlattenMembers
<1>5. a \o b \in Seq(Y) /\ ToSet(a \o b) = ToSet(a) \cup ToSet(b)
  BY <1>4, ConcatMembers
<1>6. \A i \in DOMAIN rows : (opt.dedup /\ rows[i].id \in dedup) \/ ToSet(rows[i].times) \subseteq ToSet(b)
  BY <1>d, <1>4
<1> QED BY <1>1, <1>3, <1>5, <1>6

LEMMA EndGroupsMoves ==
  ASSUME feed \in Feed, Copying, EndGroups
  PROVE  /\ Moves /\ ok' = <<>> /\ \A w \in RowsOf(todo') : ~IsTrip(w)
         /\ phase >= 14 => \A w \in RowsOf(todo') : w \in TimeRows \/ IsLink(w)
         /\ phase >= 14 /\ trips # <<>> =>
              \A w \in ToSet(ok) : IsTrip(w) => (opt.dedup /\ w.id \in dedup) \/ ToSet(w.times) \subseteq RowsOf(todo')
<1> DEFINE p == Phases[phase]
           D == {i \in DOMAIN ok : ok[i].file = "trips.txt"}
           next == IF ok # <<>> /\ p \in {"calendar", "generated"} /\ ok[1].file = "calendar.txt"
                   THEN FollowCalendars(ok)
                   ELSE IF trips # <<>> THEN FollowTrips(RowsAt(ok, D))
                   ELSE loose
<1>1. /\ stage = "write" /\ todo = <<>> /\ batch = <<>> /\ trips' = <<>> /\ loose' = <<>>
      /\ ok \in Seq(ToSet(ok)) /\ loose \in Seq(TimeRows)
      /\ \A w \in ToSet(ok) : IsTrip(w) => w.times \in Seq(TimeRows)
      /\ UNCHANGED <<feed, phase, src, batch, written, patterns>>
  BY DEF EndGroups, Copying, Placed, HasOwnTimes, Shelf
<1>2. \/ copyEntities(next) /\ UNCHANGED stage
      \/ next = <<>> /\ stage' = "phase" /\ ok' = <<>> /\ UNCHANGED todo
  BY DEF EndGroups
<1>p. phase >= 14 => p \notin {"calendar", "generated"}
  <2>1. phase \in 0..33
    BY DEF Copying, Placed
  <2> QED BY <2>1, PhasesAre
<1> HIDE DEF p
<1>3. /\ next \in Seq(TimeRows) \/ next \in Seq(ToSet(Rows("calendar_dates")))
      /\ phase >= 14 => next \in Seq(TimeRows)
      /\ phase >= 14 /\ trips # <<>> =>
           \A w \in ToSet(ok) : IsTrip(w) => (opt.dedup /\ w.id \in dedup) \/ ToSet(w.times) \subseteq ToSet(next)
  <2>1. FollowCalendars(ok) \in Seq(ToSet(Rows("calendar_dates")))
    <3>1. PICK X : X = ToSet(ok) /\ ok \in Seq(X)
      BY <1>1
    <3> QED BY <3>1, CalendarsFollowed
  <2>2. /\ FollowTrips(RowsAt(ok, D)) \in Seq(TimeRows)
        /\ \A w \in ToSet(ok) : IsTrip(w) =>
             (opt.dedup /\ w.id \in dedup) \/ ToSet(w.times) \subseteq ToSet(FollowTrips(RowsAt(ok, D)))
    <3>1. PICK X, rows : X = ToSet(ok) /\ ok \in Seq(X) /\ rows = RowsAt(ok, D)
      BY <1>1
    <3>2. D \in SUBSET DOMAIN ok
      OBVIOUS
    <3>3. rows \in Seq(X) /\ ToSet(rows) = {ok[i] : i \in D}
      BY <3>1, <3>2, RowsAtIs
    <3>4. \A w \in ToSet(rows) : w \in ToSet(ok) /\ IsTrip(w)
      BY <3>3 DEF ToSet, IsTrip
    <3>5. \A i \in DOMAIN rows : rows[i].times \in Seq(TimeRows)
      BY <1>1, <3>4 DEF ToSet
    <3>6. /\ FollowTrips(rows) \in Seq(TimeRows)
          /\ \A i \in DOMAIN rows : (opt.dedup /\ rows[i].id \in dedup) \/ ToSet(rows[i].times) \subseteq ToSet(FollowTrips(rows))
      BY <1>1, <3>3, <3>5, TripsFollowed
    <3>7. \A w \in ToSet(ok) : IsTrip(w) => \E i \in DOMAIN rows : w = rows[i]
      <4>1. \A w \in ToSet(ok) : IsTrip(w) => w \in {ok[i] : i \in D}
        BY DEF ToSet, IsTrip
      <4> QED BY <3>3, <4>1 DEF ToSet
    <3> QED BY <3>1, <3>6, <3>7
  <2> QED BY <1>1, <1>p, <2>1, <2>2
<1> HIDE DEF next
<1>4. PICK X, s : s = next /\ s \in Seq(X) /\ (\A w \in X : ~IsTrip(w)) /\ (phase >= 14 => X = TimeRows)
  BY <1>3, TimesAreNoTrips
<1>5. /\ todo' \in Seq(Seq(RowsOf(todo'))) /\ ok' = <<>> /\ ok' \in Seq(ToSet(ok')) /\ ToSet(ok') = {}
      /\ \A w \in RowsOf(todo') : ~IsTrip(w) /\ (w \in X \/ IsLink(w))
      /\ ToSet(next) \subseteq RowsOf(todo')
  <2>1. CASE copyEntities(next)
    <3>1. copyEntities(s)
      BY <2>1, <1>4
    <3>2. \A w \in RowsOf(todo') : w \in ToSet(s) \/ (IsLink(w) /\ ~IsTrip(w))
      BY <3>1, <1>4, CopiedRows
    <3>3. ToSet(s) \subseteq X
      BY <1>4, Members
    <3> QED BY <1>4, <3>1, <3>2, <3>3, CopiedRows
  <2>2. CASE next = <<>> /\ ok' = <<>> /\ UNCHANGED todo
    BY <1>1, <2>2, NoRows
  <2> QED BY <1>2, <2>1, <2>2
<1>6. Placed'
  <2>1. stage' # "assign"
    BY <1>1, <1>2
  <2> QED BY <1>1, <1>5, <2>1, NoRows, SameRows DEF Placed, Copying
<1>7. Moves
  <2>1. Ahead' = Ahead
    BY <1>1 DEF Ahead
  <2>2. \A w \in Shelf' : w \in Shelf \/ ~IsTrip(w)
    BY <1>1, <1>5, NoRows DEF Shelf
  <2> QED BY <1>1, <1>6, <2>1, <2>2 DEF Moves, Copying
<1> QED BY <1>3, <1>4, <1>5, <1>7

LEMMA NextPhaseMoves ==
  ASSUME feed \in Feed, ~HasBlankTimes, Copying, NextPhase
  PROVE  Moves
<1>1. /\ stage = "phase" /\ src = <<>> /\ batch = <<>> /\ phase \in 0..33
      /\ UNCHANGED <<feed, batch, trips, loose, todo, ok, written, patterns>>
  BY DEF NextPhase, Copying, Placed
<1>2. Shelf' = Shelf
  BY <1>1 DEF Shelf
<1>3. Ahead = <<>>
  <2>1. <<>> \o <<>> = <<>>
    OBVIOUS
  <2> QED BY <1>1, <2>1 DEF Ahead
<1>4. CASE phase = 33
  <2>1. stage' = "done" /\ UNCHANGED <<phase, src>>
    BY <1>4, PhasesAre DEF NextPhase
  <2>2. Placed'
    BY <1>1, <2>1, SameRows DEF Placed, Copying
  <2>3. Ahead' = Ahead
    BY <1>1, <2>1 DEF Ahead
  <2> QED BY <1>1, <1>2, <2>1, <2>2, <2>3 DEF Moves, Copying
<1>5. CASE phase # 33
  <2>1. phase' = phase + 1 /\ src' \in Source(Phases[phase + 1]) /\ stage' = stage /\ phase + 1 \in 1..33
    BY <1>1, <1>5, PhasesAre DEF NextPhase
  <2>2. /\ src' \in Seq(ToSet(src'))
        /\ phase' = 14 => Entries(Rows("trips"), Rows("stop_times"), src')
        /\ phase' # 14 => \A r \in ToSet(src') : ~IsTrip(r)
    <3>1. PICK p : p = Phases[phase + 1] /\ (p = "trips" <=> phase + 1 = 14)
      BY <2>1, PhasesAre
    <3> QED BY <2>1, <3>1, SourceIs DEF IsTrip
  <2>3. Placed'
    <3>1. phase' # 0
      BY <2>1
    <3> QED BY <1>1, <2>1, <2>2, <3>1, SameRows DEF Placed, Copying
  <2>4. /\ Entries(Rows("trips"), Rows("stop_times"), Ahead')
        /\ phase' # 14 => Waiting(Ahead') = {}
    <3>1. CASE phase' = 14
      <4>1. <<>> \o src' = src'
        BY <2>2
      <4>2. Ahead' = src'
        BY <1>1, <3>1, <4>1 DEF Ahead
      <4> QED BY <2>2, <3>1, <4>2
    <3>2. CASE phase' # 14
      BY <3>2, NoEntries DEF Ahead
    <3> QED BY <3>1, <3>2
  <2>5. (phase' < 14 => phase < 14) /\ (phase' = 14 => phase < 14)
    BY <1>1, <2>1
  <2> QED BY <1>1, <1>2, <2>3, <2>4, <2>5 DEF Moves
<1> QED BY <1>4, <1>5

\* A trip that is given its patterns.
Patterned(w, trip, times, n) ==
  /\ trips' = Append(trips, w)
  /\ w.id = trip.id /\ w.file = trip.file /\ w.groups = trip.groups
  /\ w.times = times /\ w.pattern = n
  /\ stopPatterns' = Put(stopPatterns, stopPatternKey(w, times), n)
  /\ FollowsJourney(w)

LEMMA PatternsSet ==
  ASSUME NEW trip, {"id", "file", "groups", "refs"} \subseteq DOMAIN trip, NEW times, NEW n,
         SetPatterns(trip, times, n)
  PROVE  \E w : Patterned(w, trip, times, n)
<1> PICK key, dup : /\ key = journeyPatternKey(trip, times)
                    /\ dup = (key # <<>> /\ key \in DOMAIN journeys)
  OBVIOUS
<1> PICK j : j = IF key # <<>> /\ key \in DOMAIN journeys THEN journeys[key] ELSE trip.id
  OBVIOUS
<1> PICK w : w = WithPatterns(trip, times, n, j)
  OBVIOUS
<1>1. /\ w.id = trip.id /\ w.file = trip.file /\ w.groups = trip.groups /\ w.refs = trip.refs
      /\ w.times = times /\ w.pattern = n /\ w.journey = j
  BY DEF WithPatterns, Put
<1>2. stopPatternKey(w, times) = stopPatternKey(trip, times) /\ journeyPatternKey(w, w.times) = key
  BY <1>1 DEF stopPatternKey, journeyPatternKey
<1>3. /\ stopPatterns' = Put(stopPatterns, stopPatternKey(trip, times), n)
      /\ trips' = Append(trips, w)
      /\ journeys' = IF key = <<>> \/ (key # <<>> /\ key \in DOMAIN journeys) THEN journeys ELSE Put(journeys, key, trip.id)
      /\ dedup' = IF key # <<>> /\ key \in DOMAIN journeys THEN dedup \cup {trip.id} ELSE dedup
  BY DEF SetPatterns
<1>4. FollowsJourney(w)
  BY <1>1, <1>2, <1>3 DEF FollowsJourney
<1> QED BY <1>1, <1>2, <1>3, <1>4 DEF Patterned

LEMMA WithShapeIs ==
  ASSUME NEW trip, {"id", "file", "groups", "refs"} \subseteq DOMAIN trip, NEW id, NEW t, t = WithShape(trip, id)
  PROVE  /\ {"id", "file", "groups", "refs"} \subseteq DOMAIN t
         /\ t.id = trip.id /\ t.file = trip.file /\ t.groups = trip.groups
BY DEF WithShape, Put

\* The trips of a batch are rows of trips.txt.
LEMMA RowOfTrip ==
  ASSUME feed \in Feed, ~HasBlankTimes, NEW trip \in TripRow(Rows("trips"))
  PROVE  /\ {"id", "file", "groups", "refs"} \subseteq DOMAIN trip
         /\ IsTrip(trip) /\ trip.id \in TripNames
         /\ \E r \in ToSet(Rows("trips")) : trip.file = r.file /\ trip.id = r.id /\ trip.groups = r.groups
<1>1. PICK s \in ToSet(Rows("trips")) : s.id = trip.id /\ (trip = s \/ trip = Limited(s))
  BY FeedReadable, TripRowIs
<1>2. {"id", "file", "groups", "refs"} \subseteq DOMAIN s /\ s.file = "trips.txt"
  <2>1. PICK rows : rows = Rows("trips")
    OBVIOUS
  <2>2. \A i \in DOMAIN rows : /\ {"id", "file", "groups", "refs"} \subseteq DOMAIN rows[i]
                               /\ (rows[i].file = "trips.txt") = ("trips" = "trips")
    BY <2>1, RowsAre
  <2>3. PICK i \in DOMAIN rows : s = rows[i]
    BY <1>1, <2>1 DEF ToSet
  <2> QED BY <2>2, <2>3
<1>3. {"id", "file", "groups", "refs"} \subseteq DOMAIN trip /\ trip.file = s.file /\ trip.id = s.id /\ trip.groups = s.groups
  BY <1>1, <1>2 DEF Limited
<1> QED BY <1>2, <1>3 DEF IsTrip, TripNames

\* What AssignTrip does: a trip is filed, and at most a shape is written.
LEMMA TripAssigned ==
  ASSUME feed \in Feed, ~HasBlankTimes, AssignTrip, Head(batch).trip \in TripRow(Rows("trips"))
  PROVE  /\ \E w : Patterned(w, Head(batch).trip, Head(batch).times, StopPattern(Head(batch).trip, Head(batch).times))
         /\ UNCHANGED <<written, emap>> \/ \E m, second : CheckAndWrite(<<GeneratedShape(m, second)>>)
<1> PICK trip, times, n : trip = Head(batch).trip /\ times = Head(batch).times /\ n = StopPattern(trip, times)
  OBVIOUS
<1>1. {"id", "file", "groups", "refs"} \subseteq DOMAIN trip
  BY RowOfTrip
<1>2. \/ /\ SetPatterns(trip, times, n) \/ \E id : SetPatterns(WithShape(trip, id), times, n)
         /\ UNCHANGED <<written, emap>>
      \/ \E second : /\ CheckAndWrite(<<GeneratedShape(n, second)>>)
                     /\ SetPatterns(WithShape(trip, GeneratedShape(n, second).id), times, n)
  BY DEF AssignTrip, CheckAndFail
<1>3. \E w : Patterned(w, trip, times, n)
  <2>1. CASE SetPatterns(trip, times, n)
    BY <1>1, <2>1, PatternsSet
  <2>2. CASE \E id : SetPatterns(WithShape(trip, id), times, n)
    <3>1. PICK id, t : t = WithShape(trip, id) /\ SetPatterns(t, times, n)
      BY <2>2
    <3>2. /\ {"id", "file", "groups", "refs"} \subseteq DOMAIN t
          /\ t.id = trip.id /\ t.file = trip.file /\ t.groups = trip.groups
      BY <1>1, <3>1, WithShapeIs
    <3>3. PICK w : Patterned(w, t, times, n)
      BY <3>1, <3>2, PatternsSet
    <3>4. Patterned(w, trip, times, n)
      BY <3>2, <3>3 DEF Patterned
    <3> QED BY <3>4
  <2> QED BY <1>2, <2>1, <2>2
<1> QED BY <1>2, <1>3

\* A generated shape is no trip, and is not what a row of stop_times.txt refers to.
LEMMA ShapesAre ==
  ASSUME NEW m, NEW second, NEW shape, shape = GeneratedShape(m, second)
  PROVE  shape.file = "shapes.txt" /\ shape.groups = {} /\ \A i \in DOMAIN <<shape>> : <<shape>>[i] = shape
BY DEF GeneratedShape

LEMMA AssignTripFiles ==
  ASSUME feed \in Feed, ~HasBlankTimes, Copying, AssignTrip
  PROVE  /\ \E w : /\ Files(w) /\ trips' = Append(trips, w)
                   /\ \E r \in ToSet(Rows("trips")) : Keys(w) = Keys(r)
         /\ UNCHANGED <<written, emap>> \/ \E m, second : CheckAndWrite(<<GeneratedShape(m, second)>>)
<1>1. /\ stage = "assign" /\ batch # <<>> /\ batch' = Tail(batch) /\ phase = 14
      /\ Head(batch).valid /\ Head(batch).times # <<>>
      /\ UNCHANGED <<feed, stage, phase, src, loose, todo, ok>>
  BY DEF AssignTrip, Copying, Placed
<1>2. /\ Ahead' = Tail(Ahead) /\ Ahead # <<>> /\ Head(batch) = Head(Ahead)
      /\ batch' \in Seq(ToSet(batch'))
  BY <1>1, NextTrip
<1>3. /\ Entries(Rows("trips"), Rows("stop_times"), Ahead') /\ Head(batch) \in EntrySet(Rows("trips"), Rows("stop_times"))
      /\ Head(batch).trip.id \in Waiting(Ahead)
      /\ Waiting(Ahead') \subseteq Waiting(Ahead) \ {Head(batch).trip.id}
  <2>1. Timely(Head(Ahead))
    BY <1>1, <1>2 DEF Timely
  <2> QED BY <1>2, <2>1, NextEntry DEF Copying
<1> PICK trip, times, n : trip = Head(batch).trip /\ times = Head(batch).times /\ n = StopPattern(trip, times)
  OBVIOUS
<1>4. times \in Seq(TimeRows) /\ trip \in TripRow(Rows("trips")) /\ \A i \in DOMAIN times : times[i].trip = trip.id
  <2>1. times \in Seq(TimeRows) /\ trip \in TripRow(Rows("trips"))
    BY <1>1, <1>3, EntryIs DEF TimeRows
  <2>2. OwnTimesOnly(Head(batch))
    <3>1. PICK q : q = Ahead /\ q # <<>> /\ Head(batch) = Head(q) /\ q \in Seq(EntrySet(Rows("trips"), Rows("stop_times")))
      BY <1>2 DEF Copying, Entries
    <3>2. 1 \in DOMAIN q /\ Head(q) = q[1]
      BY <3>1, HeadAndTail
    <3> QED BY <3>1, <3>2 DEF Copying, Entries
  <2> QED BY <1>1, <2>1, <2>2 DEF OwnTimesOnly
<1>5. /\ \E w : Patterned(w, trip, times, n)
      /\ UNCHANGED <<written, emap>> \/ \E m, second : CheckAndWrite(<<GeneratedShape(m, second)>>)
  BY <1>4, TripAssigned
<1> PICK w : Patterned(w, trip, times, n)
  BY <1>5
<1>6. /\ trips' = Append(trips, w) /\ w.id = trip.id /\ w.file = trip.file /\ w.groups = trip.groups
      /\ w.times = times /\ w.pattern = n
      /\ stopPatterns' = Put(stopPatterns, stopPatternKey(w, times), n) /\ FollowsJourney(w)
  BY DEF Patterned
<1>7. /\ IsTrip(w) /\ w.id \in TripNames
      /\ \E r \in ToSet(Rows("trips")) : Keys(w) = Keys(r)
  <2>1. /\ IsTrip(trip) /\ trip.id \in TripNames
        /\ \E r \in ToSet(Rows("trips")) : trip.file = r.file /\ trip.id = r.id /\ trip.groups = r.groups
    BY <1>4, RowOfTrip
  <2> QED BY <1>6, <2>1 DEF IsTrip, Keys, Key
<1>8. w.pattern = IF AllStopsHaveStopID(w.times) /\ stopPatternKey(w, w.times) \in DOMAIN stopPatterns
                  THEN stopPatterns[stopPatternKey(w, w.times)] ELSE Cardinality(DOMAIN stopPatterns)
  BY <1>6 DEF StopPattern, stopPatternKey
<1>9. trips' \in Seq(ToSet(trips')) /\ ToSet(trips') \subseteq ToSet(trips) \cup {w}
  <2>1. PICK s, X : s = trips /\ X = ToSet(trips) \cup {w} /\ s \in Seq(ToSet(s))
    BY DEF Copying, Placed
  <2>2. s \in Seq(X) /\ w \in X
    <3>1. \A i \in DOMAIN s : s[i] \in X
      BY <2>1 DEF ToSet
    <3> QED BY <2>1, <3>1, TypedBy
  <2>3. Append(s, w) \in Seq(X)
    BY <2>2
  <2> QED BY <1>6, <2>1, <2>3, SelfTyped, Members
<1>10. Placed'
  BY <1>1, <1>2, <1>9, SameRows DEF Placed, Copying
<1>11. \A v \in Shelf' : v \in Shelf \/ v = w \/ ~IsTrip(v)
  <2>1. \A r \in written' : r \in written \/ ~IsTrip(r)
    <3>1. ASSUME NEW m, NEW second, CheckAndWrite(<<GeneratedShape(m, second)>>), NEW r \in written'
          PROVE  r \in written \/ ~IsTrip(r)
      <4> PICK shape : shape = GeneratedShape(m, second)
        OBVIOUS
      <4>1. \A i \in Passed(<<shape>>) : ~IsTrip(<<shape>>[i])
        BY ShapesAre DEF Passed, IsTrip
      <4> QED BY <3>1, <4>1 DEF CheckAndWrite
    <3> QED BY <1>5, <3>1
  <2> QED BY <1>1, <1>9, <2>1 DEF Shelf
<1>12. HasTimes(w) /\ HasOwnTimes(w)
  BY <1>1, <1>4, <1>6, <1>7 DEF HasTimes, HasOwnTimes
<1>13. Files(w)
  BY <1>1, <1>3, <1>6, <1>7, <1>8, <1>10, <1>11, <1>12 DEF Files
<1> QED BY <1>5, <1>6, <1>7, <1>13

\* Every step of a copy moves rows or files a trip.
LEMMA StepIs ==
  ASSUME feed \in Feed, ~HasBlankTimes, Copying, [CopyNext]_copyVars
  PROVE  Moves \/ \E w : Files(w)
<1>2. CASE NextPhase
  BY <1>2, NextPhaseMoves
<1>3. CASE TakeBatch
  BY <1>3, TakeBatchMoves
<1>4. CASE TakeGenerated
  BY <1>4, TakeGeneratedMoves
<1>5. CASE TakeTrips
  BY <1>5, TakeTripsMoves
<1>6. CASE AssignTrip
  BY <1>6, AssignTripFiles
<1>7. CASE AssignOther
  BY <1>7, AssignOtherMoves
<1>8. CASE WriteTrips
  BY <1>8, WriteTripsMoves
<1>9. CASE WriteGroup
  BY <1>9, WriteGroupMoves
<1>10. CASE WriterFails
  BY <1>10, WriterFailsMoves
<1>11. CASE EndGroups
  BY <1>11, EndGroupsMoves
<1>12. CASE UNCHANGED copyVars
  <2>1. UNCHANGED <<feed, stage, phase, src, batch, trips, loose, todo, ok, written, patterns>>
    BY <1>12 DEF copyVars, progress
  <2>2. Placed'
    BY <2>1, SameRows DEF Placed, Copying
  <2>3. Ahead' = Ahead /\ Shelf' = Shelf
    BY <2>1 DEF Ahead, Shelf
  <2> QED BY <2>1, <2>2, <2>3 DEF Moves, Copying
<1> QED BY <1>2, <1>3, <1>4, <1>5, <1>6, <1>7, <1>8, <1>9, <1>10, <1>11, <1>12 DEF CopyNext

LEMMA CopyingStarts ==
  ASSUME CopyInit
  PROVE  Copying /\ Shelf = {} /\ Waiting(Ahead) = {}
<1>1. /\ stage = "phase" /\ phase = 0 /\ src = <<>> /\ batch = <<>> /\ trips = <<>> /\ loose = <<>>
      /\ todo = <<>> /\ ok = <<>> /\ written = {}
  BY DEF CopyInit
<1>2. Shelf = {} /\ Ahead = <<>>
  BY <1>1, NoRows DEF Shelf, Ahead
<1>3. Placed
  BY <1>1, NoRows DEF Placed
<1> QED BY <1>2, <1>3, NoEntries DEF Copying

LEMMA CopyingStep ==
  ASSUME feed \in Feed, ~HasBlankTimes, Copying, [CopyNext]_copyVars
  PROVE  Copying'
<1>1. UNCHANGED feed
  BY FeedKept
<1>2. Rows("trips")' = Rows("trips") /\ Rows("stop_times")' = Rows("stop_times") /\ TimeRows' = TimeRows
  BY <1>1, SameRows
<1>3. \A w : HasOwnTimes(w) => w.times \in Seq(TimeRows') /\ \A i \in DOMAIN w.times : w.times[i].trip = w.id
  BY <1>2 DEF HasOwnTimes
<1>4. ASSUME NEW w, w.times = <<>>
      PROVE  w.times \in Seq(TimeRows') /\ \A i \in DOMAIN w.times : w.times[i].trip = w.id
  BY <1>4, NoRows
<1>5. CASE Moves
  <2>1. Placed' /\ Entries(Rows("trips"), Rows("stop_times"), Ahead)'
    BY <1>2, <1>5 DEF Moves
  <2>2. phase' < 14 => \A w \in Shelf' : ~IsTrip(w)
    BY <1>5 DEF Moves, Copying, Placed
  <2>3. \A w \in Shelf' : IsTrip(w) => w.times \in Seq(TimeRows') /\ \A i \in DOMAIN w.times : w.times[i].trip = w.id
    BY <1>3, <1>4, <1>5 DEF Moves, Copying
  <2>4. (\A w \in Shelf : IsTrip(w) => HasOwnTimes(w))'
    BY <2>3 DEF HasOwnTimes
  <2> QED BY <2>1, <2>2, <2>4 DEF Copying
<1>6. ASSUME NEW w, Files(w) PROVE Copying'
  <2>1. Placed' /\ Entries(Rows("trips"), Rows("stop_times"), Ahead)'
    BY <1>2, <1>6 DEF Files
  <2>2. ~(phase' < 14)
    BY <1>6 DEF Files
  <2>3. \A v \in Shelf' : IsTrip(v) => v.times \in Seq(TimeRows') /\ \A i \in DOMAIN v.times : v.times[i].trip = v.id
    BY <1>3, <1>6 DEF Files, Copying
  <2>4. (\A v \in Shelf : IsTrip(v) => HasOwnTimes(v))'
    BY <2>3 DEF HasOwnTimes
  <2> QED BY <2>1, <2>2, <2>4 DEF Copying
<1> QED BY <1>5, <1>6, StepIs

-----------------------------------------------------------------------------
(* Stop patterns. *)
PatternInv ==
  /\ phase < 14 => DOMAIN stopPatterns = {}
  /\ TripsFiled(Shelf, TripNames, TimeRows, stopPatterns, Waiting(Ahead))
  /\ Numbered(TripNames, TimeRows, stopPatterns, Waiting(Ahead))

\* Feeds in which stop patterns can be told apart.
TellApart == ~HasBlankTimes /\ Apart(TripNames, TimeRows)

LEMMA PatternStart ==
  ASSUME CopyInit
  PROVE  PatternInv
<1>1. Shelf = {} /\ DOMAIN stopPatterns = {}
  BY CopyingStarts DEF CopyInit, Empty
<1>2. TripsFiled(Shelf, TripNames, TimeRows, stopPatterns, Waiting(Ahead))
  BY <1>1 DEF TripsFiled
<1>3. Numbered(TripNames, TimeRows, stopPatterns, Waiting(Ahead))
  BY <1>1, FS_EmptySet DEF Numbered
<1> QED BY <1>1, <1>2, <1>3 DEF PatternInv

LEMMA PatternStep ==
  ASSUME feed \in Feed, TellApart, Copying, PatternInv, [CopyNext]_copyVars
  PROVE  PatternInv'
<1> PICK names, sts, shelf, moved, table, next, open, fewer :
      /\ names = TripNames /\ sts = TimeRows /\ shelf = Shelf /\ moved = Shelf' /\ table = stopPatterns
      /\ next = stopPatterns' /\ open = Waiting(Ahead) /\ fewer = Waiting(Ahead')
  OBVIOUS
<1>1. TripNames' = names /\ TimeRows' = sts
  BY FeedKept, SameRows
<1>2. TripsFiled(shelf, names, sts, table, open) /\ Numbered(names, sts, table, open)
  BY DEF PatternInv
<1>3. CASE Moves
  <2>1. next = table /\ FromShelf(moved, shelf)
    BY <1>3 DEF Moves, patterns, FromShelf
  <2>2. phase' < 14 => DOMAIN next = {}
    BY <1>3, <2>1 DEF Moves, PatternInv
  <2>3. TripsFiled(moved, names, sts, next, fewer) /\ Numbered(names, sts, next, fewer)
    <3>1. CASE fewer \subseteq open
      BY <1>2, <2>1, <3>1, ShelfMoves, FewerOpen
    <3>2. CASE phase < 14 /\ phase' = 14
      <4>1. DOMAIN next = {} /\ \A w \in moved : ~IsTrip(w)
        BY <1>3, <2>1, <3>2 DEF Moves, Copying, Placed, PatternInv
      <4>2. TripsFiled(moved, names, sts, next, fewer)
        BY <4>1 DEF TripsFiled, HasTimes
      <4>3. Numbered(names, sts, next, fewer)
        BY <4>1, FS_EmptySet DEF Numbered
      <4> QED BY <4>2, <4>3
    <3> QED BY <1>3, <3>1, <3>2 DEF Moves
  <2> QED BY <1>1, <2>2, <2>3 DEF PatternInv
<1>4. ASSUME NEW w, Files(w) PROVE PatternInv'
  <2> PICK times, key, n : times = w.times /\ key = stopPatternKey(w, w.times) /\ n = w.pattern
    OBVIOUS
  <2>1. /\ TripsFiled(shelf \cup {w}, names, sts, Put(table, key, n), fewer)
        /\ Numbered(names, sts, Put(table, key, n), fewer)
    <3>1. /\ times \in Seq(sts) /\ times # <<>> /\ w.id \in names /\ w.id \in open /\ w.times = times
          /\ key = stopPatternKey(w, times) /\ fewer \subseteq open \ {w.id}
          /\ n = IF AllStopsHaveStopID(times) /\ key \in DOMAIN table THEN table[key] ELSE Cardinality(DOMAIN table)
      BY <1>4 DEF Files, HasTimes, HasOwnTimes
    <3>2. Apart(names, sts)
      BY DEF TellApart
    <3> QED BY <1>2, <3>1, <3>2, TripIsFiled
  <2>2. next = Put(table, key, n) /\ ~(phase' < 14)
    BY <1>4 DEF Files
  <2>3. TripsFiled(moved, names, sts, next, fewer)
    <3> PICK both : both = shelf \cup {w}
      OBVIOUS
    <3>1. FromShelf(moved, both)
      BY <1>4 DEF Files, FromShelf
    <3>2. TripsFiled(both, names, sts, next, fewer)
      BY <2>1, <2>2
    <3> QED BY <3>1, <3>2, ShelfMoves
  <2> QED BY <1>1, <2>1, <2>2, <2>3 DEF PatternInv
<1>5. ~HasBlankTimes
  BY DEF TellApart
<1> QED BY <1>3, <1>4, <1>5, StepIs

\* Trips with the number of their own pattern share it with those of that pattern.
LEMMA PatternsOf ==
  ASSUME TellApart, PatternInv
  PROVE  StopPatternsFollowStops
<1> SUFFICES ASSUME NEW a \in Timed, NEW b \in Timed, a.line # b.line
             PROVE  (a.pattern = b.pattern
                      <=> AllStopsHaveStopID(a.times) /\ AllStopsHaveStopID(b.times) /\ Stops(a.times) = Stops(b.times))
  BY DEF StopPatternsFollowStops
<1> PICK names, sts, table, open :
      names = TripNames /\ sts = TimeRows /\ table = stopPatterns /\ open = Waiting(Ahead)
  OBVIOUS
<1>1. TripsFiled(Shelf, names, sts, table, open) /\ Numbered(names, sts, table, open) /\ Apart(names, sts)
  BY DEF PatternInv, TellApart
<1>2. a \in Shelf /\ b \in Shelf /\ HasTimes(a) /\ HasTimes(b)
  BY DEF Timed, Shelf, HasTimes, IsTrip
<1> PICK ka, kb : ka = stopPatternKey(a, a.times) /\ kb = stopPatternKey(b, b.times)
  OBVIOUS
<1>3. /\ a.id \in names /\ b.id \in names /\ a.id # b.id
      /\ a.times \in Seq(sts) /\ b.times \in Seq(sts) /\ a.times # <<>> /\ b.times # <<>>
      /\ ka \in DOMAIN table /\ kb \in DOMAIN table /\ a.pattern = table[ka] /\ b.pattern = table[kb]
  BY <1>1, <1>2 DEF TripsFiled, HasTimes
<1>4. a.pattern = b.pattern <=> ka = kb
  BY <1>1, <1>3 DEF Numbered
<1>5. /\ ka = IF AllStopsHaveStopID(a.times) THEN Stops(a.times) ELSE <<a.id>>
      /\ kb = IF AllStopsHaveStopID(b.times) THEN Stops(b.times) ELSE <<b.id>>
  BY DEF stopPatternKey
<1>6. ASSUME NEW s \in Seq(sts), s # <<>>, NEW t \in names PROVE Stops(s) # <<t>>
  <2>1. PICK r \in sts : Stops(s)[1] = r.stop
    BY <1>6, FirstStop
  <2>2. <<t>>[1] = t
    OBVIOUS
  <2> QED BY <1>1, <2>1, <2>2 DEF Apart
<1>7. CASE AllStopsHaveStopID(a.times) /\ AllStopsHaveStopID(b.times)
  BY <1>4, <1>5, <1>7
<1>8. CASE AllStopsHaveStopID(a.times) /\ ~AllStopsHaveStopID(b.times)
  BY <1>3, <1>4, <1>5, <1>6, <1>8
<1>9. CASE ~AllStopsHaveStopID(a.times) /\ AllStopsHaveStopID(b.times)
  BY <1>3, <1>4, <1>5, <1>6, <1>9
<1>10. CASE ~AllStopsHaveStopID(a.times) /\ ~AllStopsHaveStopID(b.times)
  <2>1. <<a.id>> # <<b.id>>
    BY <1>3
  <2> QED BY <1>4, <1>5, <1>10, <2>1
<1> QED BY <1>7, <1>8, <1>9, <1>10

\* Two trips have the same stop pattern number exactly when they visit the same
\* stops in the same order, and a flex trip shares its number with none: for every
\* feed in which stop_times have a trip_id and no trip has the name of a stop,
\* whichever reader yields the trips, however they are cut into batches, whatever
\* is rejected and wherever the writer fails.
THEOREM PatternsFollow == CopySpec => []StopPatternsFollowStops
<1> DEFINE Inv == TellApart => Copying /\ PatternInv
<1>1. CopyInit => Inv
  BY CopyingStarts, PatternStart
<1>2. feed \in Feed /\ Inv /\ [CopyNext]_copyVars => Inv'
  <2> SUFFICES ASSUME feed \in Feed, TellApart => Copying /\ PatternInv, [CopyNext]_copyVars, TellApart'
               PROVE  (Copying /\ PatternInv)'
    OBVIOUS
  <2>1. TellApart
    <3>1. UNCHANGED feed
      BY FeedKept
    <3>2. HasBlankTimes' = HasBlankTimes /\ Apart(TripNames, TimeRows)' = Apart(TripNames, TimeRows)
      BY <3>1, SameRows
    <3>3. ~HasBlankTimes' /\ Apart(TripNames, TimeRows)'
      BY DEF TellApart
    <3> QED BY <3>2, <3>3 DEF TellApart
  <2>2. Copying'
    BY <2>1, CopyingStep DEF TellApart
  <2>3. PatternInv'
    BY <2>1, PatternStep
  <2> QED BY <2>2, <2>3
<1>3. Inv => StopPatternsFollowStops
  <2>1. CASE TellApart
    BY <2>1, PatternsOf
  <2>2. CASE ~TellApart
    <3>1. HasBlankTimes \/ ~\A r \in ToSet(Rows("trips")), t \in ToSet(Rows("stop_times")) : r.id # t.stop
      BY <2>2 DEF TellApart, Apart, TripNames, TimeRows
    <3> QED BY <3>1 DEF StopPatternsFollowStops
  <2> QED BY <2>1, <2>2
<1> HIDE DEF Inv
<1> QED BY <1>1, <1>2, <1>3, FeedIsAFeed, PTL DEF CopySpec

-----------------------------------------------------------------------------
(* Journey patterns.  brought are the journey patterns and the trips that       *)
(* brought them, dups the trips filed as duplicates of one of these.           *)
Repeats(w, brought) ==
  LET key == journeyPatternKey(w, w.times) IN
  key # <<>> /\ key \in DOMAIN brought /\ w.journey = brought[key]

JourneysFiled(shelf, names, brought, dups, open) ==
  /\ dups \subseteq names \ open
  /\ \A w \in shelf : HasTimes(w) => /\ w.id \in names \ open
                                     /\ w.id \in dups => Repeats(w, brought)
  /\ \A key \in DOMAIN brought :
       /\ brought[key] \in names \ open /\ brought[key] \notin dups
       /\ \A v \in shelf : HasTimes(v) /\ v.id = brought[key] => journeyPatternKey(v, v.times) = key

LEMMA JourneysMove ==
  ASSUME NEW shelf, NEW names, NEW brought, NEW dups, NEW open,
         JourneysFiled(shelf, names, brought, dups, open),
         NEW moved, FromShelf(moved, shelf), NEW fewer, fewer \subseteq open
  PROVE  JourneysFiled(moved, names, brought, dups, fewer)
<1>1. \A w \in moved : HasTimes(w) => w \in shelf
  BY DEF HasTimes, FromShelf
<1> QED BY <1>1 DEF JourneysFiled

\* A trip that waits for its patterns brings a journey pattern or repeats one.
LEMMA JourneyIsFiled ==
  ASSUME NEW shelf, NEW names, NEW brought, NEW dups, NEW open,
         JourneysFiled(shelf, names, brought, dups, open),
         NEW w, w.id \in names, w.id \in open, NEW key, key = journeyPatternKey(w, w.times),
         NEW dup, dup = (key # <<>> /\ key \in DOMAIN brought),
         w.journey = IF dup THEN brought[key] ELSE w.id,
         NEW next, next = IF key = <<>> \/ dup THEN brought ELSE Put(brought, key, w.id),
         NEW more, more = IF dup THEN dups \cup {w.id} ELSE dups,
         NEW fewer, fewer \subseteq open \ {w.id}
  PROVE  JourneysFiled(shelf \cup {w}, names, next, more, fewer)
<1>1. /\ \A k \in DOMAIN brought : k \in DOMAIN next /\ next[k] = brought[k]
      /\ \A k \in DOMAIN next \ DOMAIN brought : ~dup /\ k = key /\ next[k] = w.id
  BY DEF Put
<1>2. \A k \in DOMAIN brought : brought[k] # w.id
  BY DEF JourneysFiled
<1>3. w.id \notin dups /\ \A v \in shelf : HasTimes(v) => v.id # w.id
  BY DEF JourneysFiled
<1>4. more \subseteq names \ fewer
  BY DEF JourneysFiled
<1>5. \A v \in shelf \cup {w} : HasTimes(v) => /\ v.id \in names \ fewer
                                               /\ v.id \in more => Repeats(v, next)
  <2> TAKE v \in shelf \cup {w}
  <2>1. CASE v = w
    <3>1. w.id \in more => dup
      BY <1>3
    <3>2. dup => Repeats(w, next)
      BY <1>1 DEF Repeats
    <3> QED BY <2>1, <3>1, <3>2
  <2>2. CASE v \in shelf
    <3>1. HasTimes(v) => /\ v.id \in names \ open /\ v.id # w.id
                         /\ v.id \in dups => Repeats(v, brought)
      BY <1>3, <2>2 DEF JourneysFiled
    <3>2. Repeats(v, brought) => Repeats(v, next)
      BY <1>1 DEF Repeats
    <3> QED BY <3>1, <3>2
  <2> QED BY <2>1, <2>2
<1>6. ASSUME NEW k \in DOMAIN next
      PROVE  /\ next[k] \in names \ fewer /\ next[k] \notin more
             /\ \A v \in shelf \cup {w} : HasTimes(v) /\ v.id = next[k] => journeyPatternKey(v, v.times) = k
  <2>1. CASE k \in DOMAIN brought
    <3>1. /\ next[k] = brought[k] /\ brought[k] \in names \ open /\ brought[k] \notin dups
          /\ \A v \in shelf : HasTimes(v) /\ v.id = brought[k] => journeyPatternKey(v, v.times) = k
      BY <1>1, <2>1 DEF JourneysFiled
    <3> QED BY <1>2, <2>1, <3>1
  <2>2. CASE k \notin DOMAIN brought
    <3>1. ~dup /\ k = key /\ next[k] = w.id
      BY <1>1, <2>2
    <3> QED BY <1>3, <3>1
  <2> QED BY <2>1, <2>2
<1> QED BY <1>4, <1>5, <1>6 DEF JourneysFiled

JourneyInv ==
  /\ phase < 14 => DOMAIN journeys = {} /\ dedup = {}
  /\ JourneysFiled(Shelf, TripNames, journeys, dedup, Waiting(Ahead))

LEMMA JourneyStart ==
  ASSUME CopyInit
  PROVE  JourneyInv
<1>1. Shelf = {} /\ DOMAIN journeys = {} /\ dedup = {}
  BY CopyingStarts DEF CopyInit, Empty
<1> QED BY <1>1 DEF JourneyInv, JourneysFiled

LEMMA JourneyStep ==
  ASSUME feed \in Feed, ~HasBlankTimes, Copying, JourneyInv, [CopyNext]_copyVars
  PROVE  JourneyInv'
<1> PICK names, shelf, moved, brought, next, dups, more, open, fewer :
      /\ names = TripNames /\ shelf = Shelf /\ moved = Shelf' /\ brought = journeys /\ next = journeys'
      /\ dups = dedup /\ more = dedup' /\ open = Waiting(Ahead) /\ fewer = Waiting(Ahead')
  OBVIOUS
<1>1. TripNames' = names
  BY FeedKept, SameRows
<1>2. JourneysFiled(shelf, names, brought, dups, open)
  BY DEF JourneyInv
<1>3. CASE Moves
  <2>1. next = brought /\ more = dups /\ FromShelf(moved, shelf)
    BY <1>3 DEF Moves, patterns, FromShelf
  <2>2. phase' < 14 => DOMAIN next = {} /\ more = {}
    BY <1>3, <2>1 DEF Moves, JourneyInv
  <2>3. JourneysFiled(moved, names, next, more, fewer)
    <3>1. CASE fewer \subseteq open
      BY <1>2, <2>1, <3>1, JourneysMove
    <3>2. CASE phase < 14 /\ phase' = 14
      <4>1. DOMAIN next = {} /\ more = {} /\ \A w \in moved : ~IsTrip(w)
        BY <1>3, <2>1, <3>2 DEF Moves, Copying, Placed, JourneyInv
      <4> QED BY <4>1 DEF JourneysFiled, HasTimes
    <3> QED BY <1>3, <3>1, <3>2 DEF Moves
  <2> QED BY <1>1, <2>2, <2>3 DEF JourneyInv
<1>4. ASSUME NEW w, Files(w) PROVE JourneyInv'
  <2> PICK key, dup, both : /\ key = journeyPatternKey(w, w.times) /\ dup = (key # <<>> /\ key \in DOMAIN brought)
                            /\ both = shelf \cup {w}
    OBVIOUS
  <2>1. /\ w.id \in names /\ w.id \in open /\ fewer \subseteq open \ {w.id}
        /\ w.journey = IF dup THEN brought[key] ELSE w.id
        /\ next = IF key = <<>> \/ dup THEN brought ELSE Put(brought, key, w.id)
        /\ more = IF dup THEN dups \cup {w.id} ELSE dups
    BY <1>4 DEF Files, FollowsJourney
  <2>2. JourneysFiled(both, names, next, more, fewer)
    <3>1. JourneysFiled(shelf \cup {w}, names, next, more, fewer)
      BY <1>2, <2>1, JourneyIsFiled
    <3> QED BY <3>1
  <2>3. JourneysFiled(moved, names, next, more, fewer)
    <3>1. FromShelf(moved, both)
      BY <1>4 DEF Files, FromShelf
    <3> QED BY <2>2, <3>1, JourneysMove
  <2>4. ~(phase' < 14)
    BY <1>4 DEF Files
  <2> QED BY <1>1, <2>3, <2>4 DEF JourneyInv
<1> QED BY <1>3, <1>4, StepIs

-----------------------------------------------------------------------------
(* The stop_times of the trips that were written.  Rows that are read with the  *)
(* trips or after them have no keys that a row of stop_times.txt waits for.    *)
Late(w) == \A k \in Keys(w) : k[1] \notin BeforeTrips

LEMMA LateRows ==
  ASSUME feed \in Feed
  PROVE  /\ \A r \in TimeRows : /\ Keys(r) = {} /\ Late(r)
                                /\ \A k \in r.refs : k = <<"trips.txt", r.trip>> \/ k[1] \in BeforeTrips
         /\ \A n \in 14..33 : \A r \in ToSet(Rows(Phases[n])) : Late(r)
         /\ \A w : IsLink(w) => Late(w)
<1>1. ASSUME NEW p, NEW r \in ToSet(Rows(p))
      PROVE  /\ p = "stop_times" => /\ Keys(r) = {}
                                    /\ \A k \in r.refs : k = <<"trips.txt", r.trip>> \/ k[1] \in BeforeTrips
             /\ (\A n \in 1..13 : p # Phases[n]) => Late(r)
  <2>1. PICK rows : rows = Rows(p)
    OBVIOUS
  <2>2. PICK i \in DOMAIN rows : r = rows[i]
    BY <1>1, <2>1 DEF ToSet
  <2>3. p \in DOMAIN feed /\ rows = feed[p]
    BY <2>1, RowsAre
  <2> QED BY <2>2, <2>3, StopTimesAssumption DEF Late
<1>2. \A r \in TimeRows : /\ Keys(r) = {} /\ Late(r)
                          /\ \A k \in r.refs : k = <<"trips.txt", r.trip>> \/ k[1] \in BeforeTrips
  BY <1>1 DEF TimeRows, Late
<1>3. \A n \in 14..33 : \A r \in ToSet(Rows(Phases[n])) : Late(r)
  BY <1>1, PhasesApart
<1>4. \A w : IsLink(w) => Late(w)
  BY DEF IsLink, Late, Keys, Key, BeforeTrips
<1> QED BY <1>2, <1>3, <1>4

\* Between two batches nothing is on its way; trips are in a batch of trips.
Resting ==
  /\ stage \in {"phase", "done", "assign"} => todo = <<>> /\ ok = <<>>
  /\ stage \in {"phase", "done"} \/ phase # 14 => trips = <<>>
  /\ \A w \in RowsOf(todo) \cup ToSet(ok) : IsTrip(w) => trips # <<>>

Lateness ==
  phase >= 14 => /\ \A w \in ToSet(trips) \cup RowsOf(todo) : Late(w)
                 /\ phase > 14 => \A r \in ToSet(src) : Late(r)

\* A row that is written or will be, has a fault, or refers to a row of an earlier
\* file that was left out.
Settled(r) ==
  \/ r \in RowsOf(todo) \cup written
  \/ r.fault # "none"
  \/ \E k \in r.refs : k[1] \in BeforeTrips /\ k \notin emap

TimesFollow ==
  \A w \in written : HasTimes(w) =>
    \/ opt.dedup /\ w.id \in dedup
    \/ w \in ToSet(ok) /\ trips # <<>>
    \/ \A i \in DOMAIN w.times : Settled(w.times[i])

FollowInv == Resting /\ KeysOf(written) \subseteq emap /\ Lateness /\ TimesFollow

\* What is known stays known, and nothing is added that stop_times wait for.
Lasting ==
  /\ UNCHANGED <<feed, opt>> /\ dedup \subseteq dedup' /\ written \subseteq written'
  /\ \A k \in emap' \ emap : k[1] \notin BeforeTrips

LEMMA StillSettled ==
  ASSUME Lasting, NEW r, Settled(r), r \in RowsOf(todo) => Settled(r)'
  PROVE  Settled(r)'
BY DEF Lasting, Settled

LEMMA GroupKnown ==
  ASSUME UNCHANGED <<feed, opt>>, KeysOf(written) \subseteq emap, NEW group, CheckAndWrite(group)
  PROVE  /\ written \subseteq written' /\ (KeysOf(written) \subseteq emap)'
         /\ (\A i \in DOMAIN group : Late(group[i])) => \A k \in emap' \ emap : k[1] \notin BeforeTrips
<1> DEFINE new == {group[i] : i \in Passed(group)}
<1>1. written' = written \cup new /\ emap' = emap \cup KeysOf(new)
  BY DEF CheckAndWrite, KeysOf
<1>2. KeysOf(written') \subseteq emap'
  BY <1>1 DEF KeysOf
<1>3. KeysOf(written)' = KeysOf(written')
  BY SameFeed
<1>4. ASSUME \A i \in DOMAIN group : Late(group[i]), NEW k \in KeysOf(new) PROVE k[1] \notin BeforeTrips
  <2>1. PICK i \in DOMAIN group : k \in Keys(group[i]) \/ k \in CompatKeys(group[i])
    BY DEF KeysOf, Passed
  <2>2. k \in Keys(group[i]) => k[1] \notin BeforeTrips
    BY <1>4 DEF Late
  <2>3. k \in CompatKeys(group[i]) => k[1] = "networks.txt"
    BY DEF CompatKeys
  <2> QED BY <2>1, <2>2, <2>3 DEF BeforeTrips
<1> QED BY <1>1, <1>2, <1>3, <1>4

\* A step between two batches: what was settled stays settled.
LEMMA RestingFollow ==
  ASSUME TimesFollow, todo = <<>>, ok = <<>>, Lasting, \A w \in written' : w \in written \/ ~IsTrip(w)
  PROVE  TimesFollow'
<1> SUFFICES ASSUME NEW w \in written', HasTimes(w), ~(opt.dedup /\ w.id \in dedup)'
             PROVE  \A i \in DOMAIN w.times : Settled(w.times[i])'
  BY DEF TimesFollow
<1>1. w \in written /\ ~(opt.dedup /\ w.id \in dedup) /\ w \notin ToSet(ok)
  BY NoRows DEF HasTimes, Lasting
<1>2. \A i \in DOMAIN w.times : Settled(w.times[i])
  BY <1>1 DEF TimesFollow
<1>3. \A r : r \notin RowsOf(todo)
  BY NoRows
<1> QED BY <1>2, <1>3, StillSettled

\* Before the phase of the trips there is none.
LEMMA EarlyFollows ==
  ASSUME Copying', phase' < 14
  PROVE  Lateness' /\ TimesFollow'
<1>1. (\A w \in written : ~HasTimes(w))' /\ ~(phase' >= 14)
  BY DEF Copying, Placed, Shelf, HasTimes
<1> QED BY <1>1 DEF Lateness, TimesFollow

LEMMA NextPhaseFollows ==
  ASSUME feed \in Feed, Copying, Copying', FollowInv, NextPhase
  PROVE  FollowInv'
<1>1. /\ stage = "phase" /\ src = <<>> /\ todo = <<>> /\ ok = <<>> /\ trips = <<>>
      /\ UNCHANGED <<feed, opt, trips, todo, ok, emap, written, dedup>> /\ phase \in 0..33
      /\ stage' \in {"phase", "done"}
  BY DEF NextPhase, FollowInv, Resting, patterns, Copying, Placed
<1>2. Resting'
  BY <1>1, NoRows DEF Resting
<1>3. (KeysOf(written) \subseteq emap)'
  BY <1>1, SameFeed DEF FollowInv
<1>4. TimesFollow'
  <2>1. Lasting
    BY <1>1 DEF Lasting
  <2> QED BY <1>1, <2>1, RestingFollow DEF FollowInv
<1>5. Lateness'
  <2>1. ASSUME phase' > 14, NEW r \in ToSet(src') PROVE Late(r)
    <3>1. CASE phase = Len(Phases)
      <4>1. src' = <<>>
        BY <1>1, <3>1 DEF NextPhase
      <4> QED BY <2>1, <4>1, NoRows
    <3>2. CASE phase # Len(Phases)
      <4>0. phase' = phase + 1 /\ src' \in Source(Phases[phase + 1])
        BY <3>2 DEF NextPhase
      <4>1. phase' = phase + 1 /\ src' \in Source(Phases[phase + 1]) /\ phase + 1 \in 15..33
        <5>1. Len(Phases) = 33
          BY PhasesAre
        <5> QED BY <1>1, <2>1, <3>2, <4>0, <5>1
      <4>2. PICK p : p = Phases[phase + 1] /\ p # "trips" /\ p # "generated"
        BY <4>1, PhasesAre
      <4>3. src' = Rows(p)
        BY <4>1, <4>2 DEF Source
      <4> QED BY <2>1, <4>1, <4>2, <4>3, LateRows
    <3> QED BY <3>1, <3>2
  <2> QED BY <1>1, <2>1, NoRows DEF Lateness, Late
<1> QED BY <1>2, <1>3, <1>4, <1>5 DEF FollowInv

LEMMA TakeBatchFollows ==
  ASSUME feed \in Feed, Copying, Copying', FollowInv, TakeBatch
  PROVE  FollowInv'
<1>1. /\ stage = "phase" /\ todo = <<>> /\ ok = <<>> /\ trips = <<>> /\ src \in Seq(ToSet(src))
      /\ UNCHANGED <<feed, opt, phase, trips, emap, written, dedup>>
      /\ stage' = "write" /\ src' = SubSeq(src, Len(Taken(Phases[phase])) + 1, Len(src))
  BY DEF TakeBatch, FollowInv, Resting, patterns, Copying, Placed
<1>2. ok' = <<>> /\ \A w \in RowsOf(todo') : ~IsTrip(w) /\ (w \in ToSet(src) \/ IsLink(w))
  BY TakeBatchMoves
<1>3. Resting'
  BY <1>1, <1>2, NoRows DEF Resting
<1>4. (KeysOf(written) \subseteq emap)'
  BY <1>1, SameFeed DEF FollowInv
<1>5. TimesFollow'
  <2>1. Lasting
    BY <1>1 DEF Lasting
  <2> QED BY <1>1, <2>1, RestingFollow DEF FollowInv
<1>6. Lateness'
  <2>1. CASE phase' < 14
    BY <2>1, EarlyFollows
  <2>2. CASE phase' >= 14
    <3>1. phase # 14
      BY PhasesAre DEF TakeBatch
    <3>2. phase > 14 /\ phase >= 14
      BY <1>1, <2>2, <3>1 DEF Copying, Placed
    <3>3. \A r \in ToSet(src) : Late(r)
      BY <3>2 DEF FollowInv, Lateness
    <3>4. ToSet(src') \subseteq ToSet(src)
      <4>1. PICK X, rest : X = ToSet(src) /\ rest = SubSeq(src, Len(Taken(Phases[phase])) + 1, Len(src)) /\ rest \in Seq(X)
        BY <1>1, TakenIs
      <4> QED BY <1>1, <4>1, Members
    <3> QED BY <1>1, <1>2, <3>3, <3>4, LateRows, NoRows DEF Lateness, Late
  <2>3. phase' \in 0..33
    BY DEF Copying, Placed
  <2> QED BY <2>1, <2>2, <2>3
<1> QED BY <1>3, <1>4, <1>5, <1>6 DEF FollowInv

LEMMA TakeGeneratedFollows ==
  ASSUME feed \in Feed, Copying, Copying', FollowInv, TakeGenerated
  PROVE  FollowInv'
<1>1. /\ stage = "phase" /\ trips = <<>> /\ UNCHANGED <<feed, opt, phase, trips, written>> /\ emap \subseteq emap'
      /\ stage' = "write"
  BY DEF TakeGenerated, FollowInv, Resting
<1>2. \A w \in RowsOf(todo') \cup ToSet(ok') : ~IsTrip(w)
  BY TakeGeneratedMoves
<1>3. phase' < 14
  <2>1. phase' \in 0..33 /\ Phases[phase'] = "generated"
    BY <1>1 DEF TakeGenerated, Copying, Placed
  <2> QED BY <2>1, PhasesAre
<1>4. Resting'
  BY <1>1, <1>2 DEF Resting
<1>5. (KeysOf(written) \subseteq emap)'
  BY <1>1, SameFeed DEF FollowInv
<1> QED BY <1>3, <1>4, <1>5, EarlyFollows DEF FollowInv

LEMMA TakeTripsFollows ==
  ASSUME feed \in Feed, Copying, FollowInv, TakeTrips
  PROVE  FollowInv'
<1>1. /\ stage = "phase" /\ todo = <<>> /\ ok = <<>> /\ trips = <<>>
      /\ UNCHANGED <<feed, opt, phase, trips, todo, ok, emap, written, dedup>> /\ stage' = "assign"
  BY DEF TakeTrips, FollowInv, Resting, patterns
<1>2. phase = 14
  <2>1. Phases[phase] = "trips" /\ phase # 0 /\ phase \in 0..33
    BY DEF TakeTrips, Copying, Placed
  <2>2. phase \in 1..33
    BY <2>1
  <2> QED BY <2>1, <2>2, PhasesAre
<1>3. Resting'
  BY <1>1, NoRows DEF Resting
<1>4. (KeysOf(written) \subseteq emap)'
  BY <1>1, SameFeed DEF FollowInv
<1>5. TimesFollow'
  <2>1. Lasting
    BY <1>1 DEF Lasting
  <2> QED BY <1>1, <2>1, RestingFollow DEF FollowInv
<1>6. Lateness'
  BY <1>1, <1>2, NoRows DEF Lateness, Late
<1> QED BY <1>3, <1>4, <1>5, <1>6 DEF FollowInv

\* Trips of a batch are rows of trips.txt.
LEMMA MoreTrips ==
  ASSUME feed \in Feed, Lateness, phase = 14, UNCHANGED <<phase, todo>>, trips \in Seq(ToSet(trips)),
         NEW w, trips' = Append(trips, w), \E r \in ToSet(Rows("trips")) : Keys(w) = Keys(r)
  PROVE  Lateness'
<1>1. Late(w)
  <2>1. Phases[14] = "trips" /\ 14 \in 14..33
    BY PhasesAre
  <2> QED BY <2>1, LateRows DEF Late
<1>2. ToSet(trips') \subseteq ToSet(trips) \cup {w}
  <2>1. PICK s, X : s = trips /\ X = ToSet(trips) \cup {w} /\ s \in Seq(ToSet(s))
    OBVIOUS
  <2>2. s \in Seq(X) /\ w \in X
    <3>1. \A i \in DOMAIN s : s[i] \in X
      BY <2>1 DEF ToSet
    <3> QED BY <2>1, <3>1, TypedBy
  <2>3. Append(s, w) \in Seq(X)
    BY <2>2
  <2> QED BY <2>1, <2>3, Members
<1> QED BY <1>1, <1>2 DEF Lateness, Late

LEMMA AssignTripFollows ==
  ASSUME feed \in Feed, ~HasBlankTimes, Copying, FollowInv, AssignTrip
  PROVE  FollowInv'
<1>1. /\ stage = "assign" /\ todo = <<>> /\ ok = <<>> /\ phase = 14 /\ trips \in Seq(ToSet(trips))
      /\ UNCHANGED <<feed, opt, stage, phase, todo, ok>>
  BY DEF AssignTrip, FollowInv, Resting, Copying, Placed
<1> PICK w : /\ Files(w) /\ trips' = Append(trips, w)
             /\ \E r \in ToSet(Rows("trips")) : Keys(w) = Keys(r)
  BY AssignTripFiles
<1>2. Resting'
  BY <1>1, NoRows DEF Resting
<1>3. Lateness'
  BY <1>1, MoreTrips DEF FollowInv
<1>4. /\ (KeysOf(written) \subseteq emap)' /\ written \subseteq written'
      /\ \A k \in emap' \ emap : k[1] \notin BeforeTrips
      /\ \A v \in written' : v \in written \/ ~IsTrip(v)
  <2>1. CASE UNCHANGED <<written, emap>>
    BY <1>1, <2>1, SameFeed DEF FollowInv
  <2>2. ASSUME NEW m, NEW second, CheckAndWrite(<<GeneratedShape(m, second)>>)
        PROVE  /\ (KeysOf(written) \subseteq emap)' /\ written \subseteq written'
               /\ \A k \in emap' \ emap : k[1] \notin BeforeTrips
               /\ \A v \in written' : v \in written \/ ~IsTrip(v)
    <3> PICK shape, group : shape = GeneratedShape(m, second) /\ group = <<shape>>
      OBVIOUS
    <3>1. shape.file = "shapes.txt" /\ shape.groups = {} /\ \A i \in DOMAIN group : group[i] = shape
      BY ShapesAre
    <3>2. \A i \in DOMAIN group : Late(group[i]) /\ ~IsTrip(group[i])
      BY <3>1 DEF Late, Keys, Key, IsTrip, BeforeTrips
    <3>3. CheckAndWrite(group)
      BY <2>2
    <3>4. \A v \in written' : v \in written \/ ~IsTrip(v)
      BY <3>2, <3>3 DEF CheckAndWrite, Passed
    <3> QED BY <1>1, <3>2, <3>3, <3>4, GroupKnown DEF FollowInv
  <2> QED BY <2>1, <2>2, AssignTripFiles
<1>5. TimesFollow'
  <2>1. dedup \subseteq dedup'
    BY DEF Files, FollowsJourney
  <2>2. Lasting
    BY <1>1, <1>4, <2>1 DEF Lasting
  <2> QED BY <1>1, <1>4, <2>2, RestingFollow DEF FollowInv
<1> QED BY <1>2, <1>3, <1>4, <1>5 DEF FollowInv

LEMMA AssignOtherFollows ==
  ASSUME feed \in Feed, ~HasBlankTimes, Copying, FollowInv, AssignOther
  PROVE  FollowInv'
<1>1. /\ stage = "assign" /\ todo = <<>> /\ ok = <<>> /\ phase = 14 /\ trips \in Seq(ToSet(trips))
      /\ batch # <<>> /\ batch' = Tail(batch)
      /\ UNCHANGED <<feed, opt, stage, phase, src, todo, ok, emap, written, dedup>>
  BY DEF AssignOther, FollowInv, Resting, Copying, Placed, patterns
<1>2. Resting'
  BY <1>1, NoRows DEF Resting
<1>3. Lateness'
  <2>1. CASE Head(batch).valid
    <3>1. Head(batch).trip \in TripRow(Rows("trips"))
      <4>1. Ahead # <<>> /\ Head(batch) = Head(Ahead)
        BY <1>1, NextTrip
      <4>2. Head(batch) \in EntrySet(Rows("trips"), Rows("stop_times"))
        BY <4>1, NextEntry DEF Copying
      <4> QED BY <2>1, <4>2, EntryIs
    <3>2. PICK trip, w : trip = Head(batch).trip /\ w = Put(trip, "times", <<>>)
      OBVIOUS
    <3>3. /\ {"id", "file", "groups"} \subseteq DOMAIN trip
          /\ \E r \in ToSet(Rows("trips")) : trip.file = r.file /\ trip.id = r.id /\ trip.groups = r.groups
      BY <3>1, <3>2, RowOfTrip
    <3>4. w.file = trip.file /\ w.id = trip.id /\ w.groups = trip.groups
      BY <3>2, <3>3, PutOther
    <3>5. \E r \in ToSet(Rows("trips")) : Keys(w) = Keys(r)
      BY <3>3, <3>4 DEF Keys, Key
    <3>6. trips' = Append(trips, w)
      BY <2>1, <3>2 DEF AssignOther
    <3> QED BY <1>1, <3>5, <3>6, MoreTrips DEF FollowInv
  <2>2. CASE ~Head(batch).valid
    <3>1. UNCHANGED trips
      BY <2>2 DEF AssignOther
    <3> QED BY <1>1, <3>1 DEF FollowInv, Lateness, Late
  <2> QED BY <2>1, <2>2
<1>4. (KeysOf(written) \subseteq emap)'
  BY <1>1, SameFeed DEF FollowInv
<1>5. TimesFollow'
  <2>1. Lasting
    BY <1>1 DEF Lasting
  <2> QED BY <1>1, <2>1, RestingFollow DEF FollowInv
<1> QED BY <1>2, <1>3, <1>4, <1>5 DEF FollowInv

LEMMA WriteTripsFollows ==
  ASSUME feed \in Feed, Copying, FollowInv, WriteTrips
  PROVE  FollowInv'
<1>1. /\ stage = "assign" /\ todo = <<>> /\ ok = <<>> /\ phase = 14 /\ stage' = "write"
      /\ UNCHANGED <<feed, opt, phase, trips, emap, written, dedup>>
  BY DEF WriteTrips, FollowInv, Resting, Copying, Placed, patterns
<1>2. ok' = <<>> /\ \A w \in RowsOf(todo') : w \in ToSet(trips) \/ (IsLink(w) /\ ~IsTrip(w))
  BY WriteTripsMoves
<1>3. Resting'
  <2>1. \A w \in RowsOf(todo') : IsTrip(w) => trips # <<>>
    BY <1>2, NoRows
  <2> QED BY <1>1, <1>2, <2>1, NoRows DEF Resting
<1>4. Lateness'
  <2>1. \A w \in ToSet(trips) : Late(w)
    BY <1>1 DEF FollowInv, Lateness
  <2> QED BY <1>1, <1>2, <2>1, LateRows DEF Lateness, Late
<1>5. (KeysOf(written) \subseteq emap)'
  BY <1>1, SameFeed DEF FollowInv
<1>6. TimesFollow'
  <2>1. Lasting
    BY <1>1 DEF Lasting
  <2> QED BY <1>1, <2>1, RestingFollow DEF FollowInv
<1> QED BY <1>3, <1>4, <1>5, <1>6 DEF FollowInv

\* What becomes of the rows when a group of them is written.
LEMMA WriteGroupRows ==
  ASSUME Copying, WriteGroup
  PROVE  /\ Head(todo) \in Seq(RowsOf(todo)) /\ ToSet(Head(todo)) \subseteq RowsOf(todo)
         /\ RowsOf(todo') \subseteq RowsOf(todo) /\ RowsOf(todo) \subseteq RowsOf(todo') \cup ToSet(Head(todo))
         /\ ToSet(ok') = ToSet(ok) \cup {Head(todo)[i] : i \in Passed(Head(todo))}
         /\ written' = written \cup {Head(todo)[i] : i \in Passed(Head(todo))}
<1>1. /\ todo # <<>> /\ todo \in Seq(Seq(RowsOf(todo))) /\ ok \in Seq(ToSet(ok))
      /\ ok' = ok \o AcceptedRows(Head(todo)) /\ todo' = Tail(todo)
      /\ written' = written \cup {Head(todo)[i] : i \in Passed(Head(todo))}
  BY DEF WriteGroup, Copying, Placed, CheckAndWrite
<1> PICK group, Y, q, tail : group = Head(todo) /\ Y = RowsOf(todo) /\ q = todo /\ tail = Tail(q)
  OBVIOUS
<1>2. /\ group \in Seq(Y) /\ ToSet(group) \subseteq Y /\ RowsOf(todo') \subseteq Y
  BY <1>1, FirstGroup
<1>3. Y \subseteq RowsOf(tail) \cup ToSet(group)
  <2>1. q \in Seq(Seq(Y)) /\ q # <<>>
    BY <1>1
  <2>2. PICK Z : Z = Seq(Y)
    OBVIOUS
  <2>3. q \in Seq(Z) /\ q # <<>>
    BY <2>1, <2>2
  <2>4. /\ Head(q) = q[1] /\ DOMAIN q = 1..Len(q) /\ DOMAIN tail = 1..(Len(q) - 1) /\ Len(q) \in Nat
        /\ \A k \in 1..(Len(q) - 1) : tail[k] = q[k + 1]
    BY <2>3
  <2>5. ASSUME NEW g \in DOMAIN q PROVE ToSet(q[g]) \subseteq RowsOf(tail) \cup ToSet(group)
    <3>1. CASE g = 1
      BY <2>4, <3>1
    <3>2. CASE g # 1
      <4>1. g - 1 \in DOMAIN tail /\ tail[g - 1] = q[g]
        BY <2>4, <3>2
      <4> QED BY <4>1 DEF RowsOf
    <3> QED BY <3>1, <3>2
  <2> QED BY <2>5 DEF RowsOf
<1>4. ToSet(ok') = ToSet(ok) \cup {group[i] : i \in Passed(group)}
  <2> PICK a, b, Z : a = ok /\ b = AcceptedRows(group) /\ Z = ToSet(ok) \cup Y
    OBVIOUS
  <2>1. a \in Seq(Z)
    <3>1. \A i \in DOMAIN ok : ok[i] \in Z
      BY DEF ToSet
    <3> QED BY <1>1, <3>1, TypedBy
  <2>2. b \in Seq(Y) /\ ToSet(b) = {group[i] : i \in Passed(group)}
    BY <1>2, AcceptedAre
  <2>3. b \in Seq(Z)
    <3>1. \A i \in DOMAIN b : b[i] \in Z
      BY <2>2
    <3> QED BY <2>2, <3>1, TypedBy
  <2>4. ToSet(a \o b) = ToSet(a) \cup ToSet(b)
    BY <2>1, <2>3, ConcatMembers
  <2> QED BY <1>1, <2>2, <2>4
<1> QED BY <1>1, <1>2, <1>3, <1>4

\* A row of stop_times.txt whose trip was written is left out for a fault, or for
\* what it refers to besides the trip.
LEMMA TimeLeftOut ==
  ASSUME feed \in Feed, KeysOf(written) \subseteq emap,
         NEW w \in written, IsTrip(w), w.id # NoId,
         NEW group, NEW j \in DOMAIN group, j \notin Passed(group),
         group[j] \in TimeRows, group[j].trip = w.id
  PROVE  group[j].fault # "none" \/ \E k \in group[j].refs : k[1] \in BeforeTrips /\ k \notin emap
<1> SUFFICES ASSUME group[j].fault = "none"
             PROVE  \E k \in group[j].refs : k[1] \in BeforeTrips /\ k \notin emap
  OBVIOUS
<1> PICK row : row = group[j]
  OBVIOUS
<1>1. /\ Keys(row) = {} /\ \A k \in row.refs : k = <<"trips.txt", row.trip>> \/ k[1] \in BeforeTrips
  BY LateRows
<1>2. ~Duplicate(group, j)
  <2>1. row.id = NoId
    BY <1>1 DEF Keys
  <2> QED BY <2>1 DEF Duplicate
<1>3. RefErrors(row) # {}
  <2>1. Outcome(group, j) # "ok"
    BY DEF Passed
  <2> QED BY <1>2, <2>1 DEF Outcome
<1>4. PICK k \in row.refs : k \notin emap
  BY <1>3 DEF RefErrors
<1>5. <<"trips.txt", w.id>> \in emap
  <2>1. <<"trips.txt", w.id>> \in Keys(w)
    BY DEF Keys, Key, IsTrip
  <2> QED BY <2>1 DEF KeysOf
<1> QED BY <1>1, <1>4, <1>5

LEMMA WriteGroupFollows ==
  ASSUME feed \in Feed, ~HasBlankTimes, Copying, Copying', FollowInv, WriteGroup
  PROVE  FollowInv'
<1> PICK group : group = Head(todo)
  OBVIOUS
<1>1. /\ stage = "write" /\ CheckAndWrite(group) /\ UNCHANGED <<feed, opt, stage, phase, src, trips, dedup>>
  BY DEF WriteGroup, patterns
<1>2. /\ group \in Seq(RowsOf(todo)) /\ ToSet(group) \subseteq RowsOf(todo)
      /\ RowsOf(todo') \subseteq RowsOf(todo) /\ RowsOf(todo) \subseteq RowsOf(todo') \cup ToSet(group)
      /\ ToSet(ok') = ToSet(ok) \cup {group[i] : i \in Passed(group)}
      /\ written' = written \cup {group[i] : i \in Passed(group)}
  BY WriteGroupRows
<1>3. \A i \in DOMAIN group : group[i] \in RowsOf(todo)
  BY <1>2 DEF ToSet
<1>4. Resting'
  <2>1. \A w \in RowsOf(todo') \cup ToSet(ok') : w \in RowsOf(todo) \cup ToSet(ok)
    BY <1>2, <1>3 DEF Passed
  <2> QED BY <1>1, <2>1 DEF Resting, FollowInv
<1>5. (KeysOf(written) \subseteq emap)'
  BY <1>1, GroupKnown DEF FollowInv
<1>6. CASE phase' < 14
  BY <1>4, <1>5, <1>6, EarlyFollows DEF FollowInv
<1>7. CASE phase' >= 14
  <2>1. \A w \in RowsOf(todo) \cup ToSet(trips) : Late(w)
    BY <1>1, <1>7 DEF FollowInv, Lateness
  <2>2. Lateness'
    BY <1>1, <1>2, <2>1 DEF FollowInv, Lateness, Late
  <2>3. Lasting
    <3>1. \A i \in DOMAIN group : Late(group[i])
      BY <1>3, <2>1
    <3>2. written \subseteq written' /\ \A k \in emap' \ emap : k[1] \notin BeforeTrips
      BY <1>1, <3>1, GroupKnown DEF FollowInv
    <3> QED BY <1>1, <3>2 DEF Lasting
  <2>4. ASSUME NEW w \in written, HasTimes(w), NEW i \in DOMAIN w.times, w.times[i] \in RowsOf(todo)
        PROVE  Settled(w.times[i])'
    <3> PICK r : r = w.times[i]
      OBVIOUS
    <3>1. CASE r \in RowsOf(todo')
      BY <3>1 DEF Settled
    <3>2. CASE r \in ToSet(group)
      <4>1. PICK j \in DOMAIN group : r = group[j]
        BY <3>2 DEF ToSet
      <4>2. CASE j \in Passed(group)
        BY <1>2, <4>1, <4>2 DEF Settled
      <4>3. CASE j \notin Passed(group)
        <5>1. w.times \in Seq(TimeRows) /\ r \in TimeRows /\ r.trip = w.id /\ IsTrip(w)
          BY <2>4 DEF Copying, HasOwnTimes, HasTimes, Shelf
        <5>2. w.id # NoId
          BY <5>1 DEF HasBlankTimes, TimeRows
        <5>3. r.fault # "none" \/ \E k \in r.refs : k[1] \in BeforeTrips /\ k \notin emap
          BY <4>1, <4>3, <5>1, <5>2, TimeLeftOut DEF FollowInv
        <5> QED BY <2>3, <5>3 DEF Settled, Lasting
      <4> QED BY <4>2, <4>3
    <3> QED BY <1>2, <2>4, <3>1, <3>2
  <2>5. TimesFollow'
    <3> SUFFICES ASSUME NEW w \in written', HasTimes(w), ~(opt.dedup /\ w.id \in dedup)',
                        ~(w \in ToSet(ok') /\ trips' # <<>>)
                 PROVE  \A i \in DOMAIN w.times : Settled(w.times[i])'
      BY DEF TimesFollow
    <3>1. w \in written
      <4>1. ASSUME NEW i \in Passed(group), w = group[i] PROVE FALSE
        <5>1. w \in ToSet(ok') /\ w \in RowsOf(todo)
          BY <1>2, <1>3, <4>1 DEF Passed
        <5>2. trips # <<>>
          BY <5>1 DEF HasTimes, FollowInv, Resting
        <5> QED BY <1>1, <5>1, <5>2
      <4> QED BY <1>2, <4>1
    <3>2. \A i \in DOMAIN w.times : Settled(w.times[i])
      BY <1>1, <1>2, <3>1 DEF FollowInv, TimesFollow
    <3> QED BY <2>3, <2>4, <3>1, <3>2, StillSettled
  <2> QED BY <1>4, <1>5, <2>2, <2>5 DEF FollowInv
<1>8. phase' \in 0..33
  BY DEF Copying, Placed
<1> QED BY <1>6, <1>7, <1>8

LEMMA EndGroupsFollows ==
  ASSUME feed \in Feed, Copying, Copying', FollowInv, EndGroups
  PROVE  FollowInv'
<1>1. /\ stage = "write" /\ todo = <<>> /\ trips' = <<>> /\ stage' \in {"write", "phase"}
      /\ UNCHANGED <<feed, opt, phase, src, emap, written, dedup>>
      /\ stage' = "phase" => UNCHANGED todo
  BY DEF EndGroups, patterns
<1>2. /\ ok' = <<>> /\ \A w \in RowsOf(todo') : ~IsTrip(w)
      /\ phase >= 14 => \A w \in RowsOf(todo') : w \in TimeRows \/ IsLink(w)
      /\ phase >= 14 /\ trips # <<>> =>
           \A w \in ToSet(ok) : IsTrip(w) => (opt.dedup /\ w.id \in dedup) \/ ToSet(w.times) \subseteq RowsOf(todo')
  BY EndGroupsMoves
<1>3. Resting'
  BY <1>1, <1>2, NoRows DEF Resting
<1>4. (KeysOf(written) \subseteq emap)'
  BY <1>1, SameFeed DEF FollowInv
<1>5. CASE phase' < 14
  BY <1>3, <1>4, <1>5, EarlyFollows DEF FollowInv
<1>6. CASE phase' >= 14
  <2>1. Lateness'
    BY <1>1, <1>2, <1>6, LateRows, NoRows DEF FollowInv, Lateness, Late
  <2>2. Lasting
    BY <1>1 DEF Lasting
  <2>3. TimesFollow'
    <3> SUFFICES ASSUME NEW w \in written, HasTimes(w), ~(opt.dedup /\ w.id \in dedup)
                 PROVE  \A i \in DOMAIN w.times : Settled(w.times[i])'
      BY <1>1 DEF TimesFollow
    <3>1. CASE w \in ToSet(ok) /\ trips # <<>>
      <4>1. ToSet(w.times) \subseteq RowsOf(todo')
        BY <1>1, <1>2, <1>6, <3>1 DEF HasTimes
      <4> QED BY <4>1 DEF Settled, ToSet
    <3>2. CASE \A i \in DOMAIN w.times : Settled(w.times[i])
      <4>1. \A r : r \notin RowsOf(todo)
        BY <1>1, NoRows
      <4> QED BY <2>2, <3>2, <4>1, StillSettled
    <3> QED BY <3>1, <3>2 DEF FollowInv, TimesFollow
  <2> QED BY <1>3, <1>4, <2>1, <2>3 DEF FollowInv
<1>7. phase' \in 0..33
  BY DEF Copying, Placed
<1> QED BY <1>5, <1>6, <1>7

LEMMA FollowStarts ==
  ASSUME CopyInit
  PROVE  FollowInv
<1>1. phase = 0 /\ trips = <<>> /\ todo = <<>> /\ ok = <<>> /\ emap = {} /\ written = {}
  BY DEF CopyInit
<1>2. Resting
  BY <1>1, NoRows DEF Resting
<1>3. KeysOf(written) \subseteq emap
  BY <1>1 DEF KeysOf
<1> QED BY <1>1, <1>2, <1>3 DEF FollowInv, Lateness, TimesFollow

\* A step that moves no row, and leaves no batch before it is written.
LEMMA SameFollows ==
  ASSUME FollowInv, UNCHANGED <<feed, opt, phase, src, trips, todo, ok, emap, written, dedup>>,
         stage' \in {stage, "failed"}
  PROVE  FollowInv'
<1>1. Resting'
  BY DEF FollowInv, Resting
<1>2. (KeysOf(written) \subseteq emap)'
  BY SameFeed DEF FollowInv
<1>3. Lateness'
  BY DEF FollowInv, Lateness, Late
<1>4. TimesFollow'
  BY DEF FollowInv, TimesFollow, Settled
<1> QED BY <1>1, <1>2, <1>3, <1>4 DEF FollowInv

LEMMA FollowStep ==
  ASSUME feed \in Feed, ~HasBlankTimes, Copying, FollowInv, [CopyNext]_copyVars
  PROVE  FollowInv'
<1>1. Copying'
  BY CopyingStep
<1>2. CASE WriterFails
  <2>1. /\ UNCHANGED <<feed, opt, phase, src, trips, todo, ok, emap, written, dedup>>
        /\ stage' \in {stage, "failed"}
    BY <1>2 DEF WriterFails, CheckAndFail, patterns
  <2> QED BY <2>1, SameFollows
<1>3. CASE UNCHANGED copyVars
  <2>1. /\ UNCHANGED <<feed, opt, phase, src, trips, todo, ok, emap, written, dedup>>
        /\ stage' \in {stage, "failed"}
    BY <1>3 DEF copyVars, progress, patterns
  <2> QED BY <2>1, SameFollows
<1>4. NextPhase => FollowInv'
  BY <1>1, NextPhaseFollows
<1>5. TakeBatch => FollowInv'
  BY <1>1, TakeBatchFollows
<1>6. TakeGenerated => FollowInv'
  BY <1>1, TakeGeneratedFollows
<1>7. TakeTrips => FollowInv'
  BY TakeTripsFollows
<1>8. AssignTrip => FollowInv'
  BY AssignTripFollows
<1>9. AssignOther => FollowInv'
  BY AssignOtherFollows
<1>10. WriteTrips => FollowInv'
  BY WriteTripsFollows
<1>11. WriteGroup => FollowInv'
  BY <1>1, WriteGroupFollows
<1>12. EndGroups => FollowInv'
  BY <1>1, EndGroupsFollows
<1> QED BY <1>2, <1>3, <1>4, <1>5, <1>6, <1>7, <1>8, <1>9, <1>10, <1>11, <1>12 DEF CopyNext

\* At the end the stop_times of a trip are written, if it repeats no journey.
LEMMA OwnTimesWritten ==
  ASSUME feed \in Feed, FollowInv, stage = "done", NEW w \in Timed, ~(opt.dedup /\ w.id \in dedup)
  PROVE  \A r \in TimesOf(w) : IsWritten(r)
<1> SUFFICES ASSUME NEW r \in TimesOf(w) PROVE r \in written
  BY DEF IsWritten
<1>1. todo = <<>> /\ ok = <<>>
  BY DEF FollowInv, Resting
<1>2. w \in written /\ HasTimes(w) /\ w \notin ToSet(ok)
  BY <1>1, NoRows DEF Timed, HasTimes, IsTrip
<1>3. PICK i \in DOMAIN w.times : r = w.times[i]
  BY DEF TimesOf, ToSet
<1>4. Settled(r)
  BY <1>2, <1>3 DEF FollowInv, TimesFollow
<1>5. r.fault = "none" /\ r.refs \subseteq KeysOf(written) \cup KnownServices
  BY ProvidedParts DEF TimesOf
<1>6. ASSUME NEW k \in r.refs, k[1] \in BeforeTrips PROVE k \in emap
  <2>1. k \notin KnownServices
    <3>1. ASSUME NEW g \in ToSet(GeneratedCalendars) PROVE k # Key(g)
      BY <1>6, <3>1, GeneratedAre DEF Key, BeforeTrips
    <3> QED BY <3>1 DEF KnownServices
  <2> QED BY <1>5, <2>1 DEF FollowInv
<1>7. r \notin RowsOf(todo)
  BY <1>1, NoRows
<1> QED BY <1>4, <1>5, <1>6, <1>7 DEF Settled

\* Trips of one journey pattern visit the same stops.
LEMMA SameJourney ==
  ASSUME NEW v, NEW w, journeyPatternKey(v, v.times) = journeyPatternKey(w, w.times),
         journeyPatternKey(w, w.times) # <<>>
  PROVE  Stops(v.times) = Stops(w.times)
<1> PICK a, b : a = v.times /\ b = w.times
  OBVIOUS
<1> PICK ka, kb : ka = [i \in DOMAIN a |-> <<a[i].rel, a[i].stop>>] /\ kb = [i \in DOMAIN b |-> <<b[i].rel, b[i].stop>>]
  OBVIOUS
<1>1. /\ journeyPatternKey(w, w.times) = <<w.refs, kb>>
      /\ journeyPatternKey(v, v.times) # <<>>
  BY DEF journeyPatternKey
<1>2. journeyPatternKey(v, v.times) = <<v.refs, ka>>
  BY <1>1 DEF journeyPatternKey
<1>3. ka = kb
  BY <1>1, <1>2
<1>4. DOMAIN a = DOMAIN b
  BY <1>3
<1>5. \A i \in DOMAIN a : a[i].stop = b[i].stop
  <2> TAKE i \in DOMAIN a
  <2>1. <<a[i].rel, a[i].stop>> = <<b[i].rel, b[i].stop>>
    BY <1>3, <1>4
  <2> QED BY <2>1
<1> QED BY <1>4, <1>5 DEF Stops

LEMMA TimesOfDone ==
  ASSUME feed \in Feed, ~HasBlankTimes, JourneyInv, FollowInv
  PROVE  TimesRecoverable
<1> SUFFICES ASSUME stage = "done", NEW w \in Timed, ~BaseWasRejected(w), w.id \in dedup
             PROVE  \E b \in Timed : /\ b.id = w.journey /\ Stops(b.times) = Stops(w.times)
                                     /\ \A r \in TimesOf(b) : IsWritten(r)
  BY OwnTimesWritten DEF TimesRecoverable, Recoverable
<1>1. PICK b \in Timed : b.id = w.journey
  BY DEF BaseWasRejected
<1>2. w \in Shelf /\ b \in Shelf /\ HasTimes(w) /\ HasTimes(b)
  BY DEF Timed, Shelf, HasTimes, IsTrip
<1> PICK key : key = journeyPatternKey(w, w.times)
  OBVIOUS
<1>3. key # <<>> /\ key \in DOMAIN journeys /\ w.journey = journeys[key]
  BY <1>2 DEF JourneyInv, JourneysFiled, Repeats
<1>4. b.id \notin dedup /\ journeyPatternKey(b, b.times) = key
  BY <1>1, <1>2, <1>3 DEF JourneyInv, JourneysFiled
<1>5. Stops(b.times) = Stops(w.times)
  BY <1>3, <1>4, SameJourney
<1>6. \A r \in TimesOf(b) : IsWritten(r)
  BY <1>4, OwnTimesWritten
<1> QED BY <1>1, <1>5, <1>6

\* When a copy is done, the stop_times of a trip that was written were written
\* too (or have a fault, or refer to what was left out), or, of a trip that
\* repeats a journey pattern, those of the trip that brought it, at the same
\* stops, unless that trip was rejected: for every feed in which stop_times have a
\* trip_id, all options, readers and batch sizes.
THEOREM TimesAreRecoverable == CopySpec => []TimesRecoverable
<1> DEFINE Inv == ~HasBlankTimes => Copying /\ JourneyInv /\ FollowInv
<1>1. CopyInit => Inv
  BY CopyingStarts, JourneyStart, FollowStarts
<1>2. feed \in Feed /\ Inv /\ [CopyNext]_copyVars => Inv'
  <2> SUFFICES ASSUME feed \in Feed, Inv, [CopyNext]_copyVars, ~HasBlankTimes'
               PROVE  (Copying /\ JourneyInv /\ FollowInv)'
    OBVIOUS
  <2>1. ~HasBlankTimes
    BY FeedKept, SameRows
  <2> QED BY <2>1, CopyingStep, JourneyStep, FollowStep
<1>3. feed \in Feed /\ Inv => TimesRecoverable
  <2>1. CASE HasBlankTimes
    BY <2>1 DEF TimesRecoverable
  <2>2. CASE ~HasBlankTimes
    BY <2>2, TimesOfDone
  <2> QED BY <2>1, <2>2
<1> HIDE DEF Inv
<1> QED BY <1>1, <1>2, <1>3, FeedIsAFeed, PTL DEF CopySpec
=============================================================================
