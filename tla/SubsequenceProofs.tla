------------------------- MODULE SubsequenceProofs -------------------------
(***************************************************************************)
(* What Subsequence returns: the elements at the given positions, each      *)
(* once, in the order they had.                                             *)
(***************************************************************************)
EXTENDS Subsequence, FiniteSetTheorems, TLAPS

\* Of two members of a set of positions the greater has the greater rank.
LEMMA RankOrder ==
  ASSUME NEW S \in SUBSET Int, IsFiniteSet(S)
  PROVE  /\ \A i \in S : Rank(S, i) \in 0..(Cardinality(S) - 1)
         /\ \A i, j \in S : i < j => Rank(S, i) < Rank(S, j)
<1>1. Cardinality(S) \in Nat
  BY FS_CardinalityType
<1>2. ASSUME NEW i \in S PROVE Rank(S, i) \in 0..(Cardinality(S) - 1)
  <2>1. {j \in S : j < i} \in SUBSET (S \ {i})
    <3>1. \A j \in S : j < i => j # i
      OBVIOUS
    <3>2. QED
      BY <3>1
  <2>2. IsFiniteSet(S \ {i}) /\ Cardinality(S \ {i}) = Cardinality(S) - 1
    BY FS_RemoveElement
  <2>3. /\ IsFiniteSet({j \in S : j < i})
        /\ Cardinality({j \in S : j < i}) <= Cardinality(S) - 1
    BY <2>1, <2>2, FS_Subset
  <2>4. Cardinality({j \in S : j < i}) \in Nat
    BY <2>3, FS_CardinalityType
  <2>5. QED
    BY <1>1, <2>3, <2>4 DEF Rank
<1>3. ASSUME NEW i \in S, NEW j \in S, i < j PROVE Rank(S, i) < Rank(S, j)
  <2> DEFINE below(k) == {m \in S : m < k}
  <2>1. below(i) \in SUBSET S /\ below(j) \in SUBSET S
    OBVIOUS
  <2>2. IsFiniteSet(below(i)) /\ IsFiniteSet(below(j))
    BY <2>1, FS_Subset
  <2>3. IsFiniteSet(below(i) \cup {i}) /\ Cardinality(below(i) \cup {i}) = Cardinality(below(i)) + 1
    <3>1. i \notin below(i)
      OBVIOUS
    <3>2. QED
      BY <2>2, <3>1, FS_AddElement
  <2>4. below(i) \cup {i} \in SUBSET below(j)
    <3>1. \A m \in S : m \in Int
      OBVIOUS
    <3>2. \A m \in S : m < i => m < j
      BY <1>3, <3>1
    <3>3. i \in below(j)
      BY <1>3
    <3>4. below(i) \in SUBSET below(j)
      BY <3>2
    <3>5. QED
      BY <3>3, <3>4
  <2>5. Cardinality(below(i)) + 1 <= Cardinality(below(j))
    BY <2>2, <2>3, <2>4, FS_Subset
  <2>6. Cardinality(below(i)) \in Nat /\ Cardinality(below(j)) \in Nat
    BY <2>2, FS_CardinalityType
  <2>7. QED
    BY <2>5, <2>6 DEF Rank
<1>4. QED
  BY <1>2, <1>3

\* Nth counts the members of S upwards, and misses none.
LEMMA NthCounts ==
  ASSUME NEW S \in SUBSET Int, IsFiniteSet(S)
  PROVE  /\ \A k \in 1..Cardinality(S) : Nth(S, k) \in S /\ Rank(S, Nth(S, k)) = k - 1
         /\ \A k, m \in 1..Cardinality(S) : k < m => Nth(S, k) < Nth(S, m)
         /\ \A i \in S : /\ Rank(S, i) + 1 \in 1..Cardinality(S)
                         /\ Nth(S, Rank(S, i) + 1) = i
<1> DEFINE n == Cardinality(S)
           T == 0..(n - 1)
           f == [i \in S |-> Rank(S, i)]
<1>1. n \in Nat
  BY FS_CardinalityType
<1>2. f \in [S -> T]
  BY RankOrder
<1>3. \A i, j \in S : f[i] = f[j] => i = j
  BY <1>1, RankOrder
<1>4. f \in Injection(S, T)
  BY <1>2, <1>3 DEF Injection, IsInjective
<1>5. IsFiniteSet(T) /\ Cardinality(T) = n
  BY <1>1, FS_Interval
<1>6. f \in Surjection(S, T)
  BY <1>4, <1>5, FS_Injection
<1>7. \A t \in T : \E i \in S : f[i] = t
  BY <1>6 DEF Surjection
<1>8. ASSUME NEW k \in 1..n PROVE Nth(S, k) \in S /\ Rank(S, Nth(S, k)) = k - 1
  <2>1. k - 1 \in T
    BY <1>1
  <2>2. PICK i \in S : f[i] = k - 1
    BY <1>7, <2>1
  <2>3. \E j \in S : Rank(S, j) = k - 1
    BY <2>2
  <2>4. QED
    BY <2>3, Zenon DEF Nth
<1>9. ASSUME NEW k \in 1..n, NEW m \in 1..n, k < m PROVE Nth(S, k) < Nth(S, m)
  <2>1. /\ Nth(S, k) \in S /\ Nth(S, m) \in S
        /\ Rank(S, Nth(S, k)) < Rank(S, Nth(S, m))
    BY <1>1, <1>8, <1>9
  <2>2. /\ Nth(S, k) \in Int /\ Nth(S, m) \in Int
        /\ Rank(S, Nth(S, k)) \in Int /\ Rank(S, Nth(S, m)) \in Int
    <3>1. Nth(S, k) \in Int /\ Nth(S, m) \in Int
      BY <2>1
    <3>2. \A i \in S : Rank(S, i) \in 0..(n - 1)
      BY RankOrder
    <3>3. \A x \in 0..(n - 1) : x \in Int
      BY <1>1
    <3>4. QED
      BY <2>1, <3>1, <3>2, <3>3
  <2>3. Nth(S, m) < Nth(S, k) => Rank(S, Nth(S, m)) < Rank(S, Nth(S, k))
    BY <2>1, RankOrder
  <2>4. Nth(S, m) # Nth(S, k)
    BY <2>1, <2>2
  <2>5. QED
    BY <2>1, <2>2, <2>3, <2>4
<1>10. ASSUME NEW i \in S
       PROVE  Rank(S, i) + 1 \in 1..n /\ Nth(S, Rank(S, i) + 1) = i
  <2>1. Rank(S, i) + 1 \in 1..n
    BY <1>1, RankOrder
  <2>2. Nth(S, Rank(S, i) + 1) \in S /\ Rank(S, Nth(S, Rank(S, i) + 1)) = Rank(S, i)
    BY <1>1, <1>8, <2>1, RankOrder
  <2>3. f[Nth(S, Rank(S, i) + 1)] = f[i]
    BY <2>2
  <2>4. QED
    BY <1>3, <2>1, <2>2, <2>3
<1>11. QED
  BY <1>8, <1>9, <1>10

\* A subsequence is a sequence of the elements at the positions, in order.
LEMMA SubsequenceProperties ==
  ASSUME NEW s, NEW S \in SUBSET Int, IsFiniteSet(S)
  PROVE  /\ DOMAIN Subsequence(s, S) = 1..Cardinality(S)
         /\ Cardinality(S) \in Nat
         /\ \A k \in DOMAIN Subsequence(s, S) :
              /\ Nth(S, k) \in S
              /\ Subsequence(s, S)[k] = s[Nth(S, k)]
         /\ \A k, m \in DOMAIN Subsequence(s, S) : k < m => Nth(S, k) < Nth(S, m)
         /\ \A i \in S : \E k \in DOMAIN Subsequence(s, S) : Nth(S, k) = i
<1>1. Cardinality(S) \in Nat
  BY FS_CardinalityType
<1>2. QED
  BY <1>1, NthCounts DEF Subsequence

\* It is a sequence over whatever the elements are in.
LEMMA SubsequenceType ==
  ASSUME NEW T, NEW s \in Seq(T), NEW S \in SUBSET (DOMAIN s)
  PROVE  /\ Subsequence(s, S) \in Seq(T)
         /\ Len(Subsequence(s, S)) = Cardinality(S)
         /\ IsFiniteSet(S) /\ S \in SUBSET Int
<1>1. DOMAIN s = 1..Len(s) /\ Len(s) \in Nat
  OBVIOUS
<1>2. IsFiniteSet(S) /\ S \in SUBSET Int
  <2>1. IsFiniteSet(1..Len(s)) /\ 1..Len(s) \in SUBSET Int
    BY <1>1, FS_Interval
  <2>2. S \in SUBSET (1..Len(s))
    BY <1>1
  <2>3. QED
    BY <2>1, <2>2, FS_Subset
<1>3. Cardinality(S) \in Nat
  BY <1>2, FS_CardinalityType
<1>4. \A k \in 1..Cardinality(S) : s[Nth(S, k)] \in T
  BY <1>1, <1>2, NthCounts
<1>5. Subsequence(s, S) \in [1..Cardinality(S) -> T]
  BY <1>4 DEF Subsequence
<1>6. QED
  BY <1>2, <1>3, <1>5

-----------------------------------------------------------------------------
(* The last of a finite set *)

\* What comes before an element of a finite set, in an order that is given as
\* a set of pairs.
Below(R, S, x) == {y \in S : <<y, x>> \in R}

IsOrder(R, S) ==
  /\ \A x, y, z \in S : <<x, y>> \in R /\ <<y, z>> \in R => <<x, z>> \in R
  /\ \A x \in S : <<x, x>> \notin R
  /\ \A x, y \in S : x # y => <<x, y>> \in R \/ <<y, x>> \in R

\* The later of two elements has more before it.
LEMMA LaterHasMoreBelow ==
  ASSUME NEW S, IsFiniteSet(S), NEW R, IsOrder(R, S)
  PROVE  /\ \A x \in S : Cardinality(Below(R, S, x)) \in 0..(Cardinality(S) - 1)
         /\ \A x, y \in S : <<x, y>> \in R
              => Cardinality(Below(R, S, x)) < Cardinality(Below(R, S, y))
<1>1. Cardinality(S) \in Nat
  BY FS_CardinalityType
<1>2. ASSUME NEW x \in S
      PROVE  /\ IsFiniteSet(Below(R, S, x))
             /\ Cardinality(Below(R, S, x)) \in 0..(Cardinality(S) - 1)
  <2>1. Below(R, S, x) \in SUBSET (S \ {x})
    BY DEF Below, IsOrder
  <2>2. IsFiniteSet(S \ {x}) /\ Cardinality(S \ {x}) = Cardinality(S) - 1
    BY FS_RemoveElement
  <2>3. IsFiniteSet(Below(R, S, x)) /\ Cardinality(Below(R, S, x)) <= Cardinality(S) - 1
    BY <2>1, <2>2, FS_Subset
  <2>4. Cardinality(Below(R, S, x)) \in Nat
    BY <2>3, FS_CardinalityType
  <2>5. QED
    BY <1>1, <2>3, <2>4
<1>3. ASSUME NEW x \in S, NEW y \in S, <<x, y>> \in R
      PROVE  Cardinality(Below(R, S, x)) < Cardinality(Below(R, S, y))
  <2>1. IsFiniteSet(Below(R, S, x)) /\ IsFiniteSet(Below(R, S, y))
    BY <1>2
  <2>2. x \notin Below(R, S, x)
    BY DEF Below, IsOrder
  <2>3. /\ IsFiniteSet(Below(R, S, x) \cup {x})
        /\ Cardinality(Below(R, S, x) \cup {x}) = Cardinality(Below(R, S, x)) + 1
    BY <2>1, <2>2, FS_AddElement
  <2>4. Below(R, S, x) \cup {x} \in SUBSET Below(R, S, y)
    BY <1>3 DEF Below, IsOrder
  <2>5. Cardinality(Below(R, S, x)) + 1 <= Cardinality(Below(R, S, y))
    BY <2>1, <2>3, <2>4, FS_Subset
  <2>6. Cardinality(Below(R, S, x)) \in Nat /\ Cardinality(Below(R, S, y)) \in Nat
    BY <2>1, FS_CardinalityType
  <2>7. QED
    BY <2>5, <2>6
<1>4. QED
  BY <1>2, <1>3

\* A finite set that is not empty has a last element.
LEMMA LastOfOrder ==
  ASSUME NEW S, IsFiniteSet(S), S # {}, NEW R, IsOrder(R, S)
  PROVE  \E m \in S : \A x \in S \ {m} : <<x, m>> \in R
<1> DEFINE n == Cardinality(S)
           T == 0..(n - 1)
           f == [x \in S |-> Cardinality(Below(R, S, x))]
<1>1. n \in Nat /\ n # 0
  BY FS_CardinalityType, FS_EmptySet
<1>2. f \in [S -> T]
  BY LaterHasMoreBelow
<1>3. ASSUME NEW x \in S, NEW y \in S, f[x] = f[y] PROVE x = y
  <2>1. f[x] \in T
    BY <1>2
  <2>2. <<x, y>> \in R => f[x] < f[y]
    BY LaterHasMoreBelow
  <2>3. <<y, x>> \in R => f[y] < f[x]
    BY LaterHasMoreBelow
  <2>4. ~(f[x] < f[y]) /\ ~(f[y] < f[x])
    BY <1>1, <1>3, <2>1
  <2>5. QED
    BY <2>2, <2>3, <2>4 DEF IsOrder
<1>4. f \in Injection(S, T)
  BY <1>2, <1>3 DEF Injection, IsInjective
<1>5. IsFiniteSet(T) /\ Cardinality(T) = n
  BY <1>1, FS_Interval
<1>6. f \in Surjection(S, T)
  BY <1>4, <1>5, FS_Injection
<1>7. n - 1 \in T
  BY <1>1
<1>8. PICK m \in S : f[m] = n - 1
  BY <1>6, <1>7 DEF Surjection
<1>9. ASSUME NEW x \in S \ {m} PROVE <<x, m>> \in R
  <2>1. f[x] \in T
    BY <1>2
  <2>2. <<m, x>> \in R => f[m] < f[x]
    BY LaterHasMoreBelow
  <2>3. ~(f[m] < f[x])
    BY <1>1, <1>8, <2>1
  <2>4. QED
    BY <2>2, <2>3 DEF IsOrder
<1>10. QED
  BY <1>9

=============================================================================
