------------------------------ MODULE RanksProofs ------------------------------
(***************************************************************************)
(* Counting the members below each one puts a finite set in order.         *)
(***************************************************************************)
EXTENDS Ranks, FiniteSetTheorems, TLAPS

\* A member of a finite set comes after those of smaller value.
LEMMA RankGrows ==
    ASSUME NEW S, IsFiniteSet(S), NEW f \in [S -> Nat], NEW x \in S, NEW y \in S, f[x] < f[y]
    PROVE  Cardinality({z \in S : f[z] < f[x]}) < Cardinality({z \in S : f[z] < f[y]})
<1> DEFINE X == {z \in S : f[z] < f[x]}
           Y == {z \in S : f[z] < f[y]}
<1>1. X \subseteq Y /\ x \in Y /\ x \notin X
  OBVIOUS
<1>2. IsFiniteSet(Y)
  BY FS_Subset
<1>3. /\ Cardinality(X) <= Cardinality(Y)
      /\ Cardinality(Y) = Cardinality(X) => Y = X
  BY <1>1, <1>2, FS_Subset
<1>4. Cardinality(X) \in Nat /\ Cardinality(Y) \in Nat
  BY <1>1, <1>2, FS_Subset, FS_CardinalityType
<1> HIDE DEF X, Y
<1>5. Cardinality(X) < Cardinality(Y)
  BY <1>1, <1>3, <1>4
<1> QED BY <1>5 DEF X, Y

\* Where values differ, every place is somebody's.
LEMMA RanksAreFilled ==
    ASSUME NEW S, IsFiniteSet(S), NEW f \in [S -> Nat],
           \A x, y \in S : f[x] = f[y] => x = y
    PROVE  /\ Cardinality(S) \in Nat
           /\ \A n \in 1..Cardinality(S) : \E x \in S :
                  Cardinality({z \in S : f[z] < f[x]}) = n - 1
           /\ \A x \in S : Cardinality({z \in S : f[z] < f[x]}) + 1 \in 1..Cardinality(S)
<1> DEFINE Below(x) == {z \in S : f[z] < f[x]}
           N == Cardinality(S)
           g == [x \in S |-> Cardinality(Below(x)) + 1]
<1>1. N \in Nat
  BY FS_CardinalityType
<1>2. ASSUME NEW x \in S PROVE Cardinality(Below(x)) \in Nat /\ Cardinality(Below(x)) < N
  <2>1. Below(x) \subseteq S /\ x \notin Below(x)
    OBVIOUS
  <2>2. /\ IsFiniteSet(Below(x)) /\ Cardinality(Below(x)) <= N
        /\ N = Cardinality(Below(x)) => S = Below(x)
    BY <2>1, FS_Subset
  <2>3. Cardinality(Below(x)) \in Nat
    BY <2>2, FS_CardinalityType
  <2> HIDE DEF Below, N
  <2> QED BY <1>1, <2>1, <2>2, <2>3
<1>3. \A x, y \in S : f[x] < f[y] => Cardinality(Below(x)) < Cardinality(Below(y))
  BY RankGrows
<1> HIDE DEF Below, N
<1>4. g \in [S -> 1..N]
  BY <1>1, <1>2
<1>5. ASSUME NEW x \in S, NEW y \in S, g[x] = g[y] PROVE x = y
  <2>1. Cardinality(Below(x)) = Cardinality(Below(y))
    BY <1>2, <1>5
  <2>2. f[x] \in Nat /\ f[y] \in Nat /\ ~(f[x] < f[y]) /\ ~(f[y] < f[x])
    BY <1>2, <1>3, <2>1
  <2>3. f[x] = f[y]
    BY <2>2
  <2> QED BY <2>3
<1>6. g \in Injection(S, 1..N)
  BY <1>4, <1>5 DEF Injection, IsInjective
<1>7. IsFiniteSet(1..N) /\ Cardinality(1..N) = N
  BY <1>1, FS_Interval
<1>8. g \in Surjection(S, 1..N)
  BY <1>6, <1>7, FS_Injection DEF N
<1>9. \A n \in 1..N : \E x \in S : g[x] = n
  BY <1>8 DEF Surjection
<1>10. \A n \in 1..N : \E x \in S : Cardinality(Below(x)) = n - 1
  BY <1>2, <1>9
<1> QED BY <1>1, <1>4, <1>10 DEF Below, N

\* Nth enumerates a finite set of numbers upwards.
LEMMA NthEnumerates ==
    ASSUME NEW S \in SUBSET Nat, IsFiniteSet(S)
    PROVE  /\ Cardinality(S) \in Nat
           /\ \A n \in 1..Cardinality(S) : Nth(S, n) \in S
           /\ \A m, n \in 1..Cardinality(S) : m < n => Nth(S, m) < Nth(S, n)
           /\ \A i \in S : \E n \in 1..Cardinality(S) : Nth(S, n) = i
<1> DEFINE f == [i \in S |-> i]
           Rank(i) == Cardinality({j \in S : j < i})
<1>1. f \in [S -> Nat] /\ \A x, y \in S : f[x] = f[y] => x = y
  OBVIOUS
<1>2. ASSUME NEW i \in S PROVE {j \in S : f[j] < f[i]} = {j \in S : j < i}
  OBVIOUS
<1>3. /\ Cardinality(S) \in Nat
      /\ \A n \in 1..Cardinality(S) : \E i \in S : Rank(i) = n - 1
      /\ \A i \in S : Rank(i) + 1 \in 1..Cardinality(S)
  <2> HIDE DEF f
  <2>1. /\ Cardinality(S) \in Nat
        /\ \A n \in 1..Cardinality(S) : \E i \in S : Cardinality({j \in S : f[j] < f[i]}) = n - 1
        /\ \A i \in S : Cardinality({j \in S : f[j] < f[i]}) + 1 \in 1..Cardinality(S)
    BY <1>1, RanksAreFilled
  <2> QED BY <1>2, <2>1
<1>4. ASSUME NEW i \in S, NEW j \in S, i < j PROVE Rank(i) < Rank(j)
  <2>1. f[i] < f[j]
    BY <1>4
  <2> HIDE DEF f
  <2>2. \A x, y \in S : f[x] < f[y] =>
            Cardinality({z \in S : f[z] < f[x]}) < Cardinality({z \in S : f[z] < f[y]})
    BY <1>1, RankGrows
  <2>3. Cardinality({z \in S : f[z] < f[i]}) < Cardinality({z \in S : f[z] < f[j]})
    BY <2>1, <2>2
  <2> QED BY <1>2, <2>3
<1>5. ASSUME NEW i \in S PROVE Rank(i) \in Nat
  BY FS_Subset, FS_CardinalityType
<1>6. ASSUME NEW n \in 1..Cardinality(S)
      PROVE  Nth(S, n) \in S /\ Rank(Nth(S, n)) = n - 1
  BY <1>3 DEF Nth
<1> HIDE DEF Rank, f
<1>7. ASSUME NEW m \in 1..Cardinality(S), NEW n \in 1..Cardinality(S), m < n
      PROVE  Nth(S, m) < Nth(S, n)
  <2> DEFINE x == Nth(S, m)
             y == Nth(S, n)
  <2>1. x \in S /\ y \in S /\ Rank(x) = m - 1 /\ Rank(y) = n - 1
    BY <1>6
  <2> HIDE DEF x, y
  <2>2. Rank(x) < Rank(y)
    BY <1>3, <1>7, <2>1
  <2>3. ~(y < x) /\ x # y
    BY <1>4, <1>5, <2>1, <2>2
  <2>4. x < y
    BY <2>1, <2>3
  <2> QED BY <2>4 DEF x, y
<1>8. ASSUME NEW i \in S PROVE \E n \in 1..Cardinality(S) : Nth(S, n) = i
  <2> DEFINE n == Rank(i) + 1
             x == Nth(S, n)
  <2>1. n \in 1..Cardinality(S) /\ Rank(i) \in Nat
    BY <1>3, <1>5
  <2>2. x \in S /\ Rank(x) = n - 1
    BY <1>6, <2>1
  <2>3. Rank(x) = Rank(i)
    BY <2>1, <2>2
  <2> HIDE DEF n, x
  <2>4. ~(i < x) /\ ~(x < i)
    BY <1>4, <1>5, <2>2, <2>3
  <2>5. x = i
    BY <2>2, <2>4
  <2> QED BY <2>1, <2>5 DEF x
<1> QED BY <1>3, <1>6, <1>7, <1>8
=============================================================================
