------------------------ MODULE AccountSelection_proofs ------------------------
(***************************************************************************)
(* That the candidates are the freest proxies, that no exit is ever shared *)
(* beyond its room, that an account is moved only from a proxy this call   *)
(* found bad, and that NoAccountProxy is the truth: for any accounts,      *)
(* proxies, exits and limits, however exits fill and proxies fail.         *)
(***************************************************************************)
EXTENDS AccountSelection, FiniteSetTheorems, NaturalsInduction, TLAPS

-----------------------------------------------------------------------------
(* Numbers and lists.  tlapm can instantiate no theorem of the library     *)
(* that takes an operator, hence induction goes by the least number of a   *)
(* set.                                                                    *)

\* A set of numbers that is not empty has a least one.
LEMMA Least ==
    ASSUME NEW T \in SUBSET Nat, T # {}
    PROVE  Min(T) \in T /\ \A t \in T : Min(T) <= t
<1> DEFINE R == OpToRel(<, Nat)
<1>1. IsWellFoundedOn(R, Nat)
  BY NatLessThanWellFounded
<1>2. \A i, j \in Nat : i < j => <<i, j>> \in R
  BY DEF OpToRel
<1> HIDE DEF R
<1>3. PICK m \in T : \A t \in T : ~(<<t, m>> \in R)
  BY <1>1, WFMin
<1>4. ASSUME NEW t \in T PROVE m <= t
  <2>1. t \in Nat /\ m \in Nat
    OBVIOUS
  <2>2. ~(t < m)
    BY <1>2, <1>3, <2>1
  <2> QED
    BY <2>1, <2>2
<1> QED
  BY <1>3, <1>4 DEF Min

\* Induction over the tiers.
LEMMA UpTo ==
    ASSUME NEW N \in Nat, NEW T, 0 \in T, \A n \in 1..N : n - 1 \in T => n \in T
    PROVE  \A n \in 0..N : n \in T
<1> DEFINE U == {n \in 0..N : n \notin T}
<1> SUFFICES ASSUME U # {} PROVE FALSE
  OBVIOUS
<1>1. U \in SUBSET Nat
  OBVIOUS
<1> HIDE DEF U
<1>2. Min(U) \in U /\ \A t \in U : Min(U) <= t
  BY <1>1, Least
<1>3. Min(U) \in 1..N /\ Min(U) - 1 \in 0..N
  BY <1>2 DEF U
<1>4. Min(U) - 1 \notin U
  BY <1>2, <1>3
<1> QED
  BY <1>2, <1>3, <1>4 DEF U

\* f is made of its predecessors' values up to n.
MadeUpTo(n, f, V, start, turn) ==
    /\ f \in [0..n -> V]
    /\ f[0] = start
    /\ \A i \in 1..n : f[i] = turn[i, f[i - 1]]

\* A function may be defined tier by tier.
LEMMA TierByTier ==
    ASSUME NEW N \in Nat, NEW V, NEW start \in V, NEW turn \in [(1..N) \X V -> V]
    PROVE  \E f : MadeUpTo(N, f, V, start, turn)
<1> DEFINE Made(n, f) == MadeUpTo(n, f, V, start, turn)
           T == {n \in 0..N : \E f : Made(n, f)}
<1>1. 0 \in T
  <2> DEFINE f == [i \in 0..0 |-> start]
  <2>1. f \in [0..0 -> V] /\ f[0] = start /\ \A i \in 1..0 : f[i] = turn[i, f[i - 1]]
    OBVIOUS
  <2> HIDE DEF f
  <2>2. Made(0, f)
    BY <2>1 DEF MadeUpTo
  <2> QED
    BY <2>2
<1>2. ASSUME NEW n \in 1..N, n - 1 \in T PROVE n \in T
  <2>1. PICK f : Made(n - 1, f)
    BY <1>2
  <2>2. f \in [0..(n - 1) -> V] /\ f[0] = start /\ \A i \in 1..(n - 1) : f[i] = turn[i, f[i - 1]]
    BY <2>1 DEF MadeUpTo
  <2> DEFINE g == [i \in 0..n |-> IF i = n THEN turn[n, f[n - 1]] ELSE f[i]]
  <2>3. g \in [0..n -> V]
    <3>1. \A i \in 0..n : i # n => i \in 0..(n - 1)
      OBVIOUS
    <3>2. n - 1 \in 0..(n - 1)
      OBVIOUS
    <3>3. f[n - 1] \in V
      BY <2>2, <3>2
    <3>4. turn[n, f[n - 1]] \in V
      BY <3>3
    <3> QED
      BY <2>2, <3>1, <3>4
  <2>4. g[0] = start /\ \A i \in 1..n : g[i] = turn[i, g[i - 1]]
    <3>1. \A i \in 1..n : i - 1 \in 0..n /\ i - 1 # n /\ i \in 0..n /\ (i # n => i \in 1..(n - 1))
      OBVIOUS
    <3>2. 0 \in 0..n /\ 0 # n
      OBVIOUS
    <3> QED
      BY <2>2, <3>1, <3>2
  <2> HIDE DEF g
  <2>5. Made(n, g)
    BY <2>3, <2>4 DEF MadeUpTo
  <2> QED
    BY <2>5
<1>3. \A n \in 0..N : n \in T
  <2> HIDE DEF T
  <2> QED
    BY <1>1, <1>2, UpTo
<1>4. PICK f : Made(N, f)
  BY <1>3
<1> QED
  BY <1>4

\* Finitely many numbers are counted: each has its rank, and each rank its number.
LEMMA Ranks ==
    ASSUME NEW S \in SUBSET Nat, IsFiniteSet(S)
    PROVE  LET rank == [n \in S |-> Cardinality({m \in S : m <= n})]
           IN  /\ Cardinality(S) \in Nat
               /\ rank \in [S -> 1..Cardinality(S)]
               /\ \A n, m \in S : n < m => rank[n] < rank[m]
               /\ \A i \in 1..Cardinality(S) : \E n \in S : rank[n] = i
<1> DEFINE Upto(n) == {m \in S : m <= n}
           rank == [n \in S |-> Cardinality(Upto(n))]
           k == Cardinality(S)
<1>1. k \in Nat
  BY FS_CardinalityType
<1>2. ASSUME NEW n \in S
      PROVE  /\ IsFiniteSet(Upto(n)) /\ Cardinality(Upto(n)) \in 1..k
  <2>1. IsFiniteSet(Upto(n)) /\ Cardinality(Upto(n)) <= k /\ Cardinality(Upto(n)) \in Nat
    BY FS_Subset, FS_CardinalityType
  <2>2. n \in Upto(n)
    OBVIOUS
  <2>3. Cardinality(Upto(n)) # 0
    BY <2>1, <2>2, FS_EmptySet
  <2> QED
    BY <1>1, <2>1, <2>3
<1>3. rank \in [S -> 1..k]
  BY <1>2
<1>4. ASSUME NEW n \in S, NEW m \in S, n < m PROVE rank[n] < rank[m]
  <2>0. \A l \in S : l \in Nat
    OBVIOUS
  <2>1. Upto(n) \in SUBSET Upto(m) /\ m \in Upto(m) /\ m \notin Upto(n)
    <3>1. \A l \in S : l <= n => l <= m
      BY <1>4, <2>0
    <3>2. m <= m /\ ~(m <= n)
      BY <1>4, <2>0
    <3> QED
      BY <3>1, <3>2
  <2>2. IsFiniteSet(Upto(m)) /\ Cardinality(Upto(m)) \in 1..k /\ Cardinality(Upto(n)) \in 1..k
    BY <1>2
  <2> DEFINE A == Upto(n)
             B == Upto(m)
  <2> HIDE DEF A, B
  <2>3. Cardinality(A) <= Cardinality(B) /\ (Cardinality(B) = Cardinality(A) => B = A)
    BY <2>1, <2>2, FS_Subset DEF A, B
  <2>4. Cardinality(A) # Cardinality(B)
    BY <2>1, <2>3 DEF A, B
  <2>5. Cardinality(A) < Cardinality(B)
    BY <2>2, <2>3, <2>4 DEF A, B
  <2> QED
    BY <2>5 DEF A, B
<1>5. rank \in Surjection(S, 1..k)
  <2>1. rank \in Injection(S, 1..k)
    <3> SUFFICES ASSUME NEW n \in S, NEW m \in S, n # m PROVE rank[n] # rank[m]
      BY <1>3 DEF Injection, IsInjective
    <3>1. n < m \/ m < n
      OBVIOUS
    <3>2. rank[n] \in 1..k /\ rank[m] \in 1..k
      BY <1>3
    <3> HIDE DEF rank
    <3> QED
      BY <1>4, <3>1, <3>2
  <2>2. IsFiniteSet(1..k) /\ Cardinality(1..k) = k
    BY <1>1, FS_Interval
  <2> HIDE DEF rank
  <2> QED
    BY <2>1, <2>2, FS_Injection
<1>6. \A i \in 1..k : \E n \in S : rank[n] = i
  <2> HIDE DEF rank
  <2> QED
    BY <1>5 DEF Surjection
<1> QED
  BY <1>1, <1>3, <1>4, <1>6

\* No entry is there twice.
Distinct(q) == \A i, j \in 1..Len(q) : q[i] = q[j] => i = j

\* What a list is made of.
LEMMA Listed ==
    ASSUME NEW P, NEW q \in Seq(P)
    PROVE  /\ Len(q) \in Nat /\ DOMAIN q = 1..Len(q)
           /\ ToSet(q) = {q[i] : i \in 1..Len(q)} /\ ToSet(q) \subseteq P
<1>1. Len(q) \in Nat /\ DOMAIN q = 1..Len(q) /\ \A i \in 1..Len(q) : q[i] \in P
  OBVIOUS
<1> QED
  BY <1>1 DEF ToSet

\* The entries at the places are in the pool's order: one for each place, and
\* none other (account_selection.py:43-46).
LEMMA EntriesInOrder ==
    ASSUME NEW P, NEW pool, NEW S \in SUBSET Nat, IsFiniteSet(S),
           \A n \in S : pool[n] \in P,
           \A n, m \in S : pool[n] = pool[m] => n = m
    PROVE  LET q == InOrder(pool, S)
           IN  /\ q \in Seq(P) /\ Len(q) = Cardinality(S)
               /\ ToSet(q) = {pool[n] : n \in S}
               /\ Distinct(q)
<1> DEFINE rank == [n \in S |-> Cardinality({m \in S : m <= n})]
           k == Cardinality(S)
           at == [i \in 1..k |-> CHOOSE n \in S : Cardinality({m \in S : m <= n}) = i]
           q == InOrder(pool, S)
<1>1. /\ k \in Nat
      /\ rank \in [S -> 1..k]
      /\ \A n, m \in S : n < m => rank[n] < rank[m]
      /\ \A i \in 1..k : \E n \in S : rank[n] = i
  BY Ranks
<1>2. ASSUME NEW i \in 1..k PROVE at[i] \in S /\ rank[at[i]] = i
  <2>1. \E n \in S : Cardinality({m \in S : m <= n}) = i
    BY <1>1
  <2>2. at[i] \in S /\ Cardinality({m \in S : m <= at[i]}) = i
    BY <2>1
  <2> QED
    BY <2>2
<1>3. q = [i \in 1..k |-> pool[at[i]]]
  BY DEF InOrder
<1> HIDE DEF rank, at, q, k
<1>4. q \in Seq(P) /\ Len(q) = k /\ DOMAIN q = 1..k
  <2>1. \A i \in 1..k : pool[at[i]] \in P
    BY <1>2
  <2>2. q \in [1..k -> P]
    BY <1>3, <2>1
  <2> QED
    BY <1>1, <2>2
<1>5. ASSUME NEW i \in 1..k, NEW j \in 1..k, q[i] = q[j] PROVE i = j
  <2>1. pool[at[i]] = pool[at[j]] /\ at[i] \in S /\ at[j] \in S
    BY <1>2, <1>3, <1>5
  <2>2. at[i] = at[j]
    BY <2>1
  <2> QED
    BY <1>2, <2>2
<1>6. \A n \in S : at[rank[n]] = n
  <2> SUFFICES ASSUME NEW n \in S PROVE at[rank[n]] = n
    OBVIOUS
  <2>1. rank[n] \in 1..k /\ at[rank[n]] \in S /\ rank[at[rank[n]]] = rank[n]
    BY <1>1, <1>2
  <2> DEFINE m == at[rank[n]]
  <2> HIDE DEF m
  <2>2. ~(m < n) /\ ~(n < m)
    <3>1. m \in S /\ rank[m] = rank[n] /\ rank[n] \in Nat
      BY <1>1, <2>1 DEF m
    <3>2. m < n => rank[m] < rank[n]
      BY <1>1, <3>1
    <3>3. n < m => rank[n] < rank[m]
      BY <1>1, <3>1
    <3> QED
      BY <3>1, <3>2, <3>3
  <2>3. n \in Nat /\ m \in Nat
    BY <2>1 DEF m
  <2>4. m = n
    BY <2>2, <2>3
  <2> QED
    BY <2>4 DEF m
<1>7. ToSet(q) = {pool[n] : n \in S}
  <2>1. \A i \in 1..k : q[i] \in {pool[n] : n \in S}
    BY <1>2, <1>3
  <2>2. \A n \in S : rank[n] \in 1..k /\ q[rank[n]] = pool[n]
    BY <1>1, <1>3, <1>6
  <2> QED
    BY <1>4, <2>1, <2>2 DEF ToSet
<1> QED
  BY <1>4, <1>5, <1>7 DEF q, k, Distinct
-----------------------------------------------------------------------------
(* The sample of a tier.                                                   *)

\* The integer division that int() of a positive quotient makes.
LEMMA Division ==
    ASSUME NEW m \in Nat, NEW d \in Nat \ {0}
    PROVE  /\ m \div d \in Nat
           /\ d * (m \div d) <= m
           /\ m < d * (m \div d) + d
OBVIOUS

\* Multiplication keeps the order.
LEMMA Multiplication ==
    ASSUME NEW a \in Int, NEW b \in Int, NEW d \in Nat \ {0}, a < b
    PROVE  d * a + d <= d * b
OBVIOUS

\* The positions are of the tier.
LEMMA MiddleInside ==
    ASSUME NEW size \in Nat, NEW k \in 1..size, NEW i \in 1..k
    PROVE  Middle(i, k, size) \in 0..(size - 1)
<1> DEFINE m == (2 * i - 1) * size
           q == Middle(i, k, size)
<1>1. m \in Nat /\ 2 * k \in Nat \ {0}
  OBVIOUS
<1>2. q \in Nat /\ (2 * k) * q <= m
  BY <1>1, Division DEF Middle
<1>3. m < (2 * k) * size
  <2>1. 2 * i - 1 < 2 * k /\ size > 0
    OBVIOUS
  <2> QED
    BY <2>1
<1>4. q < size
  <2> HIDE DEF q, m
  <2> SUFFICES ASSUME size <= q PROVE FALSE
    BY <1>2
  <2>1. (2 * k) * size <= (2 * k) * q
    BY <1>2
  <2> QED
    BY <1>1, <1>2, <1>3, <2>1
<1> QED
  BY <1>2, <1>4

\* They grow from part to part, since there are no more parts than entries.
LEMMA MiddleGrows ==
    ASSUME NEW size \in Nat, NEW k \in 1..size, NEW i \in 1..k, NEW j \in 1..k, i < j
    PROVE  Middle(i, k, size) < Middle(j, k, size)
<1> DEFINE m == (2 * i - 1) * size
           n == (2 * j - 1) * size
           d == 2 * k
           p == Middle(i, k, size)
           q == Middle(j, k, size)
<1>1. m \in Nat /\ n \in Nat /\ d \in Nat \ {0}
  OBVIOUS
<1>2. p \in Nat /\ d * p <= m
  BY <1>1, Division DEF Middle
<1>3. q \in Nat /\ n < d * q + d
  BY <1>1, Division DEF Middle
<1>4. m + d <= n
  <2>1. 2 * j - 1 >= 2 * i - 1 + 2 /\ d <= 2 * size
    OBVIOUS
  <2>2. n >= m + 2 * size
    BY <2>1
  <2> QED
    BY <2>1, <2>2, <1>1
<1> HIDE DEF p, q, m, n, d
<1>5. d * p < d * q
  BY <1>1, <1>2, <1>3, <1>4
<1>6. ~(q < p) /\ q # p
  BY <1>1, <1>2, <1>3, <1>5, Multiplication
<1> QED
  BY <1>2, <1>3, <1>6 DEF p, q

\* A sample of k entries of a tier without repetitions has k entries of the
\* tier, in the tier's order and without repetitions (account_selection.py:60):
\* the limit is met, and no exit is tried twice in the place of another.
THEOREM SampleOfTheTier ==
    ASSUME NEW S, NEW tier \in Seq(S), NEW k \in 1..Len(tier), Distinct(tier)
    PROVE  /\ Spread(tier, k) \in Seq(S)
           /\ Len(Spread(tier, k)) = k
           /\ \A i \in 1..k : \E a \in 1..Len(tier) : Spread(tier, k)[i] = tier[a]
           /\ \A i, j \in 1..k : i < j =>
                \E a, b \in 1..Len(tier) :
                    a < b /\ Spread(tier, k)[i] = tier[a] /\ Spread(tier, k)[j] = tier[b]
           /\ Distinct(Spread(tier, k))
<1> DEFINE size == Len(tier)
           at == [i \in 1..k |-> Middle(i, k, size) + 1]
<1>1. size \in Nat /\ k \in 1..size /\ k \in Nat
  OBVIOUS
<1>2. \A i \in 1..k : at[i] \in 1..size
  <2> SUFFICES ASSUME NEW i \in 1..k PROVE Middle(i, k, size) + 1 \in 1..size
    OBVIOUS
  <2>1. Middle(i, k, size) \in 0..(size - 1)
    BY <1>1, MiddleInside
  <2> QED
    BY <1>1, <2>1
<1>3. \A i, j \in 1..k : i < j => at[i] < at[j]
  <2> SUFFICES ASSUME NEW i \in 1..k, NEW j \in 1..k, i < j PROVE at[i] < at[j]
    OBVIOUS
  <2>1. Middle(i, k, size) < Middle(j, k, size)
    BY <1>1, MiddleGrows
  <2>2. Middle(i, k, size) \in 0..(size - 1) /\ Middle(j, k, size) \in 0..(size - 1)
    BY <1>1, MiddleInside
  <2> QED
    BY <1>1, <2>1, <2>2
<1>4. Spread(tier, k) = [i \in 1..k |-> tier[at[i]]]
  BY DEF Spread
<1> HIDE DEF at, size
<1>5. Spread(tier, k) \in Seq(S) /\ Len(Spread(tier, k)) = k
  BY <1>1, <1>2, <1>4 DEF size
<1>6. \A i \in 1..k : Spread(tier, k)[i] = tier[at[i]]
  BY <1>4
<1>7. \A i, j \in 1..k : Spread(tier, k)[i] = Spread(tier, k)[j] => i = j
  <2> SUFFICES ASSUME NEW i \in 1..k, NEW j \in 1..k, tier[at[i]] = tier[at[j]]
               PROVE  i = j
    BY <1>6
  <2>1. at[i] = at[j]
    BY <1>2 DEF size, Distinct
  <2> QED
    BY <1>1, <1>2, <1>3, <2>1
<1>8. \A i \in 1..k : \E a \in 1..Len(tier) : Spread(tier, k)[i] = tier[a]
  BY <1>2, <1>6 DEF size
<1>9. ASSUME NEW i \in 1..k, NEW j \in 1..k, i < j
      PROVE  \E a, b \in 1..Len(tier) :
               a < b /\ Spread(tier, k)[i] = tier[a] /\ Spread(tier, k)[j] = tier[b]
  <2>1. at[i] \in 1..Len(tier) /\ at[j] \in 1..Len(tier) /\ at[i] < at[j]
    BY <1>2, <1>3, <1>9 DEF size
  <2> QED
    BY <1>6, <2>1
<1>10. Distinct(Spread(tier, k))
  BY <1>5, <1>7 DEF Distinct
<1> QED
  BY <1>5, <1>8, <1>9, <1>10

-----------------------------------------------------------------------------
(* The candidates.                                                         *)

\* A list without repetitions has as many entries as they are.
LEMMA DistinctAreCounted ==
    ASSUME NEW P, NEW q \in Seq(P), Distinct(q)
    PROVE  IsFiniteSet(ToSet(q)) /\ Cardinality(ToSet(q)) = Len(q)
<1>1. Len(q) \in Nat /\ DOMAIN q = 1..Len(q) /\ ToSet(q) = {q[i] : i \in 1..Len(q)}
  BY Listed
<1>2. q \in Bijection(1..Len(q), ToSet(q))
  <2>1. q \in [1..Len(q) -> ToSet(q)]
    BY <1>1
  <2>2. q \in Injection(1..Len(q), ToSet(q))
    BY <1>1, <2>1 DEF Distinct, Injection, IsInjective
  <2>3. q \in Surjection(1..Len(q), ToSet(q))
    BY <1>1, <2>1 DEF Surjection
  <2> QED
    BY <2>2, <2>3 DEF Bijection
<1>3. IsFiniteSet(1..Len(q)) /\ Cardinality(1..Len(q)) = Len(q)
  BY <1>1, FS_Interval
<1>4. ExistsBijection(1..Len(q), ToSet(q))
  BY <1>2 DEF ExistsBijection
<1> QED
  BY <1>3, <1>4, FS_Bijection

\* One list after the other.
LEMMA OneAfterTheOther ==
    ASSUME NEW P, NEW q \in Seq(P), NEW r \in Seq(P), Distinct(q), Distinct(r),
           ToSet(q) \cap ToSet(r) = {}
    PROVE  /\ q \o r \in Seq(P) /\ Len(q \o r) = Len(q) + Len(r)
           /\ ToSet(q \o r) = ToSet(q) \cup ToSet(r)
           /\ Distinct(q \o r)
<1> DEFINE z == q \o r
<1>1. /\ Len(q) \in Nat /\ Len(r) \in Nat
      /\ ToSet(q) = {q[i] : i \in 1..Len(q)} /\ ToSet(r) = {r[i] : i \in 1..Len(r)}
  BY Listed
<1>2. z \in Seq(P) /\ Len(z) = Len(q) + Len(r)
  OBVIOUS
<1>3. \A i \in 1..Len(z) : z[i] = IF i <= Len(q) THEN q[i] ELSE r[i - Len(q)]
  OBVIOUS
<1> HIDE DEF z
<1>4. ToSet(z) = {z[i] : i \in 1..Len(z)}
  BY <1>2, Listed
<1>5. \A i \in 1..Len(z) : i <= Len(q) \/ i - Len(q) \in 1..Len(r)
  BY <1>1, <1>2
<1>6. ToSet(z) = ToSet(q) \cup ToSet(r)
  <2>1. \A i \in 1..Len(z) : z[i] \in ToSet(q) \cup ToSet(r)
    BY <1>1, <1>3, <1>5
  <2>2. \A i \in 1..Len(q) : i \in 1..Len(z) /\ z[i] = q[i]
    BY <1>1, <1>2, <1>3
  <2>3. \A i \in 1..Len(r) : i + Len(q) \in 1..Len(z) /\ z[i + Len(q)] = r[i]
    <3> SUFFICES ASSUME NEW i \in 1..Len(r)
                 PROVE  i + Len(q) \in 1..Len(z) /\ z[i + Len(q)] = r[i]
      OBVIOUS
    <3>1. i + Len(q) \in 1..Len(z) /\ ~(i + Len(q) <= Len(q)) /\ i + Len(q) - Len(q) = i
      BY <1>1, <1>2
    <3> QED
      BY <1>3, <3>1
  <2>4. ToSet(z) \subseteq ToSet(q) \cup ToSet(r)
    BY <1>4, <2>1
  <2>5. ToSet(q) \subseteq ToSet(z)
    BY <1>1, <1>4, <2>2
  <2>6. ToSet(r) \subseteq ToSet(z)
    BY <1>1, <1>4, <2>3
  <2> QED
    BY <2>4, <2>5, <2>6
<1>7. Distinct(z)
  <2> SUFFICES ASSUME NEW i \in 1..Len(z), NEW j \in 1..Len(z), z[i] = z[j] PROVE i = j
    BY DEF Distinct
  <2>1. CASE i <= Len(q) /\ j <= Len(q)
    <3>1. q[i] = q[j] /\ i \in 1..Len(q) /\ j \in 1..Len(q)
      BY <1>1, <1>2, <1>3, <2>1
    <3> QED
      BY <3>1 DEF Distinct
  <2>2. CASE ~(i <= Len(q)) /\ ~(j <= Len(q))
    <3>1. r[i - Len(q)] = r[j - Len(q)] /\ i - Len(q) \in 1..Len(r) /\ j - Len(q) \in 1..Len(r)
      BY <1>3, <1>5, <2>2
    <3>2. i - Len(q) = j - Len(q)
      BY <3>1 DEF Distinct
    <3> QED
      BY <1>1, <1>2, <3>2
  <2>3. CASE i <= Len(q) /\ ~(j <= Len(q))
    <3>1. z[i] \in ToSet(q) /\ z[j] \in ToSet(r)
      BY <1>1, <1>2, <1>3, <1>5, <2>3
    <3> QED
      BY <3>1
  <2>4. CASE ~(i <= Len(q)) /\ j <= Len(q)
    <3>1. z[j] \in ToSet(q) /\ z[i] \in ToSet(r)
      BY <1>1, <1>2, <1>3, <1>5, <2>4
    <3> QED
      BY <3>1
  <2> QED
    BY <2>1, <2>2, <2>3, <2>4
<1> QED
  BY <1>2, <1>6, <1>7 DEF z

\* A turn of the loop over the loads adds a tier whole, or as much of it as the
\* limit leaves room for (account_selection.py:51-62).
LEMMA FillEffect ==
    ASSUME NEW P, NEW chosen \in Seq(P), NEW tier \in Seq(P), NEW limit \in Nat,
           Distinct(chosen), Distinct(tier), ToSet(chosen) \cap ToSet(tier) = {},
           Len(chosen) <= limit
    PROVE  LET z == Fill(chosen, tier, limit)
           IN  /\ z \in Seq(P) /\ Distinct(z) /\ Len(z) <= limit
               /\ ToSet(chosen) \subseteq ToSet(z)
               /\ ToSet(z) \subseteq ToSet(chosen) \cup ToSet(tier)
               /\ Len(chosen) = limit => z = chosen
               /\ Len(z) < limit => ToSet(z) = ToSet(chosen) \cup ToSet(tier)
<1> DEFINE z == Fill(chosen, tier, limit)
           k == limit - Len(chosen)
<1>1. Len(chosen) \in Nat /\ Len(tier) \in Nat /\ k \in Nat
  BY Listed
<1>2. CASE k = 0
  <2>1. z = chosen /\ Len(chosen) = limit
    BY <1>1, <1>2 DEF Fill
  <2> QED
    BY <1>1, <2>1
<1>3. CASE k > 0 /\ Len(tier) <= k
  <2>1. z = chosen \o tier
    BY <1>1, <1>3 DEF Fill
  <2>2. /\ z \in Seq(P) /\ Len(z) = Len(chosen) + Len(tier)
        /\ ToSet(z) = ToSet(chosen) \cup ToSet(tier) /\ Distinct(z)
    BY <2>1, OneAfterTheOther
  <2>3. Len(z) <= limit /\ Len(chosen) # limit
    BY <1>1, <1>3, <2>2
  <2> QED
    BY <2>2, <2>3
<1>4. CASE k > 0 /\ Len(tier) > k
  <2>1. k \in 1..Len(tier) /\ z = chosen \o Spread(tier, k)
    BY <1>1, <1>4 DEF Fill
  <2> HIDE DEF z, k
  <2>2. /\ Spread(tier, k) \in Seq(P) /\ Len(Spread(tier, k)) = k
        /\ \A i \in 1..k : \E a \in 1..Len(tier) : Spread(tier, k)[i] = tier[a]
        /\ Distinct(Spread(tier, k))
    BY <2>1, SampleOfTheTier
  <2> DEFINE s == Spread(tier, k)
  <2> HIDE DEF s
  <2>3. /\ s \in Seq(P) /\ Len(s) = k /\ Distinct(s)
        /\ \A i \in 1..k : \E a \in 1..Len(tier) : s[i] = tier[a]
    BY <2>2 DEF s
  <2>4. ToSet(s) \subseteq ToSet(tier)
    BY <2>3, Listed
  <2>5. z = chosen \o s
    BY <2>1 DEF s
  <2>6. /\ z \in Seq(P) /\ Len(z) = Len(chosen) + Len(s)
        /\ ToSet(z) = ToSet(chosen) \cup ToSet(s) /\ Distinct(z)
    <3>1. ToSet(chosen) \cap ToSet(s) = {}
      BY <2>4
    <3>2. /\ chosen \o s \in Seq(P) /\ Len(chosen \o s) = Len(chosen) + Len(s)
          /\ ToSet(chosen \o s) = ToSet(chosen) \cup ToSet(s) /\ Distinct(chosen \o s)
      BY <2>3, <3>1, OneAfterTheOther
    <3> QED
      BY <2>5, <3>2
  <2>7. Len(z) = limit /\ Len(chosen) # limit
    BY <1>1, <1>4, <2>3, <2>6 DEF k
  <2> QED
    BY <1>1, <2>4, <2>6, <2>7 DEF z
<1> QED
  BY <1>1, <1>2, <1>3, <1>4

LEMMA FillType ==
    ASSUME NEW P, NEW chosen \in Seq(P), NEW tier \in Seq(P), NEW limit \in Nat, Distinct(tier)
    PROVE  Fill(chosen, tier, limit) \in Seq(P)
<1> DEFINE k == limit - Len(chosen)
<1>1. Len(chosen) \in Nat /\ Len(tier) \in Nat /\ k \in Int
  BY Listed
<1>2. CASE k <= 0
  BY <1>1, <1>2 DEF Fill
<1>3. CASE k > 0 /\ Len(tier) <= k
  BY <1>1, <1>3 DEF Fill
<1>4. CASE k > 0 /\ Len(tier) > k
  <2>1. k \in 1..Len(tier) /\ Fill(chosen, tier, limit) = chosen \o Spread(tier, k)
    BY <1>1, <1>4 DEF Fill
  <2>2. Spread(tier, k) \in Seq(P)
    BY <2>1, SampleOfTheTier
  <2> QED
    BY <2>1, <2>2
<1> QED
  BY <1>1, <1>2, <1>3, <1>4

\* The list has the least used of all, as many as the limit allows.
Freest(q, all, loads, limit) ==
    /\ Distinct(q)
    /\ Len(q) <= limit
    /\ ToSet(q) \subseteq all
    /\ Len(q) < limit => ToSet(q) = all
    /\ \A p \in ToSet(q), r \in all \ ToSet(q) : loads[p] <= loads[r]

\* Those of all whose load is below n, and those whose load it is.
Below(all, loads, n) == {p \in all : loads[p] < n}
Loaded(all, loads, n) == {p \in all : loads[p] = n}

\* The next tier leaves the freest of what is below it and in it.
LEMMA NextTier ==
    ASSUME NEW P, NEW loads \in [P -> Nat], NEW all \in SUBSET P, NEW n \in Nat, NEW limit \in Nat,
           NEW q \in Seq(P), Freest(q, Below(all, loads, n), loads, limit),
           NEW tier \in Seq(P), Distinct(tier), ToSet(tier) = Loaded(all, loads, n)
    PROVE  /\ Fill(q, tier, limit) \in Seq(P)
           /\ Freest(Fill(q, tier, limit), Below(all, loads, n + 1), loads, limit)
<1> DEFINE z == Fill(q, tier, limit)
           below == Below(all, loads, n)
           upto == Below(all, loads, n + 1)
<1>1. \A p \in all : loads[p] \in Nat
  OBVIOUS
<1>2. upto = below \cup ToSet(tier) /\ below \cap ToSet(tier) = {}
  BY <1>1 DEF Below, Loaded
<1>3. \A p \in upto : loads[p] <= n
  BY <1>1 DEF Below
<1>4. \A r \in ToSet(tier) : loads[r] = n
  BY DEF Loaded
<1> HIDE DEF below, upto
<1>5. /\ Distinct(q) /\ Len(q) <= limit /\ ToSet(q) \subseteq below
      /\ Len(q) < limit => ToSet(q) = below
      /\ \A p \in ToSet(q), r \in below \ ToSet(q) : loads[p] <= loads[r]
  BY DEF Freest, below
<1>6. /\ z \in Seq(P) /\ Distinct(z) /\ Len(z) <= limit
      /\ ToSet(q) \subseteq ToSet(z)
      /\ ToSet(z) \subseteq ToSet(q) \cup ToSet(tier)
      /\ Len(q) = limit => z = q
      /\ Len(z) < limit => ToSet(z) = ToSet(q) \cup ToSet(tier)
  <2>1. ToSet(q) \cap ToSet(tier) = {}
    BY <1>2, <1>5
  <2> QED
    BY <1>5, <2>1, FillEffect
<1>7. Len(q) \in Nat /\ Len(z) \in Nat
  BY <1>6, Listed
<1> HIDE DEF z
<1>8. ToSet(z) \subseteq upto
  BY <1>2, <1>5, <1>6
<1>9. ASSUME Len(z) < limit PROVE ToSet(z) = upto
  <2>1. Len(q) < limit
    BY <1>5, <1>6, <1>7, <1>9
  <2> QED
    BY <1>2, <1>5, <1>6, <1>9, <2>1
<1>10. ASSUME NEW p \in ToSet(z), NEW r \in upto \ ToSet(z) PROVE loads[p] <= loads[r]
  <2>1. CASE r \in ToSet(tier)
    BY <1>3, <1>4, <1>8, <2>1
  <2>2. CASE r \in below
    <3>1. r \notin ToSet(q)
      BY <1>6
    <3>2. Len(q) = limit
      BY <1>5, <1>7, <2>2, <3>1
    <3>3. z = q
      BY <1>6, <3>2
    <3> QED
      BY <1>5, <2>2, <3>1, <3>3
  <2> QED
    BY <1>2, <2>1, <2>2
<1>11. Freest(z, upto, loads, limit)
  BY <1>6, <1>8, <1>9, <1>10 DEF Freest
<1> QED
  BY <1>6, <1>11 DEF z, upto

\* The entries of the pool that are free.
FreeOnes(pool, loads, exitKey, unknown, busy, maxAccounts) ==
    {p \in ToSet(pool) : loads[p] < maxAccounts /\ exitKey[p] # unknown /\ exitKey[p] \notin busy}

\* The candidates are free, different, as many as the limit allows, and no free
\* proxy that is left out is used less than one of them
\* (account_selection.py:41-63).
THEOREM CandidatesAreTheFreest ==
    ASSUME NEW pool, pool \in Seq(ToSet(pool)), Distinct(pool),
           NEW loads \in [ToSet(pool) -> Nat], NEW exitKey, NEW unknown, NEW busy,
           NEW maxAccounts \in Nat, NEW limit \in Nat
    PROVE  LET free == FreeOnes(pool, loads, exitKey, unknown, busy, maxAccounts)
               offered == FreeExitCandidates(pool, loads, exitKey, unknown, busy, maxAccounts, limit)
           IN  /\ offered \in Seq(ToSet(pool)) /\ Distinct(offered)
               /\ ToSet(offered) \subseteq free
               /\ Len(offered) = IF Cardinality(free) < limit THEN Cardinality(free) ELSE limit
               /\ \A p \in ToSet(offered), q \in free \ ToSet(offered) : loads[p] <= loads[q]
<1> DEFINE P == ToSet(pool)
           all == FreeOnes(pool, loads, exitKey, unknown, busy, maxAccounts)
           free == Free(pool, loads, exitKey, unknown, busy, maxAccounts)
           Tier(load) == InOrder(pool, {n \in free : loads[pool[n]] = load})
           turn == [x \in (1..maxAccounts) \X Seq(P) |-> Fill(x[2], Tier(x[1] - 1), limit)]
           f == CHOOSE f : f = [n \in 0..maxAccounts |->
                   IF n = 0 THEN <<>> ELSE Fill(f[n - 1], Tier(n - 1), limit)]
           Good(n) == f[n] \in Seq(P) /\ Freest(f[n], Below(all, loads, n), loads, limit)
<1>1. /\ Len(pool) \in Nat /\ DOMAIN pool = 1..Len(pool) /\ P = {pool[i] : i \in 1..Len(pool)}
      /\ IsFiniteSet(P)
  BY Listed, DistinctAreCounted
<1>2. all \subseteq P /\ \A p \in all : loads[p] \in Nat /\ loads[p] < maxAccounts
  BY DEF FreeOnes
<1>3. ASSUME NEW load \in Nat
      PROVE  /\ Tier(load) \in Seq(P) /\ Distinct(Tier(load))
             /\ ToSet(Tier(load)) = Loaded(all, loads, load)
  <2> DEFINE S == {n \in free : loads[pool[n]] = load}
  <2>1. S \in SUBSET Nat /\ S \subseteq 1..Len(pool)
    BY <1>1 DEF Free
  <2>2. IsFiniteSet(S)
    <3>1. IsFiniteSet(1..Len(pool))
      BY <1>1, FS_Interval
    <3> HIDE DEF S
    <3> QED
      BY <2>1, <3>1, FS_Subset
  <2>3. \A n \in S : pool[n] \in P
    BY <1>1, <2>1
  <2>4. \A n, m \in S : pool[n] = pool[m] => n = m
    BY <2>1 DEF Distinct
  <2>5. {pool[n] : n \in S} = Loaded(all, loads, load)
    BY <1>1 DEF Free, FreeOnes, Loaded
  <2> HIDE DEF S, P
  <2>6. /\ InOrder(pool, S) \in Seq(P)
        /\ ToSet(InOrder(pool, S)) = {pool[n] : n \in S}
        /\ Distinct(InOrder(pool, S))
    BY <2>1, <2>2, <2>3, <2>4, EntriesInOrder
  <2> QED
    BY <2>5, <2>6 DEF S
<1> HIDE DEF P, all, Tier
<1>4. turn \in [(1..maxAccounts) \X Seq(P) -> Seq(P)]
  <2> SUFFICES ASSUME NEW n \in 1..maxAccounts, NEW q \in Seq(P)
               PROVE  Fill(q, Tier(n - 1), limit) \in Seq(P)
    OBVIOUS
  <2>1. n - 1 \in Nat
    OBVIOUS
  <2> QED
    BY <1>3, <2>1, FillType
<1>5. f = [n \in 0..maxAccounts |-> IF n = 0 THEN <<>> ELSE Fill(f[n - 1], Tier(n - 1), limit)]
  <2>1. <<>> \in Seq(P)
    OBVIOUS
  <2> DEFINE lists == Seq(P)
  <2>2. turn \in [(1..maxAccounts) \X lists -> lists] /\ <<>> \in lists
    BY <1>4, <2>1
  <2>3. PICK g : /\ g \in [0..maxAccounts -> lists]
                 /\ g[0] = <<>>
                 /\ \A n \in 1..maxAccounts : g[n] = turn[n, g[n - 1]]
    <3> HIDE DEF lists, turn
    <3>1. PICK g : MadeUpTo(maxAccounts, g, lists, <<>>, turn)
      BY <2>2, TierByTier
    <3> QED
      BY <3>1 DEF MadeUpTo
  <2>4. ASSUME NEW n \in 1..maxAccounts
        PROVE  g[n] = Fill(g[n - 1], Tier(n - 1), limit)
    <3>1. n - 1 \in 0..maxAccounts
      OBVIOUS
    <3>2. g[n - 1] \in Seq(P)
      BY <2>3, <3>1
    <3>3. turn[n, g[n - 1]] = Fill(g[n - 1], Tier(n - 1), limit)
      BY <3>2
    <3> QED
      BY <2>3, <3>3
  <2>5. \A n \in 0..maxAccounts :
          g[n] = IF n = 0 THEN <<>> ELSE Fill(g[n - 1], Tier(n - 1), limit)
    <3>1. \A n \in 0..maxAccounts : n = 0 \/ n \in 1..maxAccounts
      OBVIOUS
    <3> QED
      BY <2>3, <2>4, <3>1
  <2>6. g = [n \in 0..maxAccounts |-> IF n = 0 THEN <<>> ELSE Fill(g[n - 1], Tier(n - 1), limit)]
    BY <2>3, <2>5
  <2> QED
    BY <2>6
<1>6. FreeExitCandidates(pool, loads, exitKey, unknown, busy, maxAccounts, limit) = f[maxAccounts]
  BY DEF FreeExitCandidates, Tier
<1> HIDE DEF f, turn
<1>7. Good(0)
  <2>1. f[0] = <<>>
    BY <1>5
  <2>2. Below(all, loads, 0) = {}
    BY <1>2 DEF Below
  <2>3. <<>> \in Seq(P) /\ Len(<<>>) = 0 /\ ToSet(<<>>) = {}
    BY DEF ToSet
  <2>4. Distinct(<<>>)
    BY DEF Distinct
  <2>5. Freest(<<>>, {}, loads, limit)
    BY <2>3, <2>4 DEF Freest
  <2> QED
    BY <2>1, <2>2, <2>3, <2>5
<1>8. ASSUME NEW n \in 1..maxAccounts, Good(n - 1) PROVE Good(n)
  <2> DEFINE m == n - 1
  <2>1. m \in Nat /\ n = m + 1 /\ loads \in [P -> Nat] /\ all \in SUBSET P
    BY <1>2 DEF P
  <2>2. f[n] = Fill(f[m], Tier(m), limit)
    BY <1>5
  <2>3. /\ Tier(m) \in Seq(P) /\ Distinct(Tier(m))
        /\ ToSet(Tier(m)) = Loaded(all, loads, m)
    BY <1>3, <2>1
  <2>4. f[m] \in Seq(P) /\ Freest(f[m], Below(all, loads, m), loads, limit)
    BY <1>8
  <2> DEFINE q == f[m]
             tier == Tier(m)
  <2> HIDE DEF m, q, tier
  <2>5. /\ Fill(q, tier, limit) \in Seq(P)
        /\ Freest(Fill(q, tier, limit), Below(all, loads, m + 1), loads, limit)
    <3>1. /\ q \in Seq(P) /\ Freest(q, Below(all, loads, m), loads, limit)
          /\ tier \in Seq(P) /\ Distinct(tier) /\ ToSet(tier) = Loaded(all, loads, m)
      BY <2>3, <2>4 DEF q, tier
    <3> QED
      BY <2>1, <3>1, NextTier
  <2> QED
    BY <2>1, <2>2, <2>5 DEF q, tier
<1> HIDE DEF Good
<1>9. Good(maxAccounts)
  <2> DEFINE T == {n \in 0..maxAccounts : Good(n)}
  <2>1. 0 \in T
    BY <1>7
  <2>2. \A n \in 1..maxAccounts : n - 1 \in T => n \in T
    BY <1>8
  <2> HIDE DEF T
  <2>3. \A n \in 0..maxAccounts : n \in T
    BY <2>1, <2>2, UpTo
  <2> QED
    BY <2>3 DEF T
<1> DEFINE o == f[maxAccounts]
<1>10. o \in Seq(P) /\ Freest(o, all, loads, limit)
  <2>1. Below(all, loads, maxAccounts) = all
    BY <1>2 DEF Below
  <2> QED
    BY <1>9, <2>1 DEF Good
<1> HIDE DEF o
<1>11. Len(o) = IF Cardinality(all) < limit THEN Cardinality(all) ELSE limit
  <2>1. /\ Len(o) \in Nat /\ Len(o) <= limit /\ ToSet(o) \in SUBSET all
        /\ Len(o) < limit => ToSet(o) = all
    BY <1>10, Listed DEF Freest
  <2>2. Cardinality(ToSet(o)) = Len(o)
    BY <1>10, DistinctAreCounted DEF Freest
  <2>3. IsFiniteSet(all) /\ Cardinality(all) \in Nat
    BY <1>1, <1>2, FS_Subset, FS_CardinalityType
  <2>4. Cardinality(ToSet(o)) <= Cardinality(all)
    BY <2>1, <2>3, FS_Subset
  <2> QED
    BY <2>1, <2>2, <2>3, <2>4
<1> QED
  BY <1>6, <1>10, <1>11 DEF Freest, all, P, o

\* What Route() asks free_exit_candidates for, and those that are free.
Loads == [p \in Proxy |-> Load(p)]
Outlets == [p \in Proxy |-> IF p \in Unmapped THEN Nothing ELSE ExitOf[p]]
Offered == FreeExitCandidates(Pool, Loads, Outlets, Nothing, BusyExits, MaxAccounts, Limit)
FreeNow == {p \in Proxy \ Unmapped : Load(p) < MaxAccounts /\ ExitOf[p] \notin BusyExits}

\* The candidates of a call are the freest of the pool.
LEMMA OfferedAreFreest ==
    /\ Offered \in Seq(Proxy) /\ Distinct(Offered)
    /\ ToSet(Offered) \subseteq FreeNow
    /\ Len(Offered) = IF Cardinality(FreeNow) < Limit THEN Cardinality(FreeNow) ELSE Limit
    /\ \A p \in ToSet(Offered), q \in FreeNow \ ToSet(Offered) : Load(p) <= Load(q)
<1>1. Pool \in Seq(ToSet(Pool)) /\ Distinct(Pool) /\ Proxy = ToSet(Pool)
  <2>1. Pool \in Seq(ToSet(Pool)) /\ \A i, j \in DOMAIN Pool : Pool[i] = Pool[j] => i = j
    BY SelectionAssumption DEF Proxy
  <2> HIDE DEF Proxy
  <2> QED
    BY <2>1 DEF Distinct, Proxy
<1>2. \A p \in Proxy : Load(p) \in Nat
  BY SelectionAssumption, FS_Subset, FS_CardinalityType DEF Load
<1>3. Loads \in [ToSet(Pool) -> Nat]
  BY <1>1, <1>2 DEF Loads
<1>4. MaxAccounts \in Nat /\ Limit \in Nat
  BY SelectionAssumption
<1>5. FreeOnes(Pool, Loads, Outlets, Nothing, BusyExits, MaxAccounts) = FreeNow
  <2>1. \A p \in Proxy : Loads[p] = Load(p)
    BY DEF Loads
  <2>2. \A p \in Proxy : p \in Unmapped => Outlets[p] = Nothing
    BY DEF Outlets
  <2>3. \A p \in Proxy \ Unmapped : Outlets[p] = ExitOf[p] /\ Outlets[p] # Nothing
    BY SelectionAssumption DEF Outlets, Exits
  <2> QED
    BY <1>1, <2>1, <2>2, <2>3 DEF FreeOnes, FreeNow
<1>6. /\ Offered \in Seq(Proxy) /\ Distinct(Offered)
      /\ ToSet(Offered) \subseteq FreeNow
      /\ Len(Offered) = IF Cardinality(FreeNow) < Limit THEN Cardinality(FreeNow) ELSE Limit
      /\ \A p \in ToSet(Offered), q \in FreeNow \ ToSet(Offered) : Loads[p] <= Loads[q]
  BY <1>1, <1>3, <1>4, <1>5, CandidatesAreTheFreest DEF Offered
<1>7. \A p \in Proxy : Loads[p] = Load(p)
  BY DEF Loads
<1>8. FreeNow \subseteq Proxy
  BY DEF FreeNow
<1> QED
  BY <1>6, <1>7, <1>8

LEMMA RouteIs ==
    ASSUME NEW a
    PROVE  Route(a) = <<bound[a]>> \o Offered
BY DEF Route, CurrentFirst, Offered, Loads, Outlets

LEMMA TailOfRoute ==
    ASSUME NEW a, NEW V, bound[a] \in V, Proxy \subseteq V
    PROVE  Route(a) \in Seq(V) /\ Tail(Route(a)) = Offered
<1>1. Offered \in Seq(V)
  BY OfferedAreFreest
<1>2. Route(a) = <<bound[a]>> \o Offered
  BY RouteIs
<1> QED
  BY <1>1, <1>2

\* The candidates are the freest there are, in every state the program may be
\* in (account_selection.py:45-63).
THEOREM OfferedAreTheFreest == Spec => []CandidatesAreFreest
<1>1. CandidatesAreFreest
  <2> SUFFICES ASSUME NEW a \in Account
               PROVE  LET offered == Tail(Route(a))
                          free == FreeNow
                      IN  /\ ToSet(offered) \subseteq free
                          /\ Cardinality(ToSet(offered)) = Len(offered)
                          /\ Len(offered) = IF Cardinality(free) < Limit THEN Cardinality(free) ELSE Limit
                          /\ \A p \in ToSet(offered), q \in free \ ToSet(offered) : Load(p) <= Load(q)
    BY DEF CandidatesAreFreest, FreeNow
  <2>1. Tail(Route(a)) = Offered
    <3> DEFINE V == Proxy \cup {bound[a]}
    <3>1. bound[a] \in V /\ Proxy \subseteq V
      OBVIOUS
    <3> QED
      BY <3>1, TailOfRoute
  <2>2. Cardinality(ToSet(Offered)) = Len(Offered)
    BY OfferedAreFreest, DistinctAreCounted
  <2> QED
    BY <2>1, <2>2, OfferedAreFreest
<1> QED
  BY <1>1, PTL

-----------------------------------------------------------------------------
(* Sharing an exit.                                                        *)

\* The accounts whose row is at exit x.
At(rows, x) == {b \in Account : rows[b] # Nothing /\ ExitOf[rows[b]] = x}

\* The functions and records the variables are.
Shapes ==
    /\ DOMAIN bound = Account /\ DOMAIN using = Account /\ DOMAIN call = Account
    /\ \A a \in Account : DOMAIN call[a] = DOMAIN Idle

\* A connection uses its account's row; a call that is under way has none, and
\* owns the row it is past binding.
RowsAreOwned ==
    \A a \in Account :
        /\ using[a] \in {Nothing, bound[a]}
        /\ call[a].step \notin Resting => using[a] = Nothing
        /\ call[a].step = "bound" => bound[a] = call[a].proxy

RowsFit == \A x \in Exits : Cardinality(At(bound, x)) <= MaxAccounts

\* The inductive invariant.
SharingInv == Shapes /\ RowsAreOwned /\ RowsFit

-----------------------------------------------------------------------------

\* The accounts at an exit are finitely many, hence have a number.
LEMMA AtIsFinite ==
    ASSUME NEW rows, NEW x
    PROVE  IsFiniteSet(At(rows, x)) /\ Cardinality(At(rows, x)) \in Nat
BY SelectionAssumption, FS_Subset, FS_CardinalityType DEF At

\* Fewer accounts are not more.
LEMMA FewerFit ==
    ASSUME NEW rows, NEW x, NEW S \in SUBSET At(rows, x),
           Cardinality(At(rows, x)) <= MaxAccounts
    PROVE  Cardinality(S) <= MaxAccounts
<1>1. IsFiniteSet(S) /\ Cardinality(S) <= Cardinality(At(rows, x))
  BY AtIsFinite, FS_Subset
<1>2. Cardinality(S) \in Nat /\ Cardinality(At(rows, x)) \in Nat
  BY <1>1, AtIsFinite, FS_CardinalityType
<1> QED
  BY <1>1, <1>2, SelectionAssumption

\* Where there is room for one, one more fits.
LEMMA RoomForOne ==
    ASSUME NEW rows, NEW others, NEW a \in Account, NEW x,
           At(rows, x) \subseteq {b \in Account \ {a} : others[b] # Nothing /\ ExitOf[others[b]] = x} \cup {a},
           Cardinality({b \in Account \ {a} : others[b] # Nothing /\ ExitOf[others[b]] = x}) < MaxAccounts
    PROVE  Cardinality(At(rows, x)) <= MaxAccounts
<1> DEFINE S == {b \in Account \ {a} : others[b] # Nothing /\ ExitOf[others[b]] = x}
<1>1. IsFiniteSet(S) /\ Cardinality(S) \in Nat
  BY SelectionAssumption, FS_Subset, FS_CardinalityType
<1>2. IsFiniteSet(S \cup {a}) /\ Cardinality(S \cup {a}) = Cardinality(S) + 1
  BY <1>1, FS_AddElement
<1>3. Cardinality(At(rows, x)) <= Cardinality(S \cup {a})
  BY <1>2, FS_Subset
<1>4. Cardinality(At(rows, x)) \in Nat
  BY AtIsFinite
<1> HIDE DEF S
<1>5. Cardinality(S) < MaxAccounts
  BY DEF S
<1> QED
  BY <1>1, <1>2, <1>3, <1>4, <1>5, SelectionAssumption

\* A turn of the loop keeps the record's fields, and does not bind.
LEMMA TurnIsCall ==
    ASSUME NEW c, DOMAIN c = DOMAIN Idle
    PROVE  DOMAIN Turn(c) = DOMAIN Idle /\ Turn(c).step \in {"none", "validating"}
BY DEF Turn, Idle

\* The witnesses change one field.
LEMMA WitnessedIsCall ==
    ASSUME NEW calls, NEW good, NEW rows,
           \A a \in Account : DOMAIN calls[a] = DOMAIN Idle
    PROVE  /\ DOMAIN Witnessed(calls, good, rows) = Account
           /\ \A a \in Account :
                /\ DOMAIN Witnessed(calls, good, rows)[a] = DOMAIN Idle
                /\ Witnessed(calls, good, rows)[a].step = calls[a].step
                /\ Witnessed(calls, good, rows)[a].proxy = calls[a].proxy
BY DEF Witnessed, Idle

\* Binding within the room keeps every exit within its room.
LEMMA BindFits ==
    ASSUME Shapes, RowsFit, NEW a \in Account, Room(bound, a, call[a].proxy),
           bound' = [bound EXCEPT ![a] = call[a].proxy]
    PROVE  RowsFit'
<1> DEFINE p == call[a].proxy
<1> SUFFICES ASSUME NEW x \in Exits PROVE Cardinality(At(bound', x)) <= MaxAccounts
  BY DEF RowsFit, Exits, Proxy
<1>1. CASE p # Nothing /\ ExitOf[p] = x
  <2>1. At(bound', x) \subseteq {b \in Account \ {a} : bound[b] # Nothing /\ ExitOf[bound[b]] = x} \cup {a}
    BY DEF At, Shapes
  <2>2. Cardinality({b \in Account \ {a} : bound[b] # Nothing /\ ExitOf[bound[b]] = x}) < MaxAccounts
    BY <1>1 DEF Room
  <2> QED
    BY <2>1, <2>2, RoomForOne
<1>2. CASE ~(p # Nothing /\ ExitOf[p] = x)
  <2>1. At(bound', x) \subseteq At(bound, x)
    BY <1>2 DEF At, Shapes
  <2>2. Cardinality(At(bound, x)) <= MaxAccounts
    BY DEF RowsFit
  <2> QED
    BY <2>1, <2>2, FewerFit
<1> QED
  BY <1>1, <1>2

\* Every step keeps the invariant.
LEMMA StepPreserves == ASSUME SharingInv, [Next]_vars PROVE SharingInv'
<1>0. Shapes /\ RowsAreOwned /\ RowsFit
  BY DEF SharingInv
<1>1. ASSUME bound' = bound PROVE RowsFit'
  BY <1>0, <1>1 DEF RowsFit, Exits, Proxy
<1>2. CASE UNCHANGED vars
  BY <1>0, <1>1, <1>2 DEF vars, SharingInv, Shapes, RowsAreOwned
<1>3. ASSUME NEW a \in Account, Start(a) PROVE SharingInv'
  <2> DEFINE route == Route(a)
             good == {p \in ToSet(route) : p \in works /\ Room(bound, a, p)}
             c == [Idle EXCEPT !.rest = route, !.steady = good]
  <2>1. call' = [call EXCEPT ![a] = Turn(c)]
    BY <1>3 DEF Start
  <2> HIDE DEF route, good
  <2>2. DOMAIN Turn(c) = DOMAIN Idle /\ Turn(c).step \in {"none", "validating"}
    <3>1. DOMAIN c = DOMAIN Idle
      BY DEF Idle
    <3> HIDE DEF c
    <3> QED
      BY <3>1, TurnIsCall
  <2> HIDE DEF c
  <2>3. using' = [using EXCEPT ![a] = Nothing] /\ bound' = bound
    BY <1>3 DEF Start
  <2>4. Shapes'
    BY <1>0, <2>1, <2>2, <2>3 DEF Shapes
  <2>5. RowsAreOwned'
    BY <1>0, <2>1, <2>2, <2>3 DEF Shapes, RowsAreOwned
  <2> QED
    BY <1>1, <2>3, <2>4, <2>5 DEF SharingInv
<1>4. ASSUME NEW a \in Account, Validated(a) \/ FoundBad(a) PROVE SharingInv'
  BY <1>0, <1>1, <1>4 DEF Validated, FoundBad, SharingInv, Shapes, RowsAreOwned, Resting, Idle
<1>5. ASSUME NEW a \in Account, Reported(a) PROVE SharingInv'
  BY <1>0, <1>1, <1>5, TurnIsCall DEF Reported, SharingInv, Shapes, RowsAreOwned, Resting
<1>6. ASSUME NEW a \in Account, Unavailable(a) \/ Cancel(a) PROVE SharingInv'
  BY <1>0, <1>1, <1>6 DEF Unavailable, Cancel, SharingInv, Shapes, RowsAreOwned, Resting, Idle
<1>7. ASSUME NEW a \in Account, Bind(a) PROVE SharingInv'
  <2>1. CASE Room(bound, a, call[a].proxy)
    <3> DEFINE calls == [call EXCEPT ![a].step = "bound"]
    <3>1. bound' = [bound EXCEPT ![a] = call[a].proxy] /\ call' = Witnessed(calls, works, bound')
          /\ using' = using /\ using[a] = Nothing
      BY <1>0, <1>7, <2>1 DEF Bind, RowsAreOwned, Resting
    <3>2. /\ \A b \in Account : DOMAIN calls[b] = DOMAIN Idle
          /\ calls[a].step = "bound" /\ calls[a].proxy = call[a].proxy
          /\ \A b \in Account \ {a} : calls[b] = call[b]
      BY <1>0 DEF Shapes, Idle
    <3> HIDE DEF calls
    <3>3. Shapes'
      BY <1>0, <3>1, <3>2, WitnessedIsCall DEF Shapes
    <3>4. RowsAreOwned'
      <4>1. \A b \in Account : call'[b].step = calls[b].step /\ call'[b].proxy = calls[b].proxy
        BY <3>1, <3>2, WitnessedIsCall
      <4>2. bound'[a] = call[a].proxy /\ \A b \in Account \ {a} : bound'[b] = bound[b]
        BY <1>0, <3>1 DEF Shapes
      <4>3. \A b \in Account \ {a} : call'[b].step = call[b].step /\ call'[b].proxy = call[b].proxy
        BY <3>2, <4>1
      <4>4. call'[a].proxy = call[a].proxy
        BY <3>2, <4>1
      <4> SUFFICES ASSUME NEW b \in Account
                   PROVE  /\ using'[b] \in {Nothing, bound'[b]}
                          /\ call'[b].step \notin Resting => using'[b] = Nothing
                          /\ call'[b].step = "bound" => bound'[b] = call'[b].proxy
        BY DEF RowsAreOwned
      <4>5. CASE b = a
        BY <3>1, <4>2, <4>4, <4>5
      <4>6. CASE b # a
        BY <1>0, <3>1, <4>2, <4>3, <4>6 DEF RowsAreOwned
      <4> QED
        BY <4>5, <4>6
    <3> QED
      BY <1>0, <2>1, <3>1, <3>3, <3>4, BindFits DEF SharingInv
  <2>2. CASE ~Room(bound, a, call[a].proxy)
    BY <1>0, <1>1, <1>7, <2>2, TurnIsCall DEF Bind, Refused, SharingInv, Shapes, RowsAreOwned, Resting
  <2> QED
    BY <2>1, <2>2
<1>8. ASSUME NEW a \in Account, Return(a) PROVE SharingInv'
  BY <1>0, <1>1, <1>8 DEF Return, SharingInv, Shapes, RowsAreOwned, Resting, Idle
<1>9. ASSUME NEW a \in Account, Release(a) PROVE SharingInv'
  <2>1. RowsFit'
    <3> SUFFICES ASSUME NEW x \in Exits PROVE Cardinality(At(bound', x)) <= MaxAccounts
      BY DEF RowsFit, Exits, Proxy
    <3>1. At(bound', x) \subseteq At(bound, x)
      BY <1>0, <1>9 DEF At, Shapes, Release
    <3> QED
      BY <1>0, <3>1, FewerFit DEF RowsFit
  <2> QED
    BY <1>0, <1>9, <2>1 DEF Release, SharingInv, Shapes, RowsAreOwned, Resting
<1>10. ASSUME NEW p \in Proxy, Change(p) PROVE SharingInv'
  BY <1>0, <1>1, <1>10, WitnessedIsCall DEF Change, SharingInv, Shapes, RowsAreOwned
<1> QED
  BY <1>2, <1>3, <1>4, <1>5, <1>6, <1>7, <1>8, <1>9, <1>10 DEF Next

\* The parts hold together in every behaviour (account_selection.py:66-95).
THEOREM SharingInvHolds == Spec => []SharingInv
<1>1. Init => SharingInv
  <2> SUFFICES ASSUME Init PROVE SharingInv
    OBVIOUS
  <2>1. Shapes /\ RowsAreOwned
    BY DEF Init, Shapes, RowsAreOwned, Idle, Resting
  <2>2. ASSUME NEW x \in Exits PROVE Cardinality(At(bound, x)) <= MaxAccounts
    <3>1. CASE At(bound, x) = {}
      BY <3>1, FS_EmptySet, SelectionAssumption
    <3>2. ASSUME NEW a \in At(bound, x) PROVE Cardinality(At(bound, x)) <= MaxAccounts
      <4>1. a \in Account /\ bound[a] # Nothing /\ ExitOf[bound[a]] = x
        BY DEF At
      <4>2. Cardinality({b \in Account \ {a} : bound[b] # Nothing /\ ExitOf[bound[b]] = x}) < MaxAccounts
        BY <4>1 DEF Init, Room
      <4>3. At(bound, x) \subseteq {b \in Account \ {a} : bound[b] # Nothing /\ ExitOf[bound[b]] = x} \cup {a}
        BY DEF At
      <4> QED
        BY <4>1, <4>2, <4>3, RoomForOne
    <3> QED
      BY <3>1, <3>2
  <2> QED
    BY <2>1, <2>2 DEF SharingInv, RowsFit
<1> QED
  BY <1>1, StepPreserves, PTL DEF Spec

\* No exit carries more connections than it has room for, and each connection
\* uses the proxy of its row (account_selection.py:86-94).
THEOREM ExitsAreNotShared == Spec => []NoSharing
<1>1. SharingInv => NoSharing
  <2> SUFFICES ASSUME SharingInv PROVE NoSharing
    OBVIOUS
  <2>1. \A a \in Account : using[a] \in {Nothing, bound[a]}
    BY DEF SharingInv, RowsAreOwned
  <2>2. ASSUME NEW x \in Exits
        PROVE  Cardinality({a \in Account : using[a] # Nothing /\ ExitOf[using[a]] = x}) <= MaxAccounts
    <3>1. {a \in Account : using[a] # Nothing /\ ExitOf[using[a]] = x} \subseteq At(bound, x)
      BY <2>1 DEF At
    <3> QED
      BY <3>1, FewerFit DEF SharingInv, RowsFit
  <2> QED
    BY <2>1, <2>2 DEF NoSharing
<1> QED
  BY <1>1, SharingInvHolds, PTL

-----------------------------------------------------------------------------
(* Routes.                                                                 *)

\* What a route's entries are, and where a call may be.
Place == Proxy \cup {Nothing}
Underway == {"validating", "reporting", "binding"}
Steps == Resting \cup Underway \cup {"bound"}

\* What a call's fields are.
Fields(c) ==
    /\ DOMAIN c = DOMAIN Idle
    /\ c.step \in Steps /\ c.rest \in Seq(Place)
    /\ c.seen \subseteq Proxy /\ c.failed \subseteq c.seen /\ c.steady \subseteq Proxy

\* A call tries what it has seen, and has found bad what it reports.
Tried(c) ==
    /\ c.proxy \in c.seen \cup {Nothing}
    /\ c.step \in Underway \cup {"bound"} => c.proxy \in c.seen
    /\ c.proxy \in c.failed <=> c.step = "reporting"

\* It tries the account's present proxy until that is found bad.
Sticks(c, row) ==
    row # Nothing /\ c.step \in Underway => row = c.proxy \/ row \in c.failed

\* The route still leads to the proxy.
Ahead(c, p) == p \notin c.seen /\ p \in ToSet(c.rest)

\* What has been good and free all the time is tried now, or will be.
Hopes(c) ==
    /\ c.step = "none" => c.steady = {}
    /\ c.step \in Underway =>
         \A p \in c.steady : Ahead(c, p) \/ (p = c.proxy /\ c.step # "reporting")

Calls ==
    \A a \in Account :
        Fields(call[a]) /\ Tried(call[a]) /\ Sticks(call[a], bound[a]) /\ Hopes(call[a])

\* The steady proxies are good, and have room for the account.
StillFree == \A a \in Account : \A p \in call[a].steady : p \in works /\ Room(bound, a, p)

Rows ==
    /\ works \subseteq Proxy
    /\ bound \in [Account -> Place]
    /\ using \in [Account -> Place]

\* The inductive invariant, together with SharingInv.
RouteInv == Rows /\ Calls /\ StillFree

\* A list without its first m entries.
LEMMA WhatIsLeft ==
    ASSUME NEW V, NEW q \in Seq(V), NEW m \in 1..Len(q)
    PROVE  LET more == SubSeq(q, m + 1, Len(q))
           IN  /\ more \in Seq(V) /\ Len(more) = Len(q) - m
               /\ \A i \in 1..(Len(q) - m) : more[i] = q[i + m]
<1>1. Len(q) \in Nat /\ \A i \in 1..Len(q) : q[i] \in V
  OBVIOUS
<1>2. m + 1 \in 1..(Len(q) + 1) /\ m \in Nat /\ Len(q) - m \in Nat
  BY <1>1
<1> QED
  BY <1>1, <1>2

\* The next turn of the loop misses none of the proxies the route leads to.
LEMMA TurnMissesNone ==
    ASSUME NEW c, Fields(c), \A p \in c.steady : Ahead(c, p)
    PROVE  /\ Fields(Turn(c)) /\ Tried(Turn(c)) /\ Hopes(Turn(c))
           /\ Turn(c).steady = c.steady
           /\ Turn(c).step = "validating" \/ Turn(c).step = "none"
           /\ Turn(c).step = "validating" => Turn(c).failed = c.failed
           /\ 1 \in DOMAIN c.rest /\ c.rest[1] \notin c.seen \cup {Nothing}
                => Turn(c).proxy = c.rest[1]
<1> DEFINE V == Place
           route == c.rest
           left == Untried(route, c.seen)
           t == Turn(c)
<1>1. /\ Nothing \notin Proxy /\ route \in Seq(V) /\ c.steady \subseteq Proxy
      /\ c.failed \subseteq c.seen /\ c.seen \subseteq Proxy
  BY SelectionAssumption DEF Fields
<1>2. /\ Len(route) \in Nat /\ DOMAIN route = 1..Len(route)
      /\ ToSet(route) = {route[i] : i \in 1..Len(route)}
  BY <1>1, Listed
<1>3. left \in SUBSET Nat /\ left \subseteq 1..Len(route)
  BY <1>2 DEF Untried
<1>4. CASE left = {}
  <2>1. t = [Idle EXCEPT !.step = "none", !.steady = c.steady]
    BY <1>4 DEF Turn
  <2>2. c.steady = {}
    BY <1>1, <1>2, <1>4 DEF Untried, Ahead
  <2>3. ~(1 \in DOMAIN route /\ route[1] \notin c.seen \cup {Nothing})
    BY <1>4 DEF Untried
  <2>4. /\ DOMAIN t = DOMAIN Idle /\ t.step = "none" /\ t.proxy = Nothing /\ t.rest = <<>>
        /\ t.seen = {} /\ t.failed = {} /\ t.steady = {}
    BY <2>1, <2>2 DEF Idle
  <2> HIDE DEF t, left
  <2>5. Fields(t) /\ Tried(t) /\ Hopes(t)
    BY <2>4 DEF Fields, Tried, Hopes, Steps, Resting, Underway
  <2> QED
    BY <2>2, <2>3, <2>4, <2>5 DEF t
<1>5. CASE left # {}
  <2> DEFINE m == Min(left)
             next == route[m]
             more == SubSeq(route, m + 1, Len(route))
  <2>1. m \in left /\ \A n \in left : m <= n
    BY <1>3, <1>5, Least
  <2> HIDE DEF m
  <2>2. m \in 1..Len(route) /\ next \in Proxy /\ next \notin c.seen
    <3>1. m \in DOMAIN route /\ route[m] \notin c.seen \cup {Nothing}
      BY <2>1 DEF Untried
    <3>2. route[m] \in V
      BY <1>1, <1>2, <3>1
    <3> QED
      BY <1>2, <3>1, <3>2 DEF Place
  <2>3. t = [c EXCEPT !.step = "validating", !.proxy = next, !.seen = @ \cup {next}, !.rest = more]
    BY <1>5 DEF Turn, m
  <2> HIDE DEF V
  <2>4. /\ more \in Seq(V) /\ Len(more) = Len(route) - m
        /\ \A i \in 1..(Len(route) - m) : more[i] = route[i + m]
    BY <1>1, <2>2, WhatIsLeft
  <2> HIDE DEF left
  <2>5. 1 \in DOMAIN route /\ route[1] \notin c.seen \cup {Nothing} => next = route[1]
    <3> SUFFICES ASSUME 1 \in 1..Len(route), route[1] \notin c.seen \cup {Nothing} PROVE m = 1
      BY <1>2
    <3>1. 1 \in left
      BY <1>2 DEF left, Untried
    <3>2. m <= 1
      BY <2>1, <3>1
    <3> QED
      BY <2>2, <3>2
  <2> HIDE DEF next, more
  <2>6. /\ DOMAIN t = DOMAIN Idle /\ t.step = "validating" /\ t.proxy = next /\ t.rest = more
        /\ t.seen = c.seen \cup {next} /\ t.failed = c.failed /\ t.steady = c.steady
    BY <2>3 DEF Fields, Idle
  <2> HIDE DEF t
  <2>7. Fields(t) /\ Tried(t)
    BY <1>1, <2>2, <2>4, <2>6 DEF Fields, Tried, Steps, Resting, Underway, V
  <2>8. ASSUME NEW p \in c.steady, p # next PROVE Ahead(t, p)
    <3>1. p \in Proxy /\ p # Nothing /\ p \notin c.seen /\ p \in ToSet(route)
      BY <1>1 DEF Ahead
    <3>2. PICK i \in 1..Len(route) : route[i] = p
      BY <1>2, <3>1
    <3>3. i \in left
      BY <1>2, <3>1, <3>2 DEF left, Untried
    <3>4. m <= i /\ i # m
      BY <2>1, <2>8, <3>2, <3>3 DEF next
    <3>5. i - m \in 1..(Len(route) - m)
      BY <1>2, <2>2, <3>4
    <3>6. more[i - m] = p
      BY <2>2, <2>4, <3>2, <3>5
    <3>7. p \in ToSet(more)
      BY <2>4, <3>5, <3>6, Listed
    <3> QED
      BY <2>6, <2>8, <3>1, <3>7 DEF Ahead
  <2>9. Hopes(t)
    BY <2>6, <2>8 DEF Hopes
  <2> QED
    BY <2>5, <2>6, <2>7, <2>9 DEF t
<1> QED
  BY <1>4, <1>5

\* Where only one call goes on, only that call is to be looked at.
LEMMA OneCall ==
    ASSUME SharingInv, RouteInv, NEW a \in Account, NEW c, call' = [call EXCEPT ![a] = c],
           UNCHANGED <<works, bound>>,
           Fields(c), Tried(c), Sticks(c, bound[a]), Hopes(c),
           \A p \in c.steady : p \in works /\ Room(bound, a, p)
    PROVE  Calls' /\ StillFree'
<1>1. \A b \in Account : call'[b] = IF b = a THEN c ELSE call[b]
  BY DEF SharingInv, Shapes
<1>2. Calls'
  BY <1>1 DEF RouteInv, Calls
<1>3. StillFree'
  <2> SUFFICES ASSUME NEW b \in Account, NEW p \in call'[b].steady
               PROVE  p \in works /\ Room(bound, b, p)
    BY DEF StillFree, Room
  <2> QED
    BY <1>1 DEF RouteInv, StillFree
<1> QED
  BY <1>2, <1>3

\* An idle call has nothing to say.
LEMMA IdleIsFine ==
    ASSUME NEW row
    PROVE  Fields(Idle) /\ Tried(Idle) /\ Sticks(Idle, row) /\ Hopes(Idle) /\ Idle.steady = {}
BY DEF Idle, Fields, Tried, Sticks, Hopes, Steps, Resting, Underway

\* Fewer witnesses ask for less.
LEMMA FewerWitnesses ==
    ASSUME NEW c, NEW d, NEW row, Fields(c), Tried(c), Sticks(c, row), Hopes(c),
           DOMAIN d = DOMAIN Idle, d.step = c.step, d.proxy = c.proxy, d.rest = c.rest,
           d.seen = c.seen, d.failed = c.failed, d.steady \subseteq c.steady
    PROVE  Fields(d) /\ Tried(d) /\ Sticks(d, row) /\ Hopes(d)
BY DEF Fields, Tried, Sticks, Hopes, Ahead

LEMMA WitnessedFields ==
    ASSUME NEW calls, NEW good, NEW rows, NEW b \in Account, DOMAIN calls[b] = DOMAIN Idle
    PROVE  LET d == Witnessed(calls, good, rows)[b]
               c == calls[b]
           IN  /\ DOMAIN d = DOMAIN Idle /\ d.step = c.step /\ d.proxy = c.proxy /\ d.rest = c.rest
               /\ d.seen = c.seen /\ d.failed = c.failed
               /\ d.steady = {p \in c.steady : p \in good /\ Room(rows, b, p)}
BY DEF Witnessed, Idle

\* A step of the applications' proxies or rows after which the calls are
\* witnessed anew.
LEMMA AllWitnessed ==
    ASSUME NEW calls, NEW good, NEW rows, call' = Witnessed(calls, good, rows),
           works' = good, bound' = rows,
           \A b \in Account : Fields(calls[b]) /\ Tried(calls[b]) /\ Sticks(calls[b], rows[b])
                                /\ Hopes(calls[b])
    PROVE  Calls' /\ StillFree'
<1> SUFFICES ASSUME NEW b \in Account
             PROVE  /\ Fields(call'[b]) /\ Tried(call'[b]) /\ Sticks(call'[b], bound'[b])
                    /\ Hopes(call'[b])
                    /\ \A p \in call'[b].steady : p \in works' /\ Room(bound', b, p)
  BY DEF Calls, StillFree, Room
<1>1. DOMAIN calls[b] = DOMAIN Idle
  BY DEF Fields
<1> DEFINE d == call'[b]
<1>2. /\ DOMAIN d = DOMAIN Idle /\ d.step = calls[b].step /\ d.proxy = calls[b].proxy
      /\ d.rest = calls[b].rest /\ d.seen = calls[b].seen /\ d.failed = calls[b].failed
      /\ d.steady = {p \in calls[b].steady : p \in good /\ Room(rows, b, p)}
  BY <1>1, WitnessedFields
<1> HIDE DEF d
<1>3. d.steady \subseteq calls[b].steady
  BY <1>2
<1>4. Fields(d) /\ Tried(d) /\ Sticks(d, rows[b]) /\ Hopes(d)
  BY <1>2, <1>3, FewerWitnesses
<1>5. \A p \in d.steady : p \in good /\ Room(rows, b, p)
  BY <1>2
<1> QED
  BY <1>4, <1>5 DEF d, Room

\* An account's own exit has room for it.
LEMMA OwnRoom ==
    ASSUME SharingInv, RouteInv, NEW a \in Account, bound[a] # Nothing
    PROVE  Room(bound, a, bound[a])
<1> DEFINE x == ExitOf[bound[a]]
           others == {b \in Account \ {a} : bound[b] # Nothing /\ ExitOf[bound[b]] = x}
<1>1. bound[a] \in Proxy /\ x \in Exits
  BY DEF RouteInv, Rows, Place, Exits
<1>2. a \in At(bound, x) /\ a \notin others /\ At(bound, x) = others \cup {a}
  BY DEF At
<1>3. IsFiniteSet(others) /\ Cardinality(others) \in Nat
  BY SelectionAssumption, FS_Subset, FS_CardinalityType
<1>4. Cardinality(At(bound, x)) = Cardinality(others) + 1
  BY <1>2, <1>3, FS_AddElement
<1>5. Cardinality(At(bound, x)) <= MaxAccounts
  BY <1>1 DEF SharingInv, RowsFit
<1> HIDE DEF others, x
<1>6. Cardinality(others) < MaxAccounts
  BY <1>3, <1>4, <1>5, SelectionAssumption
<1> QED
  BY <1>6 DEF Room, others, x

\* What gives a proxy up leaves more room.
LEMMA MoreRoom ==
    ASSUME NEW rows, NEW fewer, NEW b \in Account, NEW p, Room(rows, b, p),
           \A o \in Account : fewer[o] \in {Nothing, rows[o]}
    PROVE  Room(fewer, b, p)
<1> DEFINE S == {o \in Account \ {b} : rows[o] # Nothing /\ ExitOf[rows[o]] = ExitOf[p]}
           T == {o \in Account \ {b} : fewer[o] # Nothing /\ ExitOf[fewer[o]] = ExitOf[p]}
<1>1. IsFiniteSet(S) /\ Cardinality(S) \in Nat
  BY SelectionAssumption, FS_Subset, FS_CardinalityType
<1>2. T \subseteq S
  OBVIOUS
<1>3. Cardinality(S) < MaxAccounts
  BY DEF Room
<1> HIDE DEF S, T
<1>4. Cardinality(T) \in Nat /\ Cardinality(T) <= Cardinality(S)
  BY <1>1, <1>2, FS_Subset, FS_CardinalityType
<1>5. Cardinality(T) < MaxAccounts
  BY <1>1, <1>3, <1>4, SelectionAssumption
<1> QED
  BY <1>5 DEF T, Room

\* Every step keeps the routes, given that the rows fit.
LEMMA RouteStep == ASSUME SharingInv, RouteInv, [Next]_vars PROVE RouteInv'
<1>1. /\ Rows /\ Calls /\ StillFree
      /\ DOMAIN call = Account /\ Nothing \notin Proxy
  BY SelectionAssumption DEF RouteInv, SharingInv, Shapes
<1>2. ASSUME NEW a \in Account
      PROVE  /\ Fields(call[a]) /\ Tried(call[a]) /\ Sticks(call[a], bound[a]) /\ Hopes(call[a])
             /\ \A p \in call[a].steady : p \in works /\ Room(bound, a, p)
             /\ bound[a] \in Place /\ DOMAIN call[a] = DOMAIN Idle
  BY <1>1 DEF Calls, StillFree, Rows, Fields
<1>3. ASSUME NEW a \in Account, UNCHANGED <<works, bound>>,
             call' = [call EXCEPT ![a] = Idle], using' \in [Account -> Place]
      PROVE  RouteInv'
  <2>1. Calls' /\ StillFree'
    BY <1>3, OneCall, IdleIsFine
  <2> QED
    BY <1>1, <1>3, <2>1 DEF RouteInv, Rows, Place, Proxy
<1>4. ASSUME NEW a \in Account, UNCHANGED <<works, bound>>,
             \A p \in call[a].steady : Ahead(call[a], p),
             call' = [call EXCEPT ![a] = Turn(@)], using' = using,
             bound[a] = Nothing \/ bound[a] \in call[a].failed
      PROVE  RouteInv'
  <2> DEFINE c == Turn(call[a])
  <2>1. /\ Fields(c) /\ Tried(c) /\ Hopes(c) /\ c.steady = call[a].steady
        /\ c.step = "validating" \/ c.step = "none"
        /\ c.step = "validating" => c.failed = call[a].failed
    BY <1>2, <1>4, TurnMissesNone
  <2>2. call' = [call EXCEPT ![a] = c]
    BY <1>1, <1>4
  <2> HIDE DEF c
  <2>3. Sticks(c, bound[a])
    BY <1>4, <2>1 DEF Sticks, Underway
  <2>4. Calls' /\ StillFree'
    BY <1>2, <1>4, <2>1, <2>2, <2>3, OneCall
  <2> QED
    BY <1>1, <1>4, <2>4 DEF RouteInv, Rows, Place, Proxy
<1>5. CASE UNCHANGED vars
  <2>1. UNCHANGED <<works, bound, using, call>>
    BY <1>5 DEF vars
  <2>2. Calls' /\ StillFree'
    BY <1>1, <2>1 DEF Calls, StillFree, Room
  <2> QED
    BY <1>1, <2>1, <2>2 DEF RouteInv, Rows, Place, Proxy
<1>6. ASSUME NEW a \in Account, Start(a) PROVE RouteInv'
  <2> DEFINE route == Route(a)
             good == {p \in ToSet(route) : p \in works /\ Room(bound, a, p)}
             c == [Idle EXCEPT !.rest = route, !.steady = good]
             t == Turn(c)
  <2>1. call' = [call EXCEPT ![a] = t] /\ UNCHANGED <<works, bound>>
        /\ using' = [using EXCEPT ![a] = Nothing]
    BY <1>6 DEF Start
  <2>2. bound[a] \in Place /\ Proxy \subseteq Place /\ works \subseteq Proxy
    BY <1>1, <1>2 DEF Place, Rows
  <2>3. route \in Seq(Place) /\ route = <<bound[a]>> \o Offered /\ Offered \in Seq(Place)
    BY <2>2, TailOfRoute, RouteIs, OfferedAreFreest
  <2>4. 1 \in DOMAIN route /\ route[1] = bound[a]
    BY <2>2, <2>3
  <2> HIDE DEF route
  <2>5. good \subseteq Proxy
    BY <2>2
  <2>6. \A p \in good : p \in ToSet(route) /\ p \in works /\ Room(bound, a, p)
    OBVIOUS
  <2> HIDE DEF good
  <2>7. /\ DOMAIN c = DOMAIN Idle /\ c.step = "idle" /\ c.rest = route /\ c.steady = good
        /\ c.seen = {} /\ c.failed = {}
    BY DEF Idle
  <2> HIDE DEF c
  <2>8. Fields(c) /\ \A p \in c.steady : Ahead(c, p)
    BY <2>3, <2>5, <2>6, <2>7 DEF Fields, Ahead, Steps, Resting
  <2>9. /\ Fields(t) /\ Tried(t) /\ Hopes(t) /\ t.steady = good
        /\ bound[a] # Nothing => t.proxy = bound[a]
    BY <2>4, <2>7, <2>8, TurnMissesNone
  <2> HIDE DEF t
  <2>10. Sticks(t, bound[a])
    BY <2>9 DEF Sticks
  <2>11. Calls' /\ StillFree'
    BY <2>1, <2>6, <2>9, <2>10, OneCall
  <2> QED
    BY <1>1, <2>1, <2>11 DEF RouteInv, Rows, Place, Proxy
<1>7. ASSUME NEW a \in Account, Validated(a) PROVE RouteInv'
  <2> DEFINE c == [call[a] EXCEPT !.step = "binding"]
  <2>1. /\ call[a].step = "validating" /\ call' = [call EXCEPT ![a] = c]
        /\ UNCHANGED <<works, bound, using>>
    BY <1>1, <1>7 DEF Validated
  <2>2. /\ DOMAIN c = DOMAIN Idle /\ c.step = "binding" /\ c.proxy = call[a].proxy
        /\ c.rest = call[a].rest /\ c.seen = call[a].seen /\ c.failed = call[a].failed
        /\ c.steady = call[a].steady
    BY <1>2 DEF Idle
  <2> HIDE DEF c
  <2>3. Fields(c) /\ Tried(c) /\ Sticks(c, bound[a]) /\ Hopes(c)
    BY <1>2, <2>1, <2>2 DEF Fields, Tried, Sticks, Hopes, Ahead, Steps, Underway
  <2>4. Calls' /\ StillFree'
    BY <1>2, <2>1, <2>2, <2>3, OneCall
  <2> QED
    BY <1>1, <2>1, <2>4 DEF RouteInv, Rows, Place, Proxy
<1>8. ASSUME NEW a \in Account, FoundBad(a) PROVE RouteInv'
  <2> DEFINE c == [call[a] EXCEPT !.step = "reporting", !.failed = @ \cup {call[a].proxy}]
  <2>1. /\ call[a].step = "validating" /\ call[a].proxy \notin works
        /\ call' = [call EXCEPT ![a] = c] /\ UNCHANGED <<works, bound, using>>
    BY <1>1, <1>2, <1>8 DEF FoundBad, Idle
  <2>2. /\ DOMAIN c = DOMAIN Idle /\ c.step = "reporting" /\ c.proxy = call[a].proxy
        /\ c.rest = call[a].rest /\ c.seen = call[a].seen
        /\ c.failed = call[a].failed \cup {call[a].proxy} /\ c.steady = call[a].steady
    BY <1>2 DEF Idle
  <2> HIDE DEF c
  <2>3. Fields(c) /\ Tried(c) /\ Sticks(c, bound[a])
    BY <1>2, <2>1, <2>2 DEF Fields, Tried, Sticks, Steps, Underway
  <2>4. Hopes(c)
    BY <1>2, <2>1, <2>2 DEF Hopes, Ahead, Underway
  <2>5. Calls' /\ StillFree'
    BY <1>2, <2>1, <2>2, <2>3, <2>4, OneCall
  <2> QED
    BY <1>1, <2>1, <2>5 DEF RouteInv, Rows, Place, Proxy
<1>9. ASSUME NEW a \in Account, Reported(a) PROVE RouteInv'
  <2>1. /\ call[a].step = "reporting" /\ call' = [call EXCEPT ![a] = Turn(@)]
        /\ UNCHANGED <<works, bound, using>>
    BY <1>9 DEF Reported
  <2>2. \A p \in call[a].steady : Ahead(call[a], p)
    BY <1>2, <2>1 DEF Hopes, Underway
  <2>3. bound[a] = Nothing \/ bound[a] \in call[a].failed
    BY <1>2, <2>1 DEF Sticks, Tried, Underway
  <2> QED
    BY <1>4, <2>1, <2>2, <2>3
<1>10. ASSUME NEW a \in Account, Unavailable(a) \/ Cancel(a) PROVE RouteInv'
  BY <1>1, <1>3, <1>10 DEF Unavailable, Cancel, Rows
<1>11. ASSUME NEW a \in Account, Bind(a) PROVE RouteInv'
  <2>1. call[a].step = "binding" /\ UNCHANGED <<works, using>>
    BY <1>11 DEF Bind
  <2>2. CASE Room(bound, a, call[a].proxy)
    <3> DEFINE calls == [call EXCEPT ![a].step = "bound"]
    <3>1. bound' = [bound EXCEPT ![a] = call[a].proxy] /\ call' = Witnessed(calls, works, bound')
      BY <1>11, <2>2 DEF Bind
    <3>2. call[a].proxy \in Proxy
      BY <1>2, <2>1 DEF Tried, Fields, Underway
    <3>3. bound' \in [Account -> Place]
      BY <1>1, <3>1, <3>2 DEF Rows, Place
    <3>4. ASSUME NEW b \in Account
          PROVE  Fields(calls[b]) /\ Tried(calls[b]) /\ Sticks(calls[b], bound'[b]) /\ Hopes(calls[b])
      <4>1. CASE b # a
        <5>1. calls[b] = call[b] /\ bound'[b] = bound[b]
          BY <1>1, <3>1, <4>1 DEF Rows
        <5> QED
          BY <1>2, <5>1
      <4>2. CASE b = a
        <5> DEFINE c == calls[a]
        <5>1. /\ DOMAIN c = DOMAIN Idle /\ c.step = "bound" /\ c.proxy = call[a].proxy
              /\ c.rest = call[a].rest /\ c.seen = call[a].seen /\ c.failed = call[a].failed
              /\ c.steady = call[a].steady
          BY <1>1, <1>2 DEF Idle
        <5> HIDE DEF c
        <5>2. Fields(c) /\ Tried(c) /\ Sticks(c, bound'[a]) /\ Hopes(c)
          BY <1>2, <2>1, <5>1 DEF Fields, Tried, Sticks, Hopes, Steps, Underway
        <5> QED
          BY <4>2, <5>2 DEF c
      <4> QED
        BY <4>1, <4>2
    <3> HIDE DEF calls
    <3>5. Calls' /\ StillFree'
      BY <2>1, <3>1, <3>4, AllWitnessed
    <3> QED
      BY <1>1, <2>1, <3>3, <3>5 DEF RouteInv, Rows, Place, Proxy
  <2>3. CASE ~Room(bound, a, call[a].proxy)
    <3>1. call' = [call EXCEPT ![a] = Turn(@)] /\ UNCHANGED bound
      BY <1>11, <2>3 DEF Bind, Refused
    <3>2. \A p \in call[a].steady : Ahead(call[a], p)
      BY <1>2, <2>1, <2>3 DEF Hopes, Underway
    <3>3. bound[a] = Nothing \/ bound[a] \in call[a].failed
      <4>1. bound[a] # Nothing => Room(bound, a, bound[a])
        BY OwnRoom
      <4> QED
        BY <1>2, <2>1, <2>3, <4>1 DEF Sticks, Underway
    <3> QED
      BY <1>4, <2>1, <3>1, <3>2, <3>3
  <2> QED
    BY <2>2, <2>3
<1>12. ASSUME NEW a \in Account, Return(a) PROVE RouteInv'
  <2>1. call[a].proxy \in Place
    BY <1>2 DEF Tried, Fields, Place
  <2> QED
    BY <1>1, <1>3, <1>12, <2>1 DEF Return, Rows
<1>13. ASSUME NEW a \in Account, Release(a) PROVE RouteInv'
  <2>1. /\ call[a].step \in Resting /\ bound' = [bound EXCEPT ![a] = Nothing]
        /\ using' = [using EXCEPT ![a] = Nothing] /\ UNCHANGED <<works, call>>
    BY <1>13 DEF Release
  <2>2. Rows' /\ \A o \in Account : bound'[o] \in {Nothing, bound[o]}
    BY <1>1, <2>1 DEF Rows, Place, Proxy
  <2>3. \A b \in Account : Sticks(call[b], bound'[b])
    BY <1>2, <2>2 DEF Sticks
  <2>4. Calls'
    BY <1>2, <2>1, <2>3 DEF Calls
  <2>5. ASSUME NEW b \in Account, NEW p \in call[b].steady PROVE p \in works /\ Room(bound', b, p)
    BY <1>2, <2>2, MoreRoom
  <2>6. StillFree'
    BY <2>1, <2>5 DEF StillFree, Room
  <2> QED
    BY <2>2, <2>4, <2>6 DEF RouteInv
<1>14. ASSUME NEW p \in Proxy, Change(p) PROVE RouteInv'
  <2>1. call' = Witnessed(call, works', bound) /\ UNCHANGED <<bound, using>>
    BY <1>14 DEF Change
  <2>2. works' \subseteq Proxy
    BY <1>1, <1>14 DEF Change, Rows
  <2>3. Calls' /\ StillFree'
    BY <1>2, <2>1, AllWitnessed
  <2> QED
    BY <1>1, <2>1, <2>2, <2>3 DEF RouteInv, Rows, Place, Proxy
<1> QED
  BY <1>5, <1>6, <1>7, <1>8, <1>9, <1>10, <1>11, <1>12, <1>13, <1>14 DEF Next

\* The two invariants hold together (account_selection.py:66-95).
THEOREM RouteInvHolds == Spec => [](SharingInv /\ RouteInv)
<1>1. Init => RouteInv
  <2> SUFFICES ASSUME Init PROVE RouteInv
    OBVIOUS
  <2>1. Rows
    BY DEF Init, Rows, Place
  <2>2. Calls
    BY IdleIsFine DEF Init, Calls
  <2>3. StillFree
    BY IdleIsFine DEF Init, StillFree
  <2> QED
    BY <2>1, <2>2, <2>3 DEF RouteInv
<1>2. Spec => []SharingInv
  BY SharingInvHolds
<1>3. SharingInv /\ RouteInv /\ [Next]_vars => RouteInv'
  BY RouteStep
<1> QED
  BY <1>1, <1>2, <1>3, PTL DEF Spec

\* The variables are of their types, a call has seen what it tries and tries
\* nothing it has found bad (account_selection.py:82-95).
THEOREM TypeCorrect == Spec => []TypeOK
<1>1. RouteInv => TypeOK
  <2> SUFFICES ASSUME RouteInv PROVE TypeOK
    OBVIOUS
  <2>1. works \subseteq Proxy /\ bound \in [Account -> Place] /\ using \in [Account -> Place]
    BY DEF RouteInv, Rows
  <2>2. ASSUME NEW a \in Account PROVE Fields(call[a]) /\ Tried(call[a])
    BY DEF RouteInv, Calls
  <2> QED
    BY <2>1, <2>2 DEF TypeOK, Fields, Tried, Place, Steps, Underway
<1> QED
  BY <1>1, RouteInvHolds, PTL

\* NoAccountProxy is the truth: a call that gives up had no proxy in its route
\* that was good and free all the time (account_selection.py:79-95).
THEOREM NoProxyIsTheTruth == Spec => []NothingFreeIsMissed
<1>1. RouteInv => NothingFreeIsMissed
  BY DEF RouteInv, Calls, Hopes, NothingFreeIsMissed
<1> QED
  BY <1>1, RouteInvHolds, PTL

\* No step moves an account from a proxy this call has not found bad
\* (account_selection.py:82).
THEOREM OnlyTheBadIsLeft == Spec => MovesOnlyFromTheBad
<1> DEFINE Moved == \A a \in Account :
             (bound[a] # Nothing /\ bound'[a] \notin {Nothing, bound[a]})
                => bound[a] \in call[a].failed
<1>1. SharingInv /\ RouteInv /\ [Next]_vars => [Moved]_vars
  <2> SUFFICES ASSUME SharingInv, RouteInv, Next,
                      NEW a \in Account, bound[a] # Nothing, bound'[a] \notin {Nothing, bound[a]}
               PROVE  bound[a] \in call[a].failed
    OBVIOUS
  <2>1. bound \in [Account -> Place]
    BY DEF RouteInv, Rows
  <2>2. PICK b \in Account : Bind(b) \/ Release(b)
    <3>1. bound' # bound
      OBVIOUS
    <3>2. \A b \in Account :
            Start(b) \/ Validated(b) \/ FoundBad(b) \/ Reported(b) \/ Unavailable(b)
              \/ Return(b) \/ Cancel(b) => bound' = bound
      BY DEF Start, Validated, FoundBad, Reported, Unavailable, Return, Cancel
    <3>3. \A p \in Proxy \ Unmapped : Change(p) => bound' = bound
      BY DEF Change
    <3> QED
      BY <3>1, <3>2, <3>3 DEF Next
  <2>3. b = a /\ ~Release(b)
    BY <2>1, <2>2 DEF Bind, Release
  <2>4. call[a].step = "binding" /\ bound'[a] = call[a].proxy
    BY <2>1, <2>2, <2>3 DEF Bind
  <2>5. Sticks(call[a], bound[a])
    BY DEF RouteInv, Calls
  <2> QED
    BY <2>4, <2>5 DEF Sticks, Underway
<1>2. Spec => [](SharingInv /\ RouteInv)
  BY RouteInvHolds
<1> QED
  BY <1>1, <1>2, PTL DEF Spec, MovesOnlyFromTheBad
=============================================================================
