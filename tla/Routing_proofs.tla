--------------------------- MODULE Routing_proofs ---------------------------
(***************************************************************************)
(* The load balancing and what the client makes of it, for every committee,*)
(* DAG, order and repetition of deliveries, forged message and loss.       *)
(* First the decision as a function of its inputs (which accounts it moves *)
(* and that they fit), then the inputs as a function of the DAG, then the  *)
(* way of a decision to the client.                                        *)
(***************************************************************************)
EXTENDS Routing, FiniteSetTheorems, WellFoundedInduction, TLAPS

-----------------------------------------------------------------------------
(* Numbers *)

LEMMA LeastNumber ==
  ASSUME NEW S \in SUBSET Nat, S # {}
  PROVE  \E m \in S : \A n \in S : m <= n
<1> DEFINE less == {ss \in Nat \X Nat : ss[1] < ss[2]}
<1>1. IsWellFoundedOn(less, Nat)
  BY NatLessThanWellFounded DEF OpToRel
<1>2. PICK m \in S : \A n \in S : ~ (<<n, m>> \in less)
  <2> HIDE DEF less
  <2> QED
    BY <1>1, WFMin
<1>3. ASSUME NEW n \in S PROVE m <= n
  <2>1. <<n, m>> \in Nat \X Nat /\ ~ (<<n, m>> \in less)
    BY <1>2
  <2> QED
    BY <2>1
<1> QED
  BY <1>2, <1>3

LEMMA InductionOnNat ==
  ASSUME NEW Good, 0 \in Good, \A n \in Nat : n \in Good => n + 1 \in Good
  PROVE  Nat \subseteq Good
<1> SUFFICES ASSUME Nat \ Good # {} PROVE FALSE
  OBVIOUS
<1>1. PICK m \in Nat \ Good : \A n \in Nat \ Good : m <= n
  BY LeastNumber
<1>2. m - 1 \in Nat /\ m - 1 \in Good
  BY <1>1
<1> QED
  BY <1>1, <1>2

\* A recursion that goes up from 0 by a step defines a function. The two notions
\* are named because the provers find the instance only while they are folded.
IsStepOn(step, n, V) == step \in [(1 .. n) \X V -> V]
Iterates(f, v, step, n, V) ==
  /\ f \in [0 .. n -> V] /\ f[0] = v
  /\ \A i \in 1 .. n : f[i] = step[<<i, f[i - 1]>>]

LEMMA UpwardRecursion ==
  ASSUME NEW V, NEW v \in V, NEW n \in Nat, NEW step, IsStepOn(step, n, V)
  PROVE  \E f : Iterates(f, v, step, n, V)
<1>0. step \in [(1 .. n) \X V -> V]
  BY DEF IsStepOn
<1> DEFINE From(k, f) == /\ f \in [0 .. k -> V] /\ f[0] = v
                         /\ \A i \in 1 .. k : f[i] = step[<<i, f[i - 1]>>]
           Good == {k \in Nat : k <= n => \E f : From(k, f)}
<1>1. 0 \in Good
  <2>1. From(0, [i \in 0 .. 0 |-> v])
    OBVIOUS
  <2> QED
    BY <2>1
<1>2. ASSUME NEW k \in Good, k + 1 <= n PROVE \E f : From(k + 1, f)
  <2>1. k \in Nat /\ k <= n
    BY <1>2
  <2>2. PICK f : From(k, f)
    BY <2>1
  <2> DEFINE g == [i \in 0 .. k + 1 |-> IF i <= k THEN f[i] ELSE step[<<k + 1, f[k]>>]]
  <2>3. f[k] \in V /\ <<k + 1, f[k]>> \in (1 .. n) \X V
    BY <1>2, <2>1, <2>2
  <2>4. step[<<k + 1, f[k]>>] \in V
    BY <1>0, <2>3
  <2>5. g \in [0 .. k + 1 -> V] /\ g[0] = v
    BY <2>1, <2>2, <2>4
  <2>6. ASSUME NEW i \in 1 .. k + 1 PROVE g[i] = step[<<i, g[i - 1]>>]
    <3>1. CASE i = k + 1
      <4>1. g[i] = step[<<k + 1, f[k]>>] /\ g[i - 1] = f[k]
        BY <2>1, <3>1
      <4> QED
        BY <3>1, <4>1
    <3>2. CASE i <= k
      <4>1. i \in 1 .. k /\ g[i] = f[i] /\ g[i - 1] = f[i - 1]
        BY <2>1, <3>2
      <4> QED
        BY <2>2, <4>1
    <3> QED
      BY <2>1, <3>1, <3>2
  <2>7. From(k + 1, g)
    BY <2>5, <2>6
  <2> QED
    BY <2>7
<1> HIDE DEF From
<1>3. \A k \in Nat : k \in Good => k + 1 \in Good
  <2> SUFFICES ASSUME NEW k \in Nat, k \in Good PROVE k + 1 \in Good
    OBVIOUS
  <2>1. k + 1 <= n => \E f : From(k + 1, f)
    <3> HIDE DEF Good
    <3> QED
      BY <1>2
  <2>2. k + 1 \in Nat
    OBVIOUS
  <2> QED
    BY <2>1, <2>2
<1>4. n \in Good
  <2> HIDE DEF Good
  <2> QED
    BY <1>1, <1>3, InductionOnNat
<1> QED
  BY <1>4 DEF From, Iterates

LEMMA MaxOfTwo ==
  ASSUME NEW x \in Int, NEW y \in Int
  PROVE  Max({x, y}) \in {x, y} /\ Max({x, y}) >= x /\ Max({x, y}) >= y
<1>1. \E m \in {x, y} : \A n \in {x, y} : m >= n
  BY x >= y \/ y >= x
<1> QED
  BY <1>1 DEF Max

LEMMA MinOfTwo ==
  ASSUME NEW x \in Int, NEW y \in Int
  PROVE  Min({x, y}) \in {x, y} /\ Min({x, y}) <= x /\ Min({x, y}) <= y
<1>1. \E m \in {x, y} : \A n \in {x, y} : m =< n
  BY x <= y \/ y <= x
<1> QED
  BY <1>1 DEF Min

LEMMA MinOfNumbers ==
  ASSUME NEW S \in SUBSET Nat, S # {}
  PROVE  Min(S) \in S /\ \A n \in S : Min(S) <= n
  BY LeastNumber DEF Min

\* A finite set of numbers has a greatest.
LEMMA GreatestNumber ==
  ASSUME NEW S \in SUBSET Nat, S # {}, IsFiniteSet(S)
  PROVE  \E m \in S : \A n \in S : n <= m
<1> DEFINE Good == {k \in Nat : \A T \in SUBSET Nat :
                      IsFiniteSet(T) /\ Cardinality(T) = k /\ T # {} => \E m \in T : \A n \in T : n <= m}
<1>1. 0 \in Good
  BY FS_EmptySet
<1>2. ASSUME NEW k \in Nat, k \in Good PROVE k + 1 \in Good
  <2> SUFFICES ASSUME NEW T \in SUBSET Nat, IsFiniteSet(T), Cardinality(T) = k + 1, T # {}
               PROVE  \E m \in T : \A n \in T : n <= m
    OBVIOUS
  <2>1. PICK x \in T : TRUE
    OBVIOUS
  <2>2. PICK U : U = T \ {x}
    OBVIOUS
  <2>3. IsFiniteSet(U) /\ Cardinality(U) = k /\ U \in SUBSET Nat
    <3>1. IsFiniteSet(T \ {x}) /\ Cardinality(T \ {x}) = Cardinality(T) - 1
      BY <2>1, FS_RemoveElement
    <3> QED
      BY <2>2, <3>1
  <2>4. CASE U = {}
    <3>1. T = {x}
      BY <2>2, <2>4
    <3> QED
      BY <3>1
  <2>5. CASE U # {}
    <3>1. PICK m \in U : \A n \in U : n <= m
      BY <1>2, <2>3, <2>5
    <3>2. m \in T /\ m \in Nat /\ x \in Nat /\ \A n \in T : n = x \/ n \in U
      BY <2>2, <2>3
    <3>3. CASE x <= m
      BY <3>1, <3>2, <3>3
    <3>4. CASE m <= x
      <4>1. \A n \in T : n <= x
        BY <2>3, <3>1, <3>2, <3>4
      <4> QED
        BY <4>1
    <3> QED
      BY <3>2, <3>3, <3>4
  <2> QED
    BY <2>4, <2>5
<1>3. Nat \subseteq Good
  <2> HIDE DEF Good
  <2> QED
    BY <1>1, <1>2, InductionOnNat
<1>4. Cardinality(S) \in Nat
  BY FS_CardinalityType
<1> QED
  BY <1>3, <1>4

\* The image of a finite set under a function.
LEMMA ImageFinite ==
  ASSUME NEW S, IsFiniteSet(S), NEW f, DOMAIN f = S
  PROVE  IsFiniteSet({f[x] : x \in S})
<1>1. PICK T : T = {f[x] : x \in S}
  OBVIOUS
<1>2. PICK g : g = [x \in S |-> f[x]]
  OBVIOUS
<1>3. g \in Surjection(S, T)
  BY <1>1, <1>2 DEF Surjection
<1>4. IsFiniteSet(T)
  BY <1>3, FS_Surjection
<1> QED
  BY <1>1, <1>4

-----------------------------------------------------------------------------
(* Sums and sorted lists *)

UnitsOf(n, S) == UNION {{x} \X (1 .. n[x]) : x \in S}

LEMMA UnitsFinite ==
  ASSUME NEW S, IsFiniteSet(S), NEW n, \A x \in S : n[x] \in Nat
  PROVE  IsFiniteSet(UnitsOf(n, S)) /\ Cardinality(UnitsOf(n, S)) \in Nat
<1>1. PICK units : units = [x \in S |-> {x} \X (1 .. n[x])]
  OBVIOUS
<1>2. PICK each : each = {units[x] : x \in S}
  OBVIOUS
<1>3. IsFiniteSet(each)
  <2>1. DOMAIN units = S
    BY <1>1
  <2> QED
    BY <1>2, <2>1, ImageFinite
<1>4. ASSUME NEW T \in each PROVE IsFiniteSet(T)
  <2>1. PICK x \in S : T = {x} \X (1 .. n[x])
    BY <1>1, <1>2
  <2>2. PICK one, some : one = {x} /\ some = 1 .. n[x]
    OBVIOUS
  <2>3. IsFiniteSet(one) /\ IsFiniteSet(some)
    <3>1. 1 \in Int /\ n[x] \in Int
      OBVIOUS
    <3>2. IsFiniteSet(1 .. n[x])
      BY <3>1, FS_Interval
    <3> QED
      BY <2>2, <3>2, FS_Singleton
  <2>4. IsFiniteSet(one \X some)
    BY <2>3, FS_Product
  <2> QED
    BY <2>1, <2>2, <2>4
<1>5. IsFiniteSet(UNION each)
  BY <1>3, <1>4, FS_UNION
<1>6. UnitsOf(n, S) = UNION each
  BY <1>1, <1>2 DEF UnitsOf
<1> QED
  BY <1>5, <1>6, FS_CardinalityType

\* Total is a number.
LEMMA TotalTyped ==
  ASSUME NEW S, IsFiniteSet(S), NEW n \in [S -> Nat]
  PROVE  Total(n) \in Nat
<1>1. Total(n) = Cardinality(UnitsOf(n, S))
  BY DEF Total, UnitsOf
<1> QED
  BY <1>1, UnitsFinite

LEMMA TotalOfNone ==
  ASSUME NEW n, DOMAIN n = {}
  PROVE  Total(n) = 0
<1>1. UNION {{x} \X (1 .. n[x]) : x \in DOMAIN n} = {}
  OBVIOUS
<1> QED
  BY <1>1, FS_EmptySet DEF Total

\* Total adds up.
LEMMA TotalAdded ==
  ASSUME NEW S, IsFiniteSet(S), NEW a, a \notin S, NEW n \in [S -> Nat],
         NEW m \in [S \cup {a} -> Nat], \A x \in S : m[x] = n[x]
  PROVE  Total(m) = Total(n) + m[a]
<1>1. PICK one, some : one = {a} /\ some = 1 .. m[a]
  OBVIOUS
<1>2. m[a] \in Nat
  OBVIOUS
<1>3. IsFiniteSet(one) /\ Cardinality(one) = 1
  BY <1>1, FS_Singleton
<1>4. IsFiniteSet(some) /\ Cardinality(some) = m[a]
  BY <1>1, <1>2, FS_Interval
<1>5. IsFiniteSet(one \X some) /\ Cardinality(one \X some) = m[a]
  <2>1. IsFiniteSet(one \X some) /\ Cardinality(one \X some) = Cardinality(one) * Cardinality(some)
    BY <1>3, <1>4, FS_Product
  <2> QED
    BY <1>2, <1>3, <1>4, <2>1
<1>6. PICK U, V : U = UnitsOf(n, S) /\ V = UnitsOf(m, S \cup {a})
  OBVIOUS
<1>7. IsFiniteSet(U) /\ Cardinality(U) \in Nat
  BY <1>6, UnitsFinite
<1>8. V = U \cup (one \X some)
  <2>1. ASSUME NEW u PROVE u \in V <=> u \in U \/ u \in one \X some
    <3>1. u \in V <=> \E x \in S \cup {a} : \E i \in 1 .. m[x] : u = <<x, i>>
      BY <1>6 DEF UnitsOf
    <3>2. u \in U <=> \E x \in S : \E i \in 1 .. n[x] : u = <<x, i>>
      BY <1>6 DEF UnitsOf
    <3>3. u \in one \X some <=> \E i \in 1 .. m[a] : u = <<a, i>>
      BY <1>1
    <3> QED
      BY <3>1, <3>2, <3>3
  <2> QED
    BY <2>1
<1>9. U \cap (one \X some) = {}
  <2>1. ASSUME NEW u \in U PROVE u \notin one \X some
    <3>1. PICK x \in S : \E i \in 1 .. n[x] : u = <<x, i>>
      BY <1>6 DEF UnitsOf
    <3> QED
      BY <1>1, <3>1
  <2> QED
    BY <2>1
<1>10. Cardinality(V) = Cardinality(U) + m[a]
  <2>1. Cardinality(U \cup (one \X some))
          = Cardinality(U) + Cardinality(one \X some) - Cardinality(U \cap (one \X some))
    BY <1>5, <1>7, FS_Union
  <2>2. Cardinality(U \cap (one \X some)) = 0
    BY <1>9, FS_EmptySet
  <2> QED
    BY <1>2, <1>5, <1>7, <1>8, <2>1, <2>2
<1>11. Total(n) = Cardinality(U) /\ Total(m) = Cardinality(V)
  BY <1>6 DEF Total, UnitsOf
<1> QED
  BY <1>10, <1>11

\* The k-th smallest value is one of the values.
LEMMA SmallestIs ==
  ASSUME NEW S, IsFiniteSet(S), NEW key \in [S -> Nat], NEW k \in 1 .. Cardinality(S)
  PROVE  Smallest(key, k) \in {key[x] : x \in S}
<1> DEFINE values == {key[x] : x \in S}
           below(t) == {x \in S : key[x] < t}
           upto(t) == {x \in S : key[x] <= t}
           enough == {t \in values : Cardinality(upto(t)) >= k}
<1>1. Cardinality(S) \in Nat /\ values \subseteq Nat
  BY FS_CardinalityType
<1>2. \A T \in SUBSET S : IsFiniteSet(T) /\ Cardinality(T) \in Nat
  BY FS_Subset, FS_CardinalityType
<1>3. S # {}
  BY FS_EmptySet
<1>4. IsFiniteSet(values)
  BY ImageFinite
<1>5. enough # {}
  <2>1. PICK m \in values : \A t \in values : t <= m
    <3> HIDE DEF values
    <3>1. values # {}
      BY <1>3 DEF values
    <3> QED
      BY <1>1, <1>4, <3>1, GreatestNumber
  <2>2. upto(m) = S
    BY <2>1
  <2> QED
    BY <1>1, <2>1, <2>2
<1>6. PICK t \in enough : \A u \in enough : t <= u
  <2>1. enough \in SUBSET Nat
    BY <1>1
  <2> HIDE DEF enough
  <2> QED
    BY <1>5, <2>1, LeastNumber
<1>7. Cardinality(below(t)) < k
  <2>1. CASE below(t) = {}
    BY <2>1, FS_EmptySet
  <2>2. CASE below(t) # {}
    <3> DEFINE less == {u \in values : u < t}
    <3>1. IsFiniteSet(less) /\ less \in SUBSET Nat /\ less # {}
      <4>1. less \in SUBSET values /\ less # {}
        BY <2>2
      <4> HIDE DEF values, less
      <4> QED
        BY <1>1, <1>4, <4>1, FS_Subset
    <3>2. PICK u \in less : \A w \in less : w <= u
      <4> HIDE DEF less
      <4> QED
        BY <3>1, GreatestNumber
    <3>3. below(t) = upto(u)
      <4>1. \A x \in S : key[x] < t <=> key[x] <= u
        <5> SUFFICES ASSUME NEW x \in S PROVE key[x] < t <=> key[x] <= u
          OBVIOUS
        <5>1. key[x] < t => key[x] \in less
          OBVIOUS
        <5>2. t \in Nat /\ u \in Nat /\ u < t /\ key[x] \in Nat
          BY <1>1, <1>6, <3>1, <3>2
        <5> QED
          BY <3>2, <5>1, <5>2
      <4> QED
        BY <4>1
    <3>4. u \notin enough
      BY <1>1, <1>6, <3>2
    <3>5. Cardinality(upto(u)) \in Nat
      BY <1>2
    <3> QED
      BY <1>1, <3>2, <3>3, <3>4, <3>5
  <2> QED
    BY <2>1, <2>2
<1>8. /\ DOMAIN key = S /\ t \in values
      /\ Cardinality({x \in S : key[x] < t}) < k /\ Cardinality({x \in S : key[x] <= t}) >= k
  BY <1>6, <1>7
<1>9. Smallest(key, k) \in {key[x] : x \in DOMAIN key}
  BY <1>8 DEF Smallest
<1> QED
  BY <1>8, <1>9

\* A strict total order on S.
Orders(before, S) ==
  /\ \A x \in S : <<x, x>> \notin before
  /\ \A x, y \in S : x # y => <<x, y>> \in before \/ <<y, x>> \in before
  /\ \A x, y, z \in S : <<x, y>> \in before /\ <<y, z>> \in before => <<x, z>> \in before

\* Each of S has one place.
LEMMA NthIs ==
  ASSUME NEW S, IsFiniteSet(S), NEW before, Orders(before, S)
  PROVE  /\ Cardinality(S) \in Nat
         /\ \A i \in 1 .. Cardinality(S) : Nth(S, before, i) \in S
         /\ \A i, j \in 1 .. Cardinality(S) : Nth(S, before, i) = Nth(S, before, j) => i = j
<1> DEFINE ahead(x) == {y \in S : <<y, x>> \in before}
           n == Cardinality(S)
           rank == [x \in S |-> Cardinality(ahead(x)) + 1]
<1>1. n \in Nat
  BY FS_CardinalityType
<1>2. \A T \in SUBSET S : IsFiniteSet(T) /\ Cardinality(T) \in Nat /\ Cardinality(T) <= n
                          /\ (Cardinality(T) = n => T = S)
  BY FS_Subset, FS_CardinalityType
<1>3. ASSUME NEW x \in S PROVE rank[x] \in 1 .. n
  <2>1. ahead(x) # S /\ ahead(x) \in SUBSET S
    BY DEF Orders
  <2>2. Cardinality(ahead(x)) \in Nat /\ Cardinality(ahead(x)) <= n /\ Cardinality(ahead(x)) # n
    <3> HIDE DEF ahead, n
    <3> QED
      BY <1>2, <2>1
  <2> QED
    BY <1>1, <2>2
<1>4. ASSUME NEW x \in S, NEW y \in S, <<x, y>> \in before PROVE rank[x] < rank[y]
  <2>1. PICK X, Y : X = ahead(x) /\ Y = ahead(y)
    OBVIOUS
  <2>2. X \in SUBSET Y /\ x \in Y /\ x \notin X /\ Y \in SUBSET S
    BY <1>4, <2>1 DEF Orders
  <2>3. IsFiniteSet(Y) /\ Cardinality(Y) \in Nat /\ Cardinality(X) \in Nat
    BY <1>2, <2>2
  <2>4. Cardinality(X) <= Cardinality(Y) /\ Cardinality(Y) # Cardinality(X)
    BY <2>2, <2>3, FS_Subset
  <2> QED
    BY <2>1, <2>3, <2>4
<1>5. rank \in Injection(S, 1 .. n)
  <2>1. rank \in [S -> 1 .. n]
    BY <1>3
  <2>2. ASSUME NEW x \in S, NEW y \in S, rank[x] = rank[y] PROVE x = y
    <3>1. rank[x] \in Int /\ rank[y] \in Int /\ ~ (rank[x] < rank[y]) /\ ~ (rank[y] < rank[x])
      <4> HIDE DEF rank
      <4> QED
        BY <1>1, <1>3, <2>2
    <3>2. ~ (<<x, y>> \in before) /\ ~ (<<y, x>> \in before)
      <4> HIDE DEF rank
      <4> QED
        BY <1>4, <3>1
    <3> QED
      BY <3>2 DEF Orders
  <2> HIDE DEF rank, n
  <2>3. \A x, y \in S : rank[x] = rank[y] => x = y
    BY <2>2
  <2> QED
    BY <2>1, <2>3 DEF Injection, IsInjective
<1>6. rank \in Surjection(S, 1 .. n)
  <2>1. IsFiniteSet(1 .. n) /\ Cardinality(1 .. n) = n
    BY <1>1, FS_Interval
  <2> HIDE DEF rank
  <2> QED
    BY <1>5, <2>1, FS_Injection
<1>7. ASSUME NEW i \in 1 .. n
      PROVE  Nth(S, before, i) \in S /\ Cardinality(ahead(Nth(S, before, i))) = i - 1
  <2>1. PICK x \in S : rank[x] = i
    BY <1>6 DEF Surjection
  <2>2. Cardinality(ahead(x)) \in Nat
    BY <1>2
  <2>3. Cardinality({y \in S : <<y, x>> \in before}) = i - 1
    BY <2>1, <2>2
  <2>4. PICK z : z = Nth(S, before, i)
    OBVIOUS
  <2>5. z \in S /\ Cardinality({y \in S : <<y, z>> \in before}) = i - 1
    BY <2>3, <2>4 DEF Nth
  <2> QED
    BY <2>4, <2>5
<1>8. ASSUME NEW i \in 1 .. n, NEW j \in 1 .. n, Nth(S, before, i) = Nth(S, before, j) PROVE i = j
  <2> HIDE DEF ahead
  <2>1. i - 1 = j - 1
    BY <1>7, <1>8
  <2> QED
    BY <1>1, <2>1
<1> QED
  BY <1>1, <1>7, <1>8

-----------------------------------------------------------------------------
(* What a decision is made from *)

LEMMA AuthoritiesFinite == IsFiniteSet(Authorities)
<1>1. SortedKeys \in Seq(Authorities)
  BY ReroutingAssumption
<1>2. Len(SortedKeys) \in Nat /\ DOMAIN SortedKeys = 1 .. Len(SortedKeys)
  BY <1>1
<1>3. PICK S : S = DOMAIN SortedKeys
  OBVIOUS
<1>4. IsFiniteSet(S)
  BY <1>2, <1>3, FS_Interval
<1>5. IsFiniteSet({SortedKeys[i] : i \in S})
  BY <1>3, <1>4, ImageFinite
<1> QED
  BY <1>3, <1>5 DEF Authorities, ToSet

LEMMA RankIs ==
  ASSUME NEW w \in Authorities
  PROVE  Rank(w) \in Nat /\ SortedKeys[Rank(w)] = w
<1>1. PICK i \in DOMAIN SortedKeys : SortedKeys[i] = w
  BY DEF Authorities, ToSet
<1>2. Rank(w) \in DOMAIN SortedKeys /\ SortedKeys[Rank(w)] = w
  BY <1>1 DEF Rank
<1>3. Len(SortedKeys) \in Nat /\ DOMAIN SortedKeys = 1 .. Len(SortedKeys)
  <2>1. SortedKeys \in Seq(Authorities)
    BY ReroutingAssumption
  <2> QED
    BY <2>1
<1> QED
  BY <1>2, <1>3

LEMMA DagFacts ==
  ASSUME NEW d \in Dags
  PROVE  /\ IsFiniteSet(DOMAIN d)
         /\ \A c \in DOMAIN d :
              /\ c.origin \in Authorities /\ c.round \in Nat /\ c.round > 0
              /\ c = [origin |-> c.origin, round |-> c.round]
              /\ d[c].parents \subseteq {p \in DOMAIN d : p.round = c.round - 1}
              /\ c.round > 1 => d[c].parents # {}
              /\ d[c].counts \in [Accounts -> Nat]
              /\ d[c].delay \in Nat /\ d[c].createdAt \in Nat
<1>1. IsDag(d)
  BY ReroutingAssumption
<1>2. PICK all : all = DOMAIN d
  OBVIOUS
<1>3. ASSUME NEW c \in all
      PROVE  /\ c.origin \in Authorities /\ c.round \in Nat /\ c.round > 0
             /\ c = [origin |-> c.origin, round |-> c.round]
  BY <1>1, <1>2, <1>3 DEF IsDag
<1> QED
  BY <1>1, <1>2, <1>3 DEF IsDag

\* Certificates and what they hold.
Holds(W) ==
  /\ IsFiniteSet(DOMAIN W)
  /\ \A c \in DOMAIN W :
       /\ c.origin \in Authorities /\ c.round \in Nat
       /\ W[c].counts \in [Accounts -> Nat]
       /\ W[c].delay \in Nat /\ W[c].createdAt \in Nat

LEMMA PartHolds ==
  ASSUME NEW W, Holds(W), NEW S \in SUBSET DOMAIN W
  PROVE  Holds(Restrict(W, S)) /\ DOMAIN Restrict(W, S) = S
<1>1. PICK V : V = Restrict(W, S)
  OBVIOUS
<1>2. DOMAIN V = S /\ \A c \in S : V[c] = W[c]
  BY <1>1 DEF Restrict
<1>3. IsFiniteSet(S)
  BY FS_Subset DEF Holds
<1>4. Holds(V)
  BY <1>2, <1>3 DEF Holds
<1> QED
  BY <1>1, <1>2, <1>4

LEMMA DagHolds ==
  ASSUME NEW d \in Dags
  PROVE  Holds(d)
  BY DagFacts DEF Holds

LEMMA MedianTyped ==
  ASSUME NEW T, Holds(T), NEW r, OfRound(T, r) # {}
  PROVE  Median(T, r) \in Nat
<1>1. PICK S : S = OfRound(T, r)
  OBVIOUS
<1>2. IsFiniteSet(S) /\ S \in SUBSET DOMAIN T /\ S # {}
  <2>1. S \in SUBSET DOMAIN T
    BY <1>1 DEF OfRound
  <2> QED
    BY <1>1, <2>1, FS_Subset DEF Holds
<1>3. PICK n : n = Cardinality(S) /\ n \in Nat /\ n # 0
  BY <1>2, FS_CardinalityType, FS_EmptySet
<1>4. PICK times : times = [c \in S |-> T[c].createdAt]
  OBVIOUS
<1>5. times \in [S -> Nat]
  BY <1>2, <1>4 DEF Holds
<1>6. ASSUME NEW k \in 1 .. n PROVE Smallest(times, k) \in Nat
  BY <1>2, <1>3, <1>5, SmallestIs
<1>7. PICK mid \in Nat : mid = n \div 2
  BY <1>3
<1>8. Median(T, r) = IF n % 2 = 1 THEN Smallest(times, mid + 1)
                     ELSE (Smallest(times, mid) + Smallest(times, mid + 1)) \div 2
  BY <1>1, <1>3, <1>4, <1>7 DEF Median
<1>9. CASE n % 2 = 1
  <2>1. mid + 1 \in 1 .. n
    BY <1>3, <1>7, <1>9
  <2> QED
    BY <1>6, <1>8, <1>9, <2>1
<1>10. CASE n % 2 # 1
  <2>1. mid \in 1 .. n /\ mid + 1 \in 1 .. n
    BY <1>3, <1>7, <1>10
  <2>2. PICK x, y \in Nat : x = Smallest(times, mid) /\ y = Smallest(times, mid + 1)
    BY <1>6, <2>1
  <2>3. Median(T, r) = (x + y) \div 2
    BY <1>8, <1>10, <2>2
  <2> QED
    BY <2>2, <2>3
<1> QED
  BY <1>9, <1>10

LEMMA LoadsTyped ==
  ASSUME NEW W, Holds(W), NEW w
  PROVE  /\ \A a \in Accounts : CountOf(W, w, a) \in Nat
         /\ TotalOf(W, w) \in Nat /\ Delay(W, w) \in Nat
<1>1. PICK S : S = By(W, w)
  OBVIOUS
<1>2. IsFiniteSet(S) /\ S \in SUBSET DOMAIN W
  <2>1. S \in SUBSET DOMAIN W
    BY <1>1 DEF By
  <2> QED
    BY <2>1, FS_Subset DEF Holds
<1>3. ASSUME NEW a \in Accounts PROVE CountOf(W, w, a) \in Nat
  <2>1. PICK n : n = [c \in S |-> W[c].counts[a]]
    OBVIOUS
  <2>2. n \in [S -> Nat]
    BY <1>2, <2>1 DEF Holds
  <2> QED
    BY <1>1, <1>2, <2>1, <2>2, TotalTyped DEF CountOf
<1>4. TotalOf(W, w) \in Nat
  <2>1. PICK n : n = [a \in Accounts |-> CountOf(W, w, a)]
    OBVIOUS
  <2>2. n \in [Accounts -> Nat] /\ IsFiniteSet(Accounts)
    BY <1>3, <2>1, ReroutingAssumption
  <2> QED
    BY <2>1, <2>2, TotalTyped DEF TotalOf
<1>5. Delay(W, w) \in Nat
  <2>1. CASE w \in Present(W)
    <3>1. S # {}
      BY <1>1, <2>1 DEF Present, By
    <3>2. PICK k : k = Cardinality(S) /\ k \in Nat /\ k # 0
      BY <1>2, <3>1, FS_CardinalityType, FS_EmptySet
    <3>3. PICK n : n = [c \in S |-> W[c].delay]
      OBVIOUS
    <3>4. n \in [S -> Nat]
      BY <1>2, <3>3 DEF Holds
    <3>5. PICK t \in Nat : t = Total(n)
      BY <1>2, <3>4, TotalTyped
    <3>6. Delay(W, w) = t \div k
      BY <1>1, <2>1, <3>2, <3>3, <3>5 DEF Delay, DelayOf
    <3> QED
      BY <3>2, <3>6
  <2>2. CASE w \notin Present(W)
    BY <2>2 DEF Delay
  <2> QED
    BY <2>1, <2>2
<1> QED
  BY <1>3, <1>4, <1>5

IsInput(in) ==
  /\ Holds(in.window)
  /\ in.duration \in Nat /\ in.round \in Nat /\ in.elapsed \in Nat
  /\ in.last \in [Accounts -> Nat \cup {None}]
  /\ in.baseline \in [Authorities -> Nat \cup {None}]

\* A donor that sheds has committed more than its capacity.
LEMMA InputFacts ==
  ASSUME NEW in, IsInput(in), NEW w \in Authorities
  PROVE  /\ TotalOf(in.window, w) \in Nat
         /\ SpareOf(in, w) \in Int
         /\ EstimatedExcess(in, w) \in Int /\ StructuralExcess(in, w) \in Nat
         /\ ShedTarget(in, w) \in Int
         /\ ShedTarget(in, w) > 0 => StructuralExcess(in, w) > 0
         /\ \A of \in SUBSET Accounts : \A a \in Accounts : CapLoad(in, w, of, a) \in Nat
         /\ TotalOf(in.window, w) # 0 => \A load \in Nat : ShedLoad(in, w, load) \in Int
<1>1. PICK total, delay, cap \in Nat :
        total = TotalOf(in.window, w) /\ delay = Delay(in.window, w) /\ cap = Capacity[w]
  BY LoadsTyped, ReroutingAssumption DEF IsInput
<1>2. PICK time, elapsed \in Nat : time = in.duration /\ elapsed = in.elapsed
  BY DEF IsInput
<1>3. PICK excess \in Int : excess = EstimatedExcess(in, w)
  <2>1. PICK b \in Nat : b = IF in.baseline[w] = None THEN 0 ELSE in.baseline[w]
    BY DEF IsInput
  <2>2. EstimatedExcess(in, w) = IF elapsed > 0 THEN (total * (delay - b)) \div elapsed ELSE 0
    BY <1>1, <1>2, <2>1 DEF EstimatedExcess
  <2>3. PICK grown \in Int : grown = total * (delay - b)
    BY <1>1, <2>1
  <2>4. elapsed > 0 => grown \div elapsed \in Int
    BY <1>2, <2>3
  <2> QED
    BY <2>2, <2>3, <2>4
<1>4. PICK over \in Int : over = total - cap * time
  BY <1>1, <1>2
<1>5. PICK structural \in Nat : structural = StructuralExcess(in, w)
  <2>1. StructuralExcess(in, w) = Max({over, 0})
    BY <1>1, <1>2, <1>4 DEF StructuralExcess
  <2>2. PICK zero \in Int : zero = 0
    OBVIOUS
  <2>3. Max({over, zero}) \in {over, zero} /\ Max({over, zero}) >= zero
    BY MaxOfTwo
  <2> QED
    BY <1>4, <2>1, <2>2, <2>3
<1>6. SpareOf(in, w) \in Int
  BY <1>1, <1>2 DEF SpareOf
<1>7. PICK cut \in Int : cut = ShedCapMultiplier * structural /\ (structural = 0 => cut = 0)
  BY <1>5, ReroutingAssumption
<1>8. PICK wanted \in Int : wanted = Max({excess, structural})
  <2>1. PICK atLeast \in Int : atLeast = structural
    BY <1>5
  <2>2. Max({excess, atLeast}) \in {excess, atLeast}
    BY MaxOfTwo
  <2> QED
    BY <2>1, <2>2
<1>9. ShedTarget(in, w) = Min({wanted, cut})
  BY <1>3, <1>5, <1>7, <1>8 DEF ShedTarget
<1>10. Min({wanted, cut}) \in {wanted, cut} /\ Min({wanted, cut}) <= cut
  BY <1>7, <1>8, MinOfTwo
<1>11. ASSUME NEW of \in SUBSET Accounts, NEW a \in Accounts PROVE CapLoad(in, w, of, a) \in Nat
  <2>1. PICK n : n = [b \in of |-> CountOf(in.window, w, b)]
    OBVIOUS
  <2>2. n \in [of -> Nat] /\ IsFiniteSet(of)
    BY <2>1, LoadsTyped, ReroutingAssumption, FS_Subset DEF IsInput
  <2>3. PICK committed \in Nat : committed = Total(n)
    BY <2>2, TotalTyped
  <2>4. PICK count \in Nat : count = CountOf(in.window, w, a)
    BY LoadsTyped DEF IsInput
  <2>5. CapLoad(in, w, of, a) = IF committed = 0 THEN 0 ELSE (total * count) \div committed
    BY <1>1, <2>1, <2>3, <2>4 DEF CapLoad
  <2>6. PICK product \in Nat : product = total * count
    BY <1>1, <2>4
  <2>7. committed # 0 => product \div committed \in Nat
    BY <2>3, <2>6
  <2> QED
    BY <2>5, <2>6, <2>7
<1>12. ASSUME total # 0, NEW load \in Nat PROVE ShedLoad(in, w, load) \in Int
  <2>1. PICK growth \in Int : growth = Max({excess, 0})
    <3>1. PICK zero \in Int : zero = 0
      OBVIOUS
    <3>2. Max({excess, zero}) \in {excess, zero}
      BY MaxOfTwo
    <3> QED
      BY <3>1, <3>2
  <2>2. ShedLoad(in, w, load) = (load * (total + growth)) \div total
    BY <1>1, <1>3, <2>1 DEF ShedLoad
  <2>3. PICK product \in Int : product = load * (total + growth)
    BY <1>1, <2>1
  <2> QED
    BY <1>1, <1>12, <2>2, <2>3
<1> QED
  BY <1>1, <1>3, <1>5, <1>6, <1>7, <1>8, <1>9, <1>10, <1>11, <1>12

\* The receiver chosen is one that fits.
LEMMA BestIs ==
  ASSUME NEW fits \in SUBSET Authorities, fits # {}, NEW spare, \A x \in fits : spare[x] \in Nat,
         NEW a \in Accounts
  PROVE  Best(fits, spare, a) \in fits
<1>1. PICK far : far = Latency[Home[a]] /\ far \in [Authorities -> Nat]
  BY ReroutingAssumption
<1>2. PICK near : near = {w \in fits : \A x \in fits : far[w] <= far[x]}
  OBVIOUS
<1>3. near # {}
  <2>1. PICK S : S = {far[x] : x \in fits}
    OBVIOUS
  <2>2. S \in SUBSET Nat /\ S # {}
    BY <1>1, <2>1
  <2>3. PICK m \in S : \A n \in S : m <= n
    BY <2>2, LeastNumber
  <2> QED
    BY <1>2, <2>1, <2>3
<1>4. PICK roomy : roomy = {w \in near : \A x \in near : spare[w] >= spare[x]}
  OBVIOUS
<1>5. roomy # {}
  <2>1. IsFiniteSet(near)
    BY <1>2, AuthoritiesFinite, FS_Subset
  <2>2. PICK f : f = [x \in near |-> spare[x]]
    OBVIOUS
  <2>3. PICK S : S = {f[x] : x \in near}
    OBVIOUS
  <2>4. S \in SUBSET Nat /\ S # {}
    BY <1>2, <1>3, <2>2, <2>3
  <2>5. IsFiniteSet(S)
    <3>1. DOMAIN f = near
      BY <2>2
    <3> QED
      BY <2>1, <2>3, <3>1, ImageFinite
  <2>6. PICK m \in S : \A n \in S : n <= m
    BY <2>4, <2>5, GreatestNumber
  <2> QED
    BY <1>2, <1>4, <2>2, <2>3, <2>6
<1>6. \E w \in roomy : \A x \in roomy : Rank(w) <= Rank(x)
  <2>1. PICK S : S = {Rank(x) : x \in roomy}
    OBVIOUS
  <2>2. S \in SUBSET Nat /\ S # {}
    BY <1>2, <1>4, <1>5, <2>1, RankIs
  <2>3. PICK m \in S : \A n \in S : m <= n
    BY <2>2, LeastNumber
  <2> QED
    BY <2>1, <2>3
<1>7. Best(fits, spare, a) = CHOOSE w \in roomy : \A x \in roomy : Rank(w) <= Rank(x)
  BY <1>1, <1>2, <1>4 DEF Best
<1> QED
  BY <1>2, <1>4, <1>6, <1>7

-----------------------------------------------------------------------------
(* The decision *)

States == [to : [Accounts -> Authorities], shed : Int, spare : [Authorities -> Int]]

MovesTo(st, next, a, load, x) ==
  /\ st.spare[x] >= load
  /\ next.to = [st.to EXCEPT ![a] = x]
  /\ next.spare = [st.spare EXCEPT ![x] = @ - load]

\* A turn moves the account to a receiver with room for it, or changes nothing.
LEMMA VisitIs ==
  ASSUME NEW in, IsInput(in), NEW w \in Authorities, TotalOf(in.window, w) # 0,
         NEW st \in States, NEW a \in Accounts, NEW load \in Nat
  PROVE  LET next == Visit(in, w, st, a, load)
         IN  /\ next \in States
             /\ next = st \/ \E x \in Receivers(in) : MovesTo(st, next, a, load, x)
<1>1. PICK fits : fits = {x \in Receivers(in) : st.spare[x] >= load}
  OBVIOUS
<1>2. PICK next : next = Visit(in, w, st, a, load)
  OBVIOUS
<1>3. CASE next = st
  BY <1>2, <1>3
<1>4. CASE next # st
  <2>1. PICK x : x = Best(fits, st.spare, a)
    OBVIOUS
  <2>2. PICK gone \in Int : gone = ShedLoad(in, w, load)
    BY InputFacts
  <2>3. fits # {} /\ next = Take(st, a, x, load, gone)
    BY <1>1, <1>2, <1>4, <2>1, <2>2 DEF Visit
  <2>4. Receivers(in) \subseteq Authorities
    BY DEF IsInput, Holds, Receivers, Present
  <2>5. x \in fits
    <3>1. \A y \in fits : st.spare[y] \in Nat
      <4>1. \A y \in fits : st.spare[y] \in Int /\ st.spare[y] >= load
        BY <1>1, <2>4 DEF States
      <4> QED
        BY <4>1
    <3>2. fits \in SUBSET Authorities
      BY <1>1, <2>4
    <3> QED
      BY <2>1, <2>3, <3>1, <3>2, BestIs
  <2>6. x \in Receivers(in) /\ x \in Authorities /\ st.spare[x] >= load
    BY <1>1, <2>4, <2>5
  <2>7. /\ next = [to |-> next.to, shed |-> next.shed, spare |-> next.spare]
        /\ next.to = [st.to EXCEPT ![a] = x]
        /\ next.spare = [st.spare EXCEPT ![x] = st.spare[x] - load]
        /\ next.shed = st.shed + gone
    BY <2>3, <2>6 DEF Take, States
  <2>8. next \in States
    <3>1. st.spare[x] - load \in Int /\ st.shed + gone \in Int
      BY <2>2, <2>6 DEF States
    <3>2. next.to \in [Accounts -> Authorities] /\ next.spare \in [Authorities -> Int]
      BY <2>6, <2>7, <3>1 DEF States
    <3> QED
      BY <2>7, <3>1, <3>2 DEF States
  <2>9. MovesTo(st, next, a, load, x)
    BY <2>6, <2>7 DEF MovesTo
  <2> QED
    BY <1>2, <2>6, <2>8, <2>9
<1> QED
  BY <1>3, <1>4

HeldBy(to, w) == {a \in Accounts : to[a] = w}

LoadOf(in, w, own) == [a \in own |-> CapLoad(in, w, own, a)]

Heavier(own, load) ==
  {p \in own \X own : load[p[1]] > load[p[2]] \/ (load[p[1]] = load[p[2]] /\ p[1] < p[2])}

Slower(in, donors) ==
  {p \in donors \X donors :
     \/ Delay(in.window, p[1]) > Delay(in.window, p[2])
     \/ Delay(in.window, p[1]) = Delay(in.window, p[2]) /\ Rank(p[1]) < Rank(p[2])}

\* Each account of a donor has one turn.
LEMMA HeavierOrders ==
  ASSUME NEW own \in SUBSET Accounts, NEW load \in [own -> Nat]
  PROVE  Orders(Heavier(own, load), own)
<1>1. \A a \in own : a \in Nat /\ load[a] \in Nat
  BY ReroutingAssumption
<1>2. \A a, b \in own : <<a, b>> \in Heavier(own, load)
                          <=> load[a] > load[b] \/ (load[a] = load[b] /\ a < b)
  BY DEF Heavier
<1> QED
  BY <1>1, <1>2 DEF Orders

\* Each donor has one turn.
LEMMA SlowerOrders ==
  ASSUME NEW in, IsInput(in), NEW donors \in SUBSET Authorities
  PROVE  Orders(Slower(in, donors), donors)
<1>1. PICK delay : delay = [w \in donors |-> Delay(in.window, w)]
  OBVIOUS
<1>2. PICK rank : rank = [w \in donors |-> Rank(w)]
  OBVIOUS
<1>3. \A w \in donors : delay[w] \in Nat /\ rank[w] \in Nat
  BY <1>1, <1>2, RankIs, LoadsTyped DEF IsInput
<1>4. \A w, x \in donors : <<w, x>> \in Slower(in, donors)
                             <=> delay[w] > delay[x] \/ (delay[w] = delay[x] /\ rank[w] < rank[x])
  BY <1>1, <1>2 DEF Slower
<1>5. \A w, x \in donors : rank[w] = rank[x] => w = x
  BY <1>2, RankIs
<1> QED
  BY <1>3, <1>4, <1>5 DEF Orders

\* The loop over the accounts of a donor is a loop.
LEMMA ShedBySteps ==
  ASSUME NEW in, IsInput(in), NEW w \in Authorities, NEW st \in States,
         TotalOf(in.window, w) # 0, ShedTarget(in, w) > 0
  PROVE  LET own == HeldBy(st.to, w)
             load == LoadOf(in, w, own)
             order == Heavier(own, load)
         IN  \E f :
               /\ f \in [0 .. Cardinality(own) -> States]
               /\ f[0] = [st EXCEPT !.shed = 0]
               /\ \A i \in 1 .. Cardinality(own) :
                    f[i] = Visit(in, w, f[i - 1], Nth(own, order, i), load[Nth(own, order, i)])
               /\ ShedBy(in, w, st) = f[Cardinality(own)]
<1> DEFINE own == HeldBy(st.to, w)
           load == LoadOf(in, w, own)
           order == Heavier(own, load)
           n == Cardinality(own)
           Turn(i, s) == LET a == Nth(own, order, i) IN Visit(in, w, s, a, load[a])
           step == [x \in (1 .. n) \X States |-> Turn(x[1], x[2])]
           Is(f) == f = [i \in 0 .. n |-> IF i = 0 THEN [st EXCEPT !.shed = 0]
                                          ELSE Turn(i, f[i - 1])]
<1>1. own \in SUBSET Accounts /\ IsFiniteSet(own)
  BY ReroutingAssumption, FS_Subset DEF HeldBy
<1>2. load \in [own -> Nat]
  <2> HIDE DEF own
  <2> QED
    BY <1>1, InputFacts DEF LoadOf
<1>3. n \in Nat /\ \A i \in 1 .. n : Nth(own, order, i) \in own
  <2> HIDE DEF own, load
  <2> QED
    BY <1>1, <1>2, HeavierOrders, NthIs
<1>4. \A i \in 1 .. n, s \in States : Turn(i, s) \in States
  <2> HIDE DEF own, load, order
  <2> SUFFICES ASSUME NEW i \in 1 .. n, NEW s \in States PROVE Turn(i, s) \in States
    OBVIOUS
  <2>1. PICK a \in own : a = Nth(own, order, i)
    BY <1>3
  <2>2. load[a] \in Nat /\ a \in Accounts
    BY <1>1, <1>2
  <2> QED
    BY <2>1, <2>2, VisitIs
<1>5. PICK v : v = [st EXCEPT !.shed = 0] /\ v \in States
  <2>1. [st EXCEPT !.shed = 0] = [to |-> st.to, shed |-> 0, spare |-> st.spare]
    BY DEF States
  <2> QED
    BY <2>1 DEF States
<1>6. ShedBy(in, w, st) = (CHOOSE f : Is(f))[n]
  <2>1. ~ (TotalOf(in.window, w) = 0 \/ ShedTarget(in, w) <= 0)
    BY InputFacts
  <2> QED
    BY <2>1 DEF ShedBy, HeldBy, LoadOf, Heavier
<1> HIDE DEF own, load, order, n, Turn
<1>7. IsStepOn(step, n, States)
  BY <1>4 DEF IsStepOn
<1>8. PICK f : Iterates(f, v, step, n, States)
  <2> HIDE DEF step
  <2> QED
    BY <1>3, <1>5, <1>7, UpwardRecursion
<1>9. ASSUME NEW i \in 1 .. n PROVE f[i] = Turn(i, f[i - 1])
  <2>1. i - 1 \in 0 .. n
    BY <1>3
  <2> QED
    BY <1>8, <2>1 DEF Iterates
<1>10. Is(f)
  <2>1. ASSUME NEW i \in 0 .. n
        PROVE f[i] = IF i = 0 THEN [st EXCEPT !.shed = 0] ELSE Turn(i, f[i - 1])
    <3>1. i = 0 \/ i \in 1 .. n
      BY <1>3
    <3> QED
      BY <1>5, <1>8, <1>9, <3>1 DEF Iterates
  <2> QED
    BY <1>8, <2>1 DEF Iterates
<1>11. PICK g : g = (CHOOSE h : Is(h)) /\ Is(g)
  <2> HIDE DEF Is
  <2> QED
    BY <1>10
<1>12. g[0] = v /\ \A i \in 1 .. n : g[i] = Turn(i, g[i - 1])
  <2>1. \A i \in 0 .. n : g[i] = IF i = 0 THEN [st EXCEPT !.shed = 0] ELSE Turn(i, g[i - 1])
    BY <1>11
  <2>2. 0 \in 0 .. n /\ \A i \in 1 .. n : i \in 0 .. n /\ i # 0
    BY <1>3
  <2> QED
    BY <1>5, <2>1, <2>2
<1>13. g \in [0 .. n -> States]
  <2> DEFINE Good == {k \in Nat : k <= n => g[k] \in States}
  <2>1. 0 \in Good
    BY <1>5, <1>12
  <2>2. ASSUME NEW k \in Nat, k \in Good, k + 1 <= n PROVE g[k + 1] \in States
    <3>1. k + 1 \in 1 .. n /\ k + 1 - 1 = k /\ g[k] \in States
      BY <1>3, <2>2
    <3> QED
      BY <1>4, <1>12, <3>1
  <2>3. Nat \subseteq Good
    <3>1. \A k \in Nat : k \in Good => k + 1 \in Good
      BY <2>2
    <3> HIDE DEF Good
    <3> QED
      BY <2>1, <3>1, InductionOnNat
  <2>4. \A k \in 0 .. n : g[k] \in States
    BY <1>3, <2>3
  <2> QED
    BY <1>11, <2>4
<1>14. /\ g \in [0 .. n -> States] /\ g[0] = [st EXCEPT !.shed = 0]
       /\ \A i \in 1 .. n : g[i] = Turn(i, g[i - 1])
       /\ ShedBy(in, w, st) = g[n]
  BY <1>5, <1>6, <1>11, <1>12, <1>13
<1> QED
  BY <1>14 DEF own, load, order, n, Turn

LEMMA ShedByTyped ==
  ASSUME NEW in, IsInput(in), NEW w \in Authorities, NEW st \in States
  PROVE  ShedBy(in, w, st) \in States
<1>1. CASE TotalOf(in.window, w) = 0 \/ ShedTarget(in, w) <= 0
  BY <1>1 DEF ShedBy
<1>2. CASE ~ (TotalOf(in.window, w) = 0 \/ ShedTarget(in, w) <= 0)
  <2>1. TotalOf(in.window, w) # 0 /\ ShedTarget(in, w) > 0
    BY <1>2, InputFacts
  <2>2. PICK own : own = HeldBy(st.to, w)
    OBVIOUS
  <2>3. PICK f : f \in [0 .. Cardinality(own) -> States] /\ ShedBy(in, w, st) = f[Cardinality(own)]
    <3>1. PICK load : load = LoadOf(in, w, own)
      OBVIOUS
    <3>2. PICK order : order = Heavier(own, load)
      OBVIOUS
    <3>3. PICK n : n = Cardinality(own)
      OBVIOUS
    <3>4. \E f :
            /\ f \in [0 .. n -> States]
            /\ f[0] = [st EXCEPT !.shed = 0]
            /\ \A i \in 1 .. n :
                 f[i] = Visit(in, w, f[i - 1], Nth(own, order, i), load[Nth(own, order, i)])
            /\ ShedBy(in, w, st) = f[n]
      BY <2>1, <2>2, <3>1, <3>2, <3>3, ShedBySteps
    <3> QED
      BY <3>3, <3>4
  <2>4. Cardinality(own) \in Nat
    BY <2>2, ReroutingAssumption, FS_Subset, FS_CardinalityType DEF HeldBy
  <2> QED
    BY <2>3, <2>4
<1> QED
  BY <1>1, <1>2

\* What x has gained, and the loads it is charged with.
MovedTo(from, to, x) == {a \in Accounts : to[a] # from[a] /\ to[a] = x}
Gain(in, from, to, x) ==
  [a \in MovedTo(from, to, x) |-> CapLoad(in, from[a], HeldBy(from, from[a]), a)]

\* The decision so far, from the assignment "from" and after the turns of the
\* donors in S: what moved left an overloaded donor of S for a receiver, and the
\* receivers are charged with what they gained and had room for it.
Fair(in, from, S, st) ==
  /\ st \in States
  /\ \A a \in Accounts : st.to[a] # from[a] =>
       /\ from[a] \in S /\ StructuralExcess(in, from[a]) > 0
       /\ st.to[a] \in Receivers(in)
  /\ \A x \in Authorities :
       /\ st.spare[x] = SpareOf(in, x) - Total(Gain(in, from, st.to, x))
       /\ MovedTo(from, st.to, x) # {} => st.spare[x] >= 0

LEMMA GainTyped ==
  ASSUME NEW in, IsInput(in), NEW from \in [Accounts -> Authorities], NEW to, NEW x
  PROVE  /\ IsFiniteSet(MovedTo(from, to, x))
         /\ Gain(in, from, to, x) \in [MovedTo(from, to, x) -> Nat]
         /\ Total(Gain(in, from, to, x)) \in Nat
<1>1. PICK g : g = Gain(in, from, to, x)
  OBVIOUS
<1>2. PICK S : S = MovedTo(from, to, x)
  OBVIOUS
<1>3. S \in SUBSET Accounts /\ IsFiniteSet(S)
  BY <1>2, ReroutingAssumption, FS_Subset DEF MovedTo
<1>4. \A a \in S : CapLoad(in, from[a], HeldBy(from, from[a]), a) \in Nat
  <2> SUFFICES ASSUME NEW a \in S PROVE CapLoad(in, from[a], HeldBy(from, from[a]), a) \in Nat
    OBVIOUS
  <2>1. a \in Accounts /\ from[a] \in Authorities /\ HeldBy(from, from[a]) \in SUBSET Accounts
    BY <1>3 DEF HeldBy
  <2> QED
    BY <2>1, InputFacts
<1>5. DOMAIN g = S /\ g \in [S -> Nat]
  BY <1>1, <1>2, <1>4 DEF Gain
<1> QED
  BY <1>1, <1>2, <1>3, <1>5, TotalTyped

\* A turn charges the receiver.
LEMMA VisitFair ==
  ASSUME NEW in, IsInput(in), NEW from \in [Accounts -> Authorities],
         NEW S \in SUBSET Donors(in.window), NEW st, Fair(in, from, S, st),
         NEW w \in S, TotalOf(in.window, w) # 0, StructuralExcess(in, w) > 0,
         NEW a \in Accounts, from[a] = w, st.to[a] = w,
         NEW load, load = CapLoad(in, w, HeldBy(from, w), a)
  PROVE  LET next == Visit(in, w, st, a, load)
         IN  Fair(in, from, S, next) /\ \A b \in Accounts : b # a => next.to[b] = st.to[b]
<1>1. PICK next : next = Visit(in, w, st, a, load)
  OBVIOUS
<1>2. st \in States /\ w \in Authorities /\ load \in Nat
  <2>1. w \in Authorities /\ HeldBy(from, w) \in SUBSET Accounts
    BY DEF Donors, HeldBy
  <2> QED
    BY <2>1, InputFacts DEF Fair
<1>3. CASE next = st
  BY <1>1, <1>3
<1>4. CASE next # st
  <2>1. PICK x \in Receivers(in) : /\ st.spare[x] >= load
                                   /\ next.to = [st.to EXCEPT ![a] = x]
                                   /\ next.spare = [st.spare EXCEPT ![x] = st.spare[x] - load]
    <3>1. next = st \/ \E x \in Receivers(in) : MovesTo(st, next, a, load, x)
      BY <1>1, <1>2, VisitIs
    <3> QED
      BY <1>4, <3>1 DEF MovesTo
  <2>2. next \in States
    BY <1>1, <1>2, VisitIs
  <2>3. x \in Authorities /\ x # w
    BY DEF IsInput, Holds, Receivers, Present
  <2>4. /\ st.to \in [Accounts -> Authorities] /\ st.spare \in [Authorities -> Int]
        /\ next.to[a] = x /\ \A b \in Accounts : b # a => next.to[b] = st.to[b]
        /\ next.spare[x] = st.spare[x] - load
        /\ \A y \in Authorities : y # x => next.spare[y] = st.spare[y]
    BY <1>2, <2>1, <2>3 DEF States
  <2>5. \A b \in Accounts : next.to[b] # from[b] =>
          from[b] \in S /\ StructuralExcess(in, from[b]) > 0 /\ next.to[b] \in Receivers(in)
    BY <2>1, <2>4 DEF Fair
  <2>6. ASSUME NEW y \in Authorities
        PROVE  /\ next.spare[y] = SpareOf(in, y) - Total(Gain(in, from, next.to, y))
               /\ MovedTo(from, next.to, y) # {} => next.spare[y] >= 0
    <3>1. /\ st.spare[y] = SpareOf(in, y) - Total(Gain(in, from, st.to, y))
          /\ MovedTo(from, st.to, y) # {} => st.spare[y] >= 0
      BY DEF Fair
    <3>2. PICK D, E, old, new :
            /\ D = MovedTo(from, st.to, y) /\ old = Gain(in, from, st.to, y)
            /\ E = MovedTo(from, next.to, y) /\ new = Gain(in, from, next.to, y)
      OBVIOUS
    <3>3. /\ old \in [D -> Nat] /\ IsFiniteSet(D) /\ Total(old) \in Nat
          /\ new \in [E -> Nat] /\ Total(new) \in Nat
      BY <3>2, GainTyped
    <3>4. /\ \A b \in D : old[b] = CapLoad(in, from[b], HeldBy(from, from[b]), b)
          /\ \A b \in E : new[b] = CapLoad(in, from[b], HeldBy(from, from[b]), b)
      BY <3>2 DEF Gain
    <3>5. CASE y # x
      <4>1. \A b \in Accounts :
              next.to[b] # from[b] /\ next.to[b] = y <=> st.to[b] # from[b] /\ st.to[b] = y
        BY <2>4, <3>5
      <4>2. D = E
        BY <3>2, <4>1 DEF MovedTo
      <4>3. new = old
        BY <3>3, <3>4, <4>2
      <4> QED
        BY <2>4, <3>1, <3>2, <3>5, <4>2, <4>3
    <3>6. CASE y = x
      <4>1. a \notin D /\ E = D \cup {a}
        <5>1. \A b \in Accounts : b # a =>
                (next.to[b] # from[b] /\ next.to[b] = y <=> st.to[b] # from[b] /\ st.to[b] = y)
          BY <2>4
        <5>2. next.to[a] # from[a] /\ next.to[a] = y /\ st.to[a] = from[a]
          BY <2>3, <2>4, <3>6
        <5> QED
          BY <3>2, <5>1, <5>2 DEF MovedTo
      <4>2. (\A b \in D : new[b] = old[b]) /\ new[a] = load
        BY <3>4, <4>1
      <4>3. Total(new) = Total(old) + load
        <5>1. new \in [D \cup {a} -> Nat]
          BY <3>3, <4>1
        <5> QED
          BY <3>3, <4>1, <4>2, <5>1, TotalAdded
      <4>4. next.spare[y] = st.spare[y] - load /\ st.spare[y] \in Int /\ st.spare[y] >= load
        BY <2>1, <2>4, <3>6
      <4>5. SpareOf(in, y) \in Int
        BY InputFacts
      <4> QED
        BY <1>2, <3>1, <3>2, <3>3, <4>3, <4>4, <4>5
    <3> QED
      BY <3>5, <3>6
  <2>7. Fair(in, from, S, next)
    BY <2>2, <2>5, <2>6 DEF Fair
  <2> QED
    BY <1>1, <2>4, <2>7
<1> QED
  BY <1>3, <1>4

\* The turns of a donor that had none yet.
LEMMA ShedByFair ==
  ASSUME NEW in, IsInput(in), NEW from \in [Accounts -> Authorities],
         NEW S \in SUBSET Donors(in.window), NEW st, Fair(in, from, S, st),
         NEW w \in Donors(in.window), w \notin S
  PROVE  Fair(in, from, S \cup {w}, ShedBy(in, w, st))
<1>1. PICK R : R = S \cup {w} /\ R \in SUBSET Donors(in.window)
  OBVIOUS
<1>2. Fair(in, from, R, st)
  BY <1>1 DEF Fair
<1>3. w \in Authorities /\ st \in States
  BY DEF Donors, Fair
<1>4. CASE TotalOf(in.window, w) = 0 \/ ShedTarget(in, w) <= 0
  <2>1. ShedBy(in, w, st) = st
    BY <1>4 DEF ShedBy
  <2> QED
    BY <1>1, <1>2, <2>1
<1>5. CASE ~ (TotalOf(in.window, w) = 0 \/ ShedTarget(in, w) <= 0)
  <2>1. ShedTarget(in, w) > 0 /\ StructuralExcess(in, w) > 0 /\ TotalOf(in.window, w) # 0
    BY <1>3, <1>5, InputFacts
  <2>2. PICK own : own = HeldBy(st.to, w)
    OBVIOUS
  <2>3. PICK load : load = LoadOf(in, w, own)
    OBVIOUS
  <2>4. PICK order : order = Heavier(own, load)
    OBVIOUS
  <2>5. PICK n : n = Cardinality(own)
    OBVIOUS
  <2>6. PICK f : /\ f \in [0 .. n -> States]
                 /\ f[0] = [st EXCEPT !.shed = 0]
                 /\ \A i \in 1 .. n :
                      f[i] = Visit(in, w, f[i - 1], Nth(own, order, i), load[Nth(own, order, i)])
                 /\ ShedBy(in, w, st) = f[n]
    BY <1>3, <2>1, <2>2, <2>3, <2>4, <2>5, ShedBySteps
  <2>7. own \in SUBSET Accounts /\ own = HeldBy(from, w)
    <3>1. \A a \in Accounts : st.to[a] = w <=> from[a] = w
      BY DEF Fair, Receivers
    <3> QED
      BY <2>2, <3>1 DEF HeldBy
  <2>8. IsFiniteSet(own) /\ load \in [own -> Nat]
    BY <1>3, <2>3, <2>7, ReroutingAssumption, FS_Subset, InputFacts DEF LoadOf
  <2>9. /\ n \in Nat
        /\ \A i \in 1 .. n : Nth(own, order, i) \in own
        /\ \A i, j \in 1 .. n : Nth(own, order, i) = Nth(own, order, j) => i = j
    BY <2>4, <2>5, <2>7, <2>8, HeavierOrders, NthIs
  <2> DEFINE Good == {k \in Nat : k <= n =>
                        /\ Fair(in, from, R, f[k])
                        /\ \A j \in k + 1 .. n : f[k].to[Nth(own, order, j)] = w}
  <2>10. 0 \in Good
    <3>1. f[0] \in States /\ f[0].to = st.to /\ f[0].spare = st.spare
      <4>1. [st EXCEPT !.shed = 0] = [to |-> st.to, shed |-> 0, spare |-> st.spare]
        BY <1>3 DEF States
      <4>2. f[0] \in States
        BY <2>6, <2>9
      <4> QED
        BY <2>6, <4>1, <4>2
    <3>2. Fair(in, from, R, f[0])
      BY <1>2, <3>1 DEF Fair
    <3>3. \A j \in 1 .. n : f[0].to[Nth(own, order, j)] = w
      BY <2>2, <2>9, <3>1 DEF HeldBy
    <3> QED
      BY <3>2, <3>3
  <2>11. ASSUME NEW k \in Nat, k \in Good PROVE k + 1 \in Good
    <3> SUFFICES ASSUME k + 1 <= n
                 PROVE  /\ Fair(in, from, R, f[k + 1])
                        /\ \A j \in k + 2 .. n : f[k + 1].to[Nth(own, order, j)] = w
      OBVIOUS
    <3>1. k + 1 \in 1 .. n /\ k + 1 - 1 = k /\ k <= n
      BY <2>9
    <3>2. PICK a \in own : a = Nth(own, order, k + 1)
      BY <2>9, <3>1
    <3>3. f[k].to[a] = w /\ Fair(in, from, R, f[k])
      BY <2>11, <2>9, <3>1, <3>2
    <3>4. f[k + 1] = Visit(in, w, f[k], a, load[a])
      BY <2>6, <3>1, <3>2
    <3>5. a \in Accounts /\ from[a] = w /\ load[a] = CapLoad(in, w, HeldBy(from, w), a)
      BY <2>3, <2>7, <3>2 DEF HeldBy, LoadOf
    <3>6. /\ Fair(in, from, R, f[k + 1])
          /\ \A b \in Accounts : b # a => f[k + 1].to[b] = f[k].to[b]
      BY <1>1, <2>1, <3>3, <3>4, <3>5, VisitFair
    <3>7. ASSUME NEW j \in k + 2 .. n PROVE f[k + 1].to[Nth(own, order, j)] = w
      <4>1. j \in 1 .. n /\ j \in k + 1 .. n /\ j # k + 1
        OBVIOUS
      <4>2. Nth(own, order, j) \in Accounts /\ Nth(own, order, j) # a
        BY <2>7, <2>9, <3>1, <3>2, <4>1
      <4>3. f[k].to[Nth(own, order, j)] = w
        BY <2>11, <3>1, <4>1
      <4> QED
        BY <3>6, <4>2, <4>3
    <3> QED
      BY <3>6, <3>7
  <2>12. Nat \subseteq Good
    <3> HIDE DEF Good
    <3> QED
      BY <2>10, <2>11, InductionOnNat
  <2>13. Fair(in, from, R, f[n])
    BY <2>9, <2>12
  <2> QED
    BY <1>1, <2>6, <2>13
<1> QED
  BY <1>4, <1>5

FirstState(in, to) ==
  [to |-> to, shed |-> 0, spare |-> [w \in Authorities |-> SpareOf(in, w)]]

LEMMA FirstIsFair ==
  ASSUME NEW in, IsInput(in), NEW to \in [Accounts -> Authorities]
  PROVE  Fair(in, to, {}, FirstState(in, to))
<1>1. PICK st : st = FirstState(in, to)
  OBVIOUS
<1>2. \A x \in Authorities : SpareOf(in, x) \in Int
  BY InputFacts
<1>3. st \in States /\ st.to = to /\ \A x \in Authorities : st.spare[x] = SpareOf(in, x)
  BY <1>1, <1>2 DEF FirstState, States
<1>4. ASSUME NEW x \in Authorities
      PROVE  MovedTo(to, st.to, x) = {} /\ st.spare[x] = SpareOf(in, x) - Total(Gain(in, to, st.to, x))
  <2>1. MovedTo(to, st.to, x) = {}
    BY <1>3 DEF MovedTo
  <2>2. DOMAIN Gain(in, to, st.to, x) = {}
    BY <2>1 DEF Gain
  <2>3. Total(Gain(in, to, st.to, x)) = 0
    BY <2>2, TotalOfNone
  <2> QED
    BY <1>2, <1>3, <2>1, <2>3
<1> QED
  BY <1>1, <1>3, <1>4 DEF Fair

\* The loop over the donors is a loop.
LEMMA ReassignedSteps ==
  ASSUME NEW in, IsInput(in), NEW to \in [Accounts -> Authorities],
         ~ (Cardinality(Present(in.window)) < 2 * Faults)
  PROVE  LET donors == Donors(in.window)
             order == Slower(in, donors)
         IN  \E f :
               /\ f[0] = FirstState(in, to)
               /\ \A i \in 1 .. Cardinality(donors) :
                    f[i] = ShedBy(in, Nth(donors, order, i), f[i - 1])
               /\ Reassigned(in, to) = f[Cardinality(donors)].to
<1> DEFINE donors == Donors(in.window)
           order == Slower(in, donors)
           n == Cardinality(donors)
           Turn(i, s) == ShedBy(in, Nth(donors, order, i), s)
           step == [x \in (1 .. n) \X States |-> Turn(x[1], x[2])]
           Is(f) == f = [i \in 0 .. n |-> IF i = 0 THEN FirstState(in, to) ELSE Turn(i, f[i - 1])]
<1>1. donors \in SUBSET Authorities /\ IsFiniteSet(donors)
  BY AuthoritiesFinite, FS_Subset DEF Donors
<1>2. n \in Nat /\ \A i \in 1 .. n : Nth(donors, order, i) \in donors
  <2> HIDE DEF donors
  <2> QED
    BY <1>1, SlowerOrders, NthIs
<1>3. \A i \in 1 .. n, s \in States : Turn(i, s) \in States
  <2> SUFFICES ASSUME NEW i \in 1 .. n, NEW s \in States PROVE Turn(i, s) \in States
    OBVIOUS
  <2>1. PICK w \in Authorities : w = Nth(donors, order, i)
    BY <1>1, <1>2
  <2> QED
    BY <2>1, ShedByTyped
<1>4. PICK v : v = FirstState(in, to) /\ v \in States
  BY FirstIsFair DEF Fair
<1>5. Reassigned(in, to) = (CHOOSE f : Is(f))[n].to
  BY DEF Reassigned, Slower, FirstState
<1> HIDE DEF donors, order, n, Turn
<1>6. IsStepOn(step, n, States)
  BY <1>3 DEF IsStepOn
<1>7. PICK f : Iterates(f, v, step, n, States)
  <2> HIDE DEF step
  <2> QED
    BY <1>2, <1>4, <1>6, UpwardRecursion
<1>8. ASSUME NEW i \in 1 .. n PROVE f[i] = Turn(i, f[i - 1])
  <2>1. i - 1 \in 0 .. n
    BY <1>2
  <2> QED
    BY <1>7, <2>1 DEF Iterates
<1>9. Is(f)
  <2>1. ASSUME NEW i \in 0 .. n
        PROVE f[i] = IF i = 0 THEN FirstState(in, to) ELSE Turn(i, f[i - 1])
    <3>1. i = 0 \/ i \in 1 .. n
      BY <1>2
    <3> QED
      BY <1>4, <1>7, <1>8, <3>1 DEF Iterates
  <2> QED
    BY <1>7, <2>1 DEF Iterates
<1>10. PICK g : g = (CHOOSE h : Is(h)) /\ Is(g)
  <2> HIDE DEF Is
  <2> QED
    BY <1>9
<1>11. g[0] = FirstState(in, to) /\ \A i \in 1 .. n : g[i] = Turn(i, g[i - 1])
  <2>1. \A i \in 0 .. n : g[i] = IF i = 0 THEN FirstState(in, to) ELSE Turn(i, g[i - 1])
    BY <1>10
  <2>2. 0 \in 0 .. n /\ \A i \in 1 .. n : i \in 0 .. n /\ i # 0
    BY <1>2
  <2> QED
    BY <2>1, <2>2
<1>12. /\ g[0] = FirstState(in, to)
       /\ \A i \in 1 .. n : g[i] = Turn(i, g[i - 1])
       /\ Reassigned(in, to) = g[n].to
  BY <1>5, <1>10, <1>11
<1> QED
  BY <1>12 DEF donors, order, n, Turn

\* All moves of a decision are from overloaded donors to receivers with room.
LEMMA DecisionIsFair ==
  ASSUME NEW in, IsInput(in), NEW to \in [Accounts -> Authorities]
  PROVE  \E st : Fair(in, to, Donors(in.window), st) /\ Reassigned(in, to) = st.to
<1>1. CASE Cardinality(Present(in.window)) < 2 * Faults
  <2>1. Fair(in, to, {}, FirstState(in, to)) /\ Reassigned(in, to) = to
    BY <1>1, FirstIsFair DEF Reassigned
  <2>2. Fair(in, to, Donors(in.window), FirstState(in, to))
    BY <2>1 DEF Fair
  <2> QED
    BY <2>1, <2>2 DEF FirstState
<1>2. CASE ~ (Cardinality(Present(in.window)) < 2 * Faults)
  <2>1. PICK donors : donors = Donors(in.window)
    OBVIOUS
  <2>2. PICK order : order = Slower(in, donors)
    OBVIOUS
  <2>3. PICK n : n = Cardinality(donors)
    OBVIOUS
  <2>4. PICK f : /\ f[0] = FirstState(in, to)
                 /\ \A i \in 1 .. n : f[i] = ShedBy(in, Nth(donors, order, i), f[i - 1])
                 /\ Reassigned(in, to) = f[n].to
    BY <1>2, <2>1, <2>2, <2>3, ReassignedSteps
  <2>5. donors \in SUBSET Authorities /\ IsFiniteSet(donors)
    BY <2>1, AuthoritiesFinite, FS_Subset DEF Donors
  <2>6. /\ n \in Nat
        /\ \A i \in 1 .. n : Nth(donors, order, i) \in donors
        /\ \A i, j \in 1 .. n : Nth(donors, order, i) = Nth(donors, order, j) => i = j
    BY <2>2, <2>3, <2>5, SlowerOrders, NthIs
  <2> DEFINE Done(k) == {Nth(donors, order, i) : i \in 1 .. k}
             Good == {k \in Nat : k <= n => Fair(in, to, Done(k), f[k])}
  <2>7. 0 \in Good
    <3>1. Done(0) = {}
      OBVIOUS
    <3>2. Fair(in, to, Done(0), f[0])
      BY <2>4, <3>1, FirstIsFair
    <3> QED
      BY <3>2
  <2>8. ASSUME NEW k \in Nat, k \in Good PROVE k + 1 \in Good
    <3> SUFFICES ASSUME k + 1 <= n PROVE Fair(in, to, Done(k + 1), f[k + 1])
      OBVIOUS
    <3>1. k + 1 \in 1 .. n /\ k + 1 - 1 = k /\ k <= n
      BY <2>6
    <3>2. PICK w \in donors : w = Nth(donors, order, k + 1)
      BY <2>6, <3>1
    <3>3. f[k + 1] = ShedBy(in, w, f[k])
      BY <2>4, <3>1, <3>2
    <3>4. w \notin Done(k) /\ Done(k) \in SUBSET donors
      <4>1. \A i \in 1 .. k : i \in 1 .. n /\ i # k + 1
        BY <2>6, <3>1
      <4> QED
        BY <2>6, <3>1, <3>2, <4>1
    <3>5. Done(k + 1) = Done(k) \cup {w}
      <4>1. 1 .. k + 1 = (1 .. k) \cup {k + 1}
        OBVIOUS
      <4> QED
        BY <3>2, <4>1
    <3>6. Fair(in, to, Done(k), f[k])
      BY <2>8, <3>1
    <3>7. PICK D : D = Done(k)
      OBVIOUS
    <3>8. Fair(in, to, D \cup {w}, f[k + 1])
      <4> HIDE DEF Done, Good
      <4> QED
        BY <2>1, <3>2, <3>3, <3>4, <3>6, <3>7, ShedByFair
    <3> QED
      BY <3>5, <3>7, <3>8
  <2>9. Nat \subseteq Good
    <3> HIDE DEF Good
    <3> QED
      BY <2>7, <2>8, InductionOnNat
  <2>10. Fair(in, to, Done(n), f[n]) /\ Done(n) \subseteq donors
    <3>1. n \in Good
      BY <2>6, <2>9
    <3>2. Done(n) \subseteq donors
      BY <2>6
    <3> QED
      BY <3>1, <3>2
  <2>11. Fair(in, to, donors, f[n])
    BY <2>10 DEF Fair
  <2> QED
    BY <2>1, <2>4, <2>11
<1> QED
  BY <1>1, <1>2

-----------------------------------------------------------------------------
(* What a validator has when it decides *)

Shape ==
  /\ dag \in Dags
  /\ received \in [Validators -> SUBSET DOMAIN dag]
  /\ tracked \in [Validators -> SUBSET DOMAIN dag]
  /\ again \in [Validators -> SUBSET DOMAIN dag]
  /\ \A v \in Validators :
       tracked[v] \subseteq received[v] /\ again[v] \subseteq By(dag, v) \cap received[v]
  /\ assigned \in [Validators -> [Accounts -> Authorities]]
  /\ lastMigrated \in [Validators -> [Accounts -> Nat \cup {None}]]
  /\ baseline \in [Validators -> [Authorities -> Nat \cup {None}]]
  /\ prevTime \in [Validators -> Nat \cup {None}]
  /\ stopped \subseteq Validators

MovedWhenEvaluated ==
  \A v \in Validators : \A a \in Accounts : lastMigrated[v][a] \in {None} \cup Evaluated(v)

ParentsReceived ==
  \A v \in Validators : \A c \in received[v] : dag[c].parents \subseteq received[v]

RoundsReceived ==
  \A v \in Validators : \A c \in received[v] : \A r \in 1 .. c.round :
    \E p \in received[v] : p.round = r

OwnInOrder ==
  \A v \in Validators : \A c \in received[v] : \A d \in DOMAIN dag :
    c.origin = v /\ d.origin = v /\ d.round < c.round => d \in received[v]

\* What was evicted is before the window of an evaluation.
TrackedEnough ==
  \A v \in Validators : \A c \in received[v] :
    \/ c \in tracked[v]
    \/ \E e \in received[v] : Evaluates(v, e) /\ c.round < FirstRound(e.round)

Prepared ==
  /\ Shape /\ MovedWhenEvaluated /\ ParentsReceived /\ RoundsReceived /\ OwnInOrder
  /\ TrackedEnough /\ NeverStops

LEMMA RoundFacts ==
  ASSUME NEW r \in Nat
  PROVE  /\ FirstRound(r) \in Nat /\ StableRound(r) \in Nat /\ FirstRound(r) <= StableRound(r)
         /\ IF r >= 2 THEN StableRound(r) = r - 2 ELSE StableRound(r) = 0
         /\ \A s \in Nat : s <= r => FirstRound(s) <= FirstRound(r)
         /\ r > TrackingWindow + 2 => FirstRound(r) > 0
<1>1. PICK w \in Nat : w = TrackingWindow
  BY ReroutingAssumption
<1>2. \A s \in Nat : StableRound(s) = IF s >= 2 THEN s - 2 ELSE 0
  BY DEF StableRound, Sub
<1>3. \A s \in Nat : FirstRound(s) = IF s >= w + 2 THEN s - 2 - w ELSE 0
  BY <1>1, <1>2 DEF FirstRound, Sub
<1> QED
  BY <1>1, <1>2, <1>3

LEMMA PreparedAtFirst == Init => Prepared
<1> SUFFICES ASSUME Init PROVE Prepared
  OBVIOUS
<1>1. Shape
  BY ReroutingAssumption DEF Init, Shape
<1>2. MovedWhenEvaluated
  BY DEF Init, MovedWhenEvaluated
<1>3. ParentsReceived /\ RoundsReceived /\ OwnInOrder /\ TrackedEnough /\ NeverStops
  BY DEF Init, ParentsReceived, RoundsReceived, OwnInOrder, TrackedEnough, NeverStops
<1> QED
  BY <1>1, <1>2, <1>3 DEF Prepared

\* What is tracked on receiving c.
LEMMA WithIs ==
  ASSUME Prepared, NEW v \in Validators, NEW c \in DOMAIN dag
  PROVE  /\ DOMAIN With(v, c) = tracked[v] \cup {c}
         /\ \A e \in tracked[v] \cup {c} : With(v, c)[e] = dag[e]
         /\ tracked[v] \cup {c} \subseteq DOMAIN dag
         /\ Holds(With(v, c))
<1>1. PICK S : S = tracked[v] \cup {c}
  OBVIOUS
<1>2. S \in SUBSET DOMAIN dag /\ dag \in Dags
  BY <1>1 DEF Prepared, Shape
<1>3. With(v, c) = Restrict(dag, S)
  BY <1>1 DEF With
<1>4. Holds(Restrict(dag, S)) /\ DOMAIN Restrict(dag, S) = S
  BY <1>2, DagHolds, PartHolds
<1>5. \A e \in S : Restrict(dag, S)[e] = dag[e]
  BY DEF Restrict
<1> QED
  BY <1>1, <1>2, <1>3, <1>4, <1>5

\* v has evaluated no later round than that of c.
Latest(v, c) == \A e \in received[v] : Evaluates(v, e) => e.round <= c.round

\* An own certificate is later than all before it when it comes for the first time.
LEMMA FirstIsLatest ==
  ASSUME Prepared, NEW v \in Validators, NEW c \in DOMAIN dag, CanReceive(v, c), c.origin = v,
         c \notin received[v]
  PROVE  Latest(v, c) /\ \A e \in received[v] : e.origin = v => e.round < c.round
<1>1. dag \in Dags /\ received[v] \subseteq DOMAIN dag
  BY DEF Prepared, Shape
<1>2. ASSUME NEW e \in received[v], e.origin = v PROVE e.round < c.round
  <2>1. e \in DOMAIN dag /\ e.round \in Nat /\ c.round \in Nat
    BY <1>1, DagFacts
  <2>2. CASE e.round > c.round
    BY <1>2, <2>1, <2>2 DEF Prepared, OwnInOrder
  <2>3. CASE e.round = c.round
    <3>1. e = [origin |-> e.origin, round |-> e.round] /\ c = [origin |-> c.origin, round |-> c.round]
      BY <1>1, <2>1, DagFacts
    <3> QED
      BY <1>2, <2>3, <3>1
  <2> QED
    BY <2>1, <2>2, <2>3
<1>3. ASSUME NEW e \in received[v], Evaluates(v, e) PROVE e.round <= c.round
  <2>1. e.round < c.round /\ e.round \in Nat /\ c.round \in Nat
    BY <1>1, <1>2, <1>3, DagFacts DEF Evaluates
  <2> QED
    BY <2>1
<1> QED
  BY <1>2, <1>3 DEF Latest

\* Otherwise it comes again.
LEMMA LateIsAgain ==
  ASSUME Prepared, NEW v \in Validators, NEW c \in DOMAIN dag, c.origin = v, ~ Latest(v, c)
  PROVE  c \in received[v] \cap By(dag, v) /\ \E r \in Evaluated(v) : c.round < r
<1>1. PICK e \in received[v] : Evaluates(v, e) /\ ~ (e.round <= c.round)
  BY DEF Latest
<1>2. e \in DOMAIN dag /\ e.round \in Nat /\ c.round \in Nat /\ dag \in Dags
  <2>1. e \in DOMAIN dag /\ dag \in Dags
    BY DEF Prepared, Shape
  <2> QED
    BY <2>1, DagFacts
<1>3. c.round < e.round
  BY <1>1, <1>2
<1>4. c \in received[v]
  BY <1>1, <1>3 DEF Prepared, OwnInOrder, Evaluates
<1>5. e.round \in Evaluated(v)
  BY <1>1 DEF Evaluated
<1> QED
  BY <1>3, <1>4, <1>5 DEF By

\* On receiving its own certificate c a validator that evaluated no later round
\* tracks all it has received from the window of c's round on, and a certificate
\* of each of those rounds.
LEMMA OwnReceives ==
  ASSUME Prepared, NEW v \in Validators, NEW c \in DOMAIN dag, CanReceive(v, c), c.origin = v,
         Latest(v, c)
  PROVE  /\ \A e \in received[v] : e.round >= FirstRound(c.round) => e \in tracked[v]
         /\ \A q \in 1 .. c.round - 1 : q >= FirstRound(c.round) => OfRound(With(v, c), q) # {}
<1>1. dag \in Dags /\ received[v] \subseteq DOMAIN dag
  BY DEF Prepared, Shape
<1>2. ASSUME NEW e \in received[v], e.round >= FirstRound(c.round) PROVE e \in tracked[v]
  <2> SUFFICES ASSUME e \notin tracked[v] PROVE FALSE
    OBVIOUS
  <2>1. PICK x \in received[v] : Evaluates(v, x) /\ e.round < FirstRound(x.round)
    BY DEF Prepared, TrackedEnough
  <2>2. x.round <= c.round
    BY <2>1 DEF Latest
  <2>3. x.round \in Nat /\ c.round \in Nat /\ e.round \in Nat
    BY <1>1, DagFacts
  <2>4. /\ FirstRound(x.round) <= FirstRound(c.round)
        /\ FirstRound(x.round) \in Nat /\ FirstRound(c.round) \in Nat
    BY <2>2, <2>3, RoundFacts
  <2> QED
    BY <1>2, <2>1, <2>3, <2>4
<1>3. ASSUME NEW q \in 1 .. c.round - 1, q >= FirstRound(c.round)
      PROVE  OfRound(With(v, c), q) # {}
  <2>1. c.round \in Nat /\ c.round > 1
    BY <1>1, DagFacts
  <2>2. PICK p \in dag[c].parents : TRUE
    BY <1>1, <2>1, DagFacts
  <2>3. p \in received[v] /\ p.round = c.round - 1
    BY <1>1, <2>2, DagFacts DEF CanReceive
  <2>4. PICK e \in received[v] : e.round = q
    BY <2>3 DEF Prepared, RoundsReceived
  <2>5. e \in tracked[v]
    BY <1>2, <1>3, <2>4
  <2>6. e \in DOMAIN With(v, c)
    BY <2>5, WithIs
  <2> QED
    BY <2>4, <2>6 DEF OfRound
<1> QED
  BY <1>2, <1>3

\* The certificates of the last round of a window that has any are tracked, and of
\* the first round when it is an evaluation's.
LEMMA WindowIsReceived ==
  ASSUME Prepared, NEW v \in Validators, NEW c \in DOMAIN dag, CanReceive(v, c), c.origin = v,
         Latest(v, c), DOMAIN Within(With(v, c), c.round) # {}
  PROVE  /\ OfRound(With(v, c), StableRound(c.round)) # {}
         /\ c.round % RerouteInterval = 0 => OfRound(With(v, c), FirstRound(c.round)) # {}
<1>1. c.round \in Nat
  BY DagFacts DEF Prepared, Shape
<1>2. PICK e \in DOMAIN With(v, c) : e.round \in InWindow(c.round)
  BY DEF Within, Restrict
<1>3. e.round \in Nat /\ e.round > 0
  <2>1. e \in DOMAIN dag /\ dag \in Dags
    <3>1. dag \in Dags
      BY DEF Prepared, Shape
    <3> QED
      <4>1. DOMAIN With(v, c) = tracked[v] \cup {c}
        BY WithIs
      <4>2. tracked[v] \cup {c} \subseteq DOMAIN dag
        BY WithIs
      <4> QED
        BY <1>2, <3>1, <4>1, <4>2
  <2> QED
    BY <2>1, DagFacts
<1>4. StableRound(c.round) >= 1
  BY <1>1, <1>2, <1>3, RoundFacts DEF InWindow
<1>5. StableRound(c.round) = c.round - 2 /\ c.round >= 3
  BY <1>1, <1>4, RoundFacts
<1>6. FirstRound(c.round) \in Nat /\ FirstRound(c.round) <= c.round - 2
  BY <1>1, <1>5, RoundFacts
<1>7. OfRound(With(v, c), StableRound(c.round)) # {}
  <2>1. StableRound(c.round) \in 1 .. c.round - 1 /\ StableRound(c.round) >= FirstRound(c.round)
    BY <1>1, <1>5, <1>6
  <2> QED
    BY <2>1, OwnReceives
<1>8. ASSUME c.round % RerouteInterval = 0 PROVE OfRound(With(v, c), FirstRound(c.round)) # {}
  <2>1. TrackingWindow \in Nat
    BY ReroutingAssumption
  <2>2. ~ (c.round \in 3 .. TrackingWindow + 2)
    BY <1>8, WindowAssumption
  <2>3. c.round > TrackingWindow + 2
    BY <1>1, <1>5, <2>1, <2>2
  <2>4. FirstRound(c.round) \in 1 .. c.round - 1 /\ FirstRound(c.round) >= FirstRound(c.round)
    BY <1>1, <1>6, <2>3, RoundFacts
  <2> QED
    BY <2>4, OwnReceives
<1> QED
  BY <1>7, <1>8

LEMMA NothingFails ==
  ASSUME Prepared, NEW v \in Validators, NEW c \in DOMAIN dag, CanReceive(v, c),
         c.origin = v => Latest(v, c)
  PROVE  /\ ~ LogFails(v, c, With(v, c))
         /\ Evaluates(v, c) /\ DOMAIN Within(With(v, c), c.round) # {} =>
              Expected(v, With(v, c), c.round)
  BY WindowIsReceived DEF LogFails, Evaluates, Expected

\* What every reception does.
LEMMA BalanceReceives ==
  ASSUME Prepared, NEW v \in Validators, NEW c \in DOMAIN dag, Balance(v, c)
  PROVE  /\ CanReceive(v, c) /\ dag' = dag
         /\ received' = [received EXCEPT ![v] = @ \cup {c}]
         /\ again' = [again EXCEPT ![v] = @ \cup (received[v] \cap {c} \cap By(dag, v))]
         /\ \/ stopped' = stopped
            \/ stopped' = stopped \cup {v} /\ c.origin = v /\ ~ Latest(v, c)
         /\ \/ tracked' = [tracked EXCEPT ![v] = @ \cup {c}]
            \/ Evaluates(v, c) /\ tracked' = [tracked EXCEPT ![v] = Kept(With(v, c), c.round)]
         /\ \/ UNCHANGED decisions
            \/ /\ Evaluate(v, c) /\ Expected(v, With(v, c), c.round)
               /\ HasRates(With(v, c), c.round) /\ Evaluates(v, c)
<1>1. Receive(v, c) /\ dag' = dag
  BY DEF Balance, Record, Skip, Evaluate
<1>2. CASE Record(v, c)
  <2>1. LogFails(v, c, With(v, c)) => c.origin = v /\ ~ Latest(v, c)
    BY <1>1, NothingFails DEF Receive, LogFails
  <2>2. \/ stopped' = stopped
        \/ stopped' = stopped \cup {v} /\ c.origin = v /\ ~ Latest(v, c)
    BY <1>2, <2>1 DEF Record
  <2> QED
    BY <1>1, <1>2, <2>2 DEF Record, Receive
<1>3. CASE Skip(v, c)
  <2>1. Evaluates(v, c)
    BY <1>3 DEF Skip
  <2>2. Latest(v, c) => DOMAIN Within(With(v, c), c.round) = {} \/ Expected(v, With(v, c), c.round)
    BY <1>1, <2>1, NothingFails DEF Receive
  <2>3. \/ stopped' = stopped
        \/ stopped' = stopped \cup {v} /\ c.origin = v /\ ~ Latest(v, c)
    BY <1>3, <2>1, <2>2 DEF Skip, Evaluates
  <2> QED
    BY <1>1, <1>3, <2>1, <2>3 DEF Skip, Receive
<1>4. CASE Evaluate(v, c)
  BY <1>1, <1>4 DEF Evaluate, Receive
<1> QED
  BY <1>2, <1>3, <1>4 DEF Balance

\* What is tracked afterwards.
LEMMA TrackedThen ==
  ASSUME Prepared, NEW v \in Validators, NEW c \in DOMAIN dag, Balance(v, c)
  PROVE  /\ tracked' \in [Validators -> SUBSET DOMAIN dag]
         /\ received' \in [Validators -> SUBSET DOMAIN dag]
         /\ again' \in [Validators -> SUBSET DOMAIN dag]
         /\ received'[v] = received[v] \cup {c}
         /\ tracked'[v] \subseteq tracked[v] \cup {c}
         /\ \A e \in tracked[v] \cup {c} :
              e \in tracked'[v] \/ (Evaluates(v, c) /\ e.round < FirstRound(c.round))
         /\ again'[v] = again[v] \cup (received[v] \cap {c} \cap By(dag, v))
         /\ \A u \in Validators : u # v =>
              received'[u] = received[u] /\ again'[u] = again[u] /\ tracked'[u] = tracked[u]
<1>1. /\ dag \in Dags
      /\ received \in [Validators -> SUBSET DOMAIN dag]
      /\ again \in [Validators -> SUBSET DOMAIN dag]
      /\ tracked \in [Validators -> SUBSET DOMAIN dag]
  BY DEF Prepared, Shape
<1>2. /\ received' = [received EXCEPT ![v] = @ \cup {c}]
      /\ again' = [again EXCEPT ![v] = @ \cup (received[v] \cap {c} \cap By(dag, v))]
  BY BalanceReceives
<1>3. PICK kept : kept = Kept(With(v, c), c.round)
  OBVIOUS
<1>4. kept \subseteq tracked[v] \cup {c}
  BY <1>3, WithIs DEF Kept
<1>5. \A e \in tracked[v] \cup {c} : e \in kept \/ e.round < FirstRound(c.round)
  <2> SUFFICES ASSUME NEW e \in tracked[v] \cup {c}, e \notin kept PROVE e.round < FirstRound(c.round)
    OBVIOUS
  <2>1. e \in DOMAIN With(v, c) /\ e \in DOMAIN dag
    BY WithIs
  <2>2. ~ (e.round >= FirstRound(c.round))
    BY <1>3, <2>1 DEF Kept
  <2>3. e.round \in Nat /\ c.round \in Nat
    BY <1>1, <2>1, DagFacts
  <2>4. FirstRound(c.round) \in Nat
    BY <2>3, RoundFacts
  <2> QED
    BY <2>2, <2>3, <2>4
<1>6. \/ tracked' = [tracked EXCEPT ![v] = @ \cup {c}]
      \/ Evaluates(v, c) /\ tracked' = [tracked EXCEPT ![v] = kept]
  BY <1>3, BalanceReceives
<1> QED
  BY <1>1, <1>2, <1>4, <1>5, <1>6

LEMMA PastKept ==
  ASSUME Prepared, NEW v \in Validators, NEW c \in DOMAIN dag, Balance(v, c)
  PROVE  (ParentsReceived /\ RoundsReceived /\ OwnInOrder /\ TrackedEnough)'
<1>1. CanReceive(v, c) /\ dag' = dag /\ dag \in Dags
  BY BalanceReceives DEF Prepared, Shape
<1>2. PICK R : R = received'
  OBVIOUS
<1>3. /\ R[v] = received[v] \cup {c}
      /\ \A u \in Validators : u # v => R[u] = received[u]
      /\ \A u \in Validators : received[u] \subseteq R[u]
  BY <1>2, TrackedThen
<1>4. \A u \in Validators : \A d \in R[u] : d \in received[u] \/ (u = v /\ d = c)
  BY <1>3
<1>5. ParentsReceived'
  <2>1. \A u \in Validators : \A d \in R[u] : dag[d].parents \subseteq R[u]
    <3> SUFFICES ASSUME NEW u \in Validators, NEW d \in R[u] PROVE dag[d].parents \subseteq R[u]
      OBVIOUS
    <3>1. CASE d \in received[u]
      BY <1>3, <3>1 DEF Prepared, ParentsReceived
    <3>2. CASE u = v /\ d = c
      BY <1>1, <1>3, <3>2 DEF CanReceive
    <3> QED
      BY <1>4, <3>1, <3>2
  <2> QED
    BY <1>1, <1>2, <2>1 DEF ParentsReceived
<1>6. RoundsReceived'
  <2>1. \A u \in Validators : \A d \in R[u] : \A r \in 1 .. d.round : \E p \in R[u] : p.round = r
    <3> SUFFICES ASSUME NEW u \in Validators, NEW d \in R[u], NEW r \in 1 .. d.round
                 PROVE  \E p \in R[u] : p.round = r
      OBVIOUS
    <3>1. CASE d \in received[u]
      BY <1>3, <3>1 DEF Prepared, RoundsReceived
    <3>2. CASE u = v /\ d = c /\ r = c.round
      BY <3>2
    <3>3. CASE u = v /\ d = c /\ r # c.round
      <4>1. c.round \in Nat /\ c.round > 1
        BY <1>1, <3>3, DagFacts
      <4>2. PICK p \in dag[c].parents : TRUE
        BY <1>1, <4>1, DagFacts
      <4>3. p \in received[v] /\ p.round = c.round - 1
        BY <1>1, <4>2, DagFacts DEF CanReceive
      <4>4. r \in 1 .. p.round
        BY <3>3, <4>1, <4>3
      <4> QED
        BY <1>3, <3>3, <4>3, <4>4 DEF Prepared, RoundsReceived
    <3> QED
      BY <1>4, <3>1, <3>2, <3>3
  <2> QED
    BY <1>2, <2>1 DEF RoundsReceived
<1>7. OwnInOrder'
  <2>1. \A u \in Validators : \A d \in R[u] : \A e \in DOMAIN dag :
          d.origin = u /\ e.origin = u /\ e.round < d.round => e \in R[u]
    <3> SUFFICES ASSUME NEW u \in Validators, NEW d \in R[u], NEW e \in DOMAIN dag,
                        d.origin = u, e.origin = u, e.round < d.round
                 PROVE  e \in R[u]
      OBVIOUS
    <3>1. CASE d \in received[u]
      BY <1>3, <3>1 DEF Prepared, OwnInOrder
    <3>2. CASE u = v /\ d = c
      BY <1>1, <1>3, <3>2 DEF CanReceive
    <3> QED
      BY <1>4, <3>1, <3>2
  <2> QED
    BY <1>1, <1>2, <2>1 DEF OwnInOrder
<1>8. TrackedEnough'
  <2>1. PICK T : T = tracked'
    OBVIOUS
  <2>2. /\ \A e \in tracked[v] \cup {c} :
             e \in T[v] \/ (Evaluates(v, c) /\ e.round < FirstRound(c.round))
        /\ \A u \in Validators : u # v => T[u] = tracked[u]
    BY <2>1, TrackedThen
  <2>3. \A u \in Validators : \A d \in R[u] :
          d \in T[u] \/ \E e \in R[u] : Evaluates(u, e) /\ d.round < FirstRound(e.round)
    <3> SUFFICES ASSUME NEW u \in Validators, NEW d \in R[u], d \notin T[u]
                 PROVE  \E e \in R[u] : Evaluates(u, e) /\ d.round < FirstRound(e.round)
      OBVIOUS
    <3>1. CASE d \in received[u] /\ d \notin tracked[u]
      BY <1>3, <3>1 DEF Prepared, TrackedEnough
    <3>2. CASE d \in tracked[u] \/ (u = v /\ d = c)
      <4>1. u = v /\ d \in tracked[v] \cup {c}
        BY <2>2, <3>2
      <4> QED
        BY <1>3, <2>2, <4>1
    <3> QED
      BY <1>4, <3>1, <3>2
  <2> QED
    BY <1>2, <2>1, <2>3 DEF TrackedEnough, Evaluates
<1> QED
  BY <1>5, <1>6, <1>7, <1>8

\* What is evaluated and what came again stays so.
LEMMA PastStays ==
  ASSUME Prepared, NEW v \in Validators, NEW c \in DOMAIN dag, Balance(v, c)
  PROVE  \A u \in Validators : Evaluated(u) \subseteq Evaluated(u)' /\ again[u] \subseteq again'[u]
<1>1. \A u \in Validators : received[u] \subseteq received'[u] /\ again[u] \subseteq again'[u]
  BY TrackedThen
<1> QED
  BY <1>1 DEF Evaluated, Evaluates

\* Only a certificate that comes again, after a later round was evaluated, stops
\* the task.
LEMMA StopsKept ==
  ASSUME Prepared, NEW v \in Validators, NEW c \in DOMAIN dag, Balance(v, c)
  PROVE  NeverStops' /\ stopped' \subseteq Validators
<1>1. stopped \subseteq Validators /\ NeverStops
  BY DEF Prepared, Shape
<1>2. \/ stopped' = stopped
      \/ stopped' = stopped \cup {v} /\ c.origin = v /\ ~ Latest(v, c)
  BY BalanceReceives
<1>3. ASSUME NEW u \in stopped PROVE \E d \in again'[u], r \in Evaluated(u)' : d.round < r
  <2>1. PICK d \in again[u], r \in Evaluated(u) : d.round < r
    BY <1>1 DEF NeverStops
  <2> QED
    BY <1>1, <2>1, PastStays
<1>4. ASSUME c.origin = v, ~ Latest(v, c)
      PROVE  \E d \in again'[v], r \in Evaluated(v)' : d.round < r
  <2>1. c \in received[v] \cap By(dag, v) /\ \E r \in Evaluated(v) : c.round < r
    BY <1>4, LateIsAgain
  <2>2. c \in again'[v]
    BY <2>1, TrackedThen
  <2> QED
    BY <2>1, <2>2, PastStays
<1>5. \A u \in stopped' : \E d \in again'[u], r \in Evaluated(u)' : d.round < r
  BY <1>2, <1>3, <1>4
<1> QED
  BY <1>1, <1>2, <1>5 DEF NeverStops

LEMMA SubTyped ==
  ASSUME NEW a \in Nat, NEW b \in Nat
  PROVE  Sub(a, b) \in Nat
  BY DEF Sub

\* What compute_rerouting is given is what it takes.
LEMMA InputsTyped ==
  ASSUME Prepared, NEW v \in Validators, NEW c \in DOMAIN dag,
         Expected(v, With(v, c), c.round), HasRates(With(v, c), c.round)
  PROVE  IsInput(Inputs(v, c)) /\ Now(With(v, c), c.round) \in Nat
<1>1. PICK T : T = With(v, c)
  OBVIOUS
<1>2. PICK r \in Nat : r = c.round
  BY DagFacts DEF Prepared, Shape
<1>3. Holds(T)
  BY <1>1, WithIs
<1>4. PICK now \in Nat : now = Median(T, StableRound(r))
  BY <1>1, <1>2, <1>3, MedianTyped DEF Expected
<1>5. Duration(T, r) \in Nat
  <2>1. PICK S : S = {e.round : e \in DOMAIN Within(T, r)}
    OBVIOUS
  <2>2. DOMAIN Within(T, r) \subseteq DOMAIN T /\ DOMAIN Within(T, r) # {}
    BY <1>1, <1>2 DEF Within, Restrict, HasRates
  <2>3. S \in SUBSET Nat /\ S # {}
    BY <1>3, <2>1, <2>2 DEF Holds
  <2>4. Min(S) \in S
    BY <2>3, MinOfNumbers
  <2>5. OfRound(T, Min(S)) # {}
    BY <2>1, <2>2, <2>4 DEF OfRound
  <2>6. PICK first \in Nat : first = Median(T, Min(S))
    BY <1>3, <2>5, MedianTyped
  <2>7. Duration(T, r) = Sub(now, first)
    BY <1>4, <2>1, <2>6 DEF Duration
  <2> QED
    BY <2>7, SubTyped
<1>6. PICK since : since = IF prevTime[v] # None THEN prevTime[v] ELSE Median(T, FirstRound(r))
  OBVIOUS
<1>7. since \in Nat
  <2>1. CASE prevTime[v] # None
    BY <1>6, <2>1 DEF Prepared, Shape
  <2>2. CASE prevTime[v] = None
    <3>1. OfRound(T, FirstRound(r)) # {}
      BY <1>1, <1>2, <2>2 DEF Expected, HasRates
    <3> QED
      BY <1>3, <1>6, <2>2, <3>1, MedianTyped
  <2> QED
    BY <2>1, <2>2
<1>8. Sub(now, since) \in Nat
  BY <1>7, SubTyped
<1>9. Holds(Within(T, r))
  <2>1. {e \in DOMAIN T : e.round \in InWindow(r)} \in SUBSET DOMAIN T
    OBVIOUS
  <2> QED
    BY <1>3, <2>1, PartHolds DEF Within
<1>10. Inputs(v, c) = [window |-> Within(T, r), duration |-> Duration(T, r), round |-> r,
                       last |-> lastMigrated[v], baseline |-> baseline[v], elapsed |-> Sub(now, since)]
  BY <1>1, <1>2, <1>4, <1>6 DEF Inputs, Now
<1>11. lastMigrated[v] \in [Accounts -> Nat \cup {None}] /\ baseline[v] \in [Authorities -> Nat \cup {None}]
  BY DEF Prepared, Shape
<1>12. IsInput(Inputs(v, c))
  BY <1>5, <1>8, <1>9, <1>10, <1>11 DEF IsInput
<1> QED
  BY <1>1, <1>2, <1>4, <1>12 DEF Now

\* What a decision changes.
LEMMA EvaluateIs ==
  ASSUME Prepared, NEW v \in Validators, NEW c \in DOMAIN dag, Evaluate(v, c)
  PROVE  /\ assigned'[v] = Reassigned(Inputs(v, c), assigned[v])
         /\ lastMigrated'[v] = [a \in Accounts |-> IF assigned'[v][a] # assigned[v][a]
                                                   THEN c.round ELSE lastMigrated[v][a]]
         /\ baseline'[v] =
              [w \in Authorities |-> IF w \in Present(Inputs(v, c).window)
                                     THEN Smoothed(baseline[v][w], Delay(Inputs(v, c).window, w))
                                     ELSE baseline[v][w]]
         /\ prevTime'[v] = Now(With(v, c), c.round)
         /\ \A u \in Validators : u # v =>
              /\ assigned'[u] = assigned[u] /\ lastMigrated'[u] = lastMigrated[u]
              /\ baseline'[u] = baseline[u] /\ prevTime'[u] = prevTime[u]
         /\ DOMAIN assigned' = Validators /\ DOMAIN lastMigrated' = Validators
         /\ DOMAIN baseline' = Validators /\ DOMAIN prevTime' = Validators
<1>1. PICK in, to : in = Inputs(v, c) /\ to = Reassigned(in, assigned[v])
  OBVIOUS
<1>2. /\ DOMAIN assigned = Validators /\ DOMAIN lastMigrated = Validators
      /\ DOMAIN baseline = Validators /\ DOMAIN prevTime = Validators
  BY DEF Prepared, Shape
<1>3. /\ assigned' = [assigned EXCEPT ![v] = to]
      /\ lastMigrated' = [lastMigrated EXCEPT ![v] =
           [a \in Accounts |-> IF to[a] # assigned[v][a] THEN c.round ELSE lastMigrated[v][a]]]
      /\ baseline' = [baseline EXCEPT ![v] =
           [w \in Authorities |-> IF w \in Present(in.window)
                                  THEN Smoothed(baseline[v][w], Delay(in.window, w))
                                  ELSE baseline[v][w]]]
      /\ prevTime' = [prevTime EXCEPT ![v] = Now(With(v, c), c.round)]
  BY <1>1 DEF Evaluate
<1> QED
  BY <1>1, <1>2, <1>3

LEMMA ShapeKept ==
  ASSUME Prepared, NEW v \in Validators, NEW c \in DOMAIN dag, Balance(v, c)
  PROVE  Shape' /\ MovedWhenEvaluated'
<1>1. /\ dag \in Dags /\ dag' = dag
      /\ \A u \in Validators :
           tracked[u] \subseteq received[u] /\ again[u] \subseteq By(dag, u) \cap received[u]
      /\ assigned \in [Validators -> [Accounts -> Authorities]]
      /\ lastMigrated \in [Validators -> [Accounts -> Nat \cup {None}]]
      /\ baseline \in [Validators -> [Authorities -> Nat \cup {None}]]
      /\ prevTime \in [Validators -> Nat \cup {None}]
  BY BalanceReceives DEF Prepared, Shape
<1>2. /\ \A u \in Validators :
           tracked'[u] \subseteq received'[u] /\ again'[u] \subseteq By(dag', u) \cap received'[u]
      /\ stopped' \subseteq Validators
  <2>1. \A u \in Validators : tracked'[u] \subseteq received'[u]
    BY <1>1, TrackedThen
  <2>2. ASSUME NEW u \in Validators PROVE again'[u] \subseteq By(dag', u) \cap received'[u]
    <3>1. By(dag', u) = By(dag, u)
      BY <1>1
    <3>2. CASE u # v
      BY <1>1, <3>1, <3>2, TrackedThen
    <3>3. CASE u = v
      <4>1. /\ again'[v] = again[v] \cup (received[v] \cap {c} \cap By(dag, v))
            /\ received'[v] = received[v] \cup {c}
        BY TrackedThen
      <4> QED
        BY <1>1, <3>1, <3>3, <4>1
    <3> QED
      BY <3>2, <3>3
  <2> QED
    BY <2>1, <2>2, StopsKept
<1>3. \A u \in Validators : Evaluated(u) \subseteq Evaluated(u)'
  BY PastStays
<1>4. CASE UNCHANGED decisions
  <2>1. assigned' = assigned /\ lastMigrated' = lastMigrated /\ baseline' = baseline
        /\ prevTime' = prevTime
    BY <1>4 DEF decisions
  <2>2. Shape'
    BY <1>1, <1>2, <2>1, TrackedThen DEF Shape
  <2>3. MovedWhenEvaluated'
    BY <1>3, <2>1 DEF Prepared, MovedWhenEvaluated
  <2> QED
    BY <2>2, <2>3
<1>5. CASE /\ Evaluate(v, c) /\ Expected(v, With(v, c), c.round)
           /\ HasRates(With(v, c), c.round) /\ Evaluates(v, c)
  <2>1. IsInput(Inputs(v, c)) /\ Now(With(v, c), c.round) \in Nat
    BY <1>5, InputsTyped
  <2>2. assigned'[v] \in [Accounts -> Authorities]
    <3>1. assigned[v] \in [Accounts -> Authorities]
      BY <1>1
    <3>2. PICK st : Fair(Inputs(v, c), assigned[v], Donors(Inputs(v, c).window), st)
                    /\ Reassigned(Inputs(v, c), assigned[v]) = st.to
      BY <2>1, <3>1, DecisionIsFair
    <3>3. assigned'[v] = st.to
      BY <1>5, <3>2, EvaluateIs
    <3> QED
      BY <3>2, <3>3 DEF Fair, States
  <2>3. c.round \in Nat
    BY <1>1, DagFacts
  <2>4. lastMigrated'[v] \in [Accounts -> Nat \cup {None}]
    <3>1. lastMigrated[v] \in [Accounts -> Nat \cup {None}]
      BY <1>1
    <3>2. lastMigrated'[v] = [a \in Accounts |-> IF assigned'[v][a] # assigned[v][a]
                                                 THEN c.round ELSE lastMigrated[v][a]]
      BY <1>5, EvaluateIs
    <3> QED
      BY <2>3, <3>1, <3>2
  <2>5. baseline'[v] \in [Authorities -> Nat \cup {None}]
    <3>1. baseline[v] \in [Authorities -> Nat \cup {None}]
      BY <1>1
    <3>2. PICK f : f = baseline'[v]
      OBVIOUS
    <3>3. f = [w \in Authorities |-> IF w \in Present(Inputs(v, c).window)
                                     THEN Smoothed(baseline[v][w], Delay(Inputs(v, c).window, w))
                                     ELSE baseline[v][w]]
      BY <1>5, <3>2, EvaluateIs
    <3>4. \A w \in Authorities : Delay(Inputs(v, c).window, w) \in Nat
      BY <2>1, LoadsTyped DEF IsInput
    <3>5. \A old \in Nat \cup {None}, new \in Nat : Smoothed(old, new) \in Nat
      BY DEF Smoothed
    <3>6. ASSUME NEW w \in Authorities PROVE f[w] \in Nat \cup {None}
      <4>1. f[w] = IF w \in Present(Inputs(v, c).window)
                   THEN Smoothed(baseline[v][w], Delay(Inputs(v, c).window, w))
                   ELSE baseline[v][w]
        BY <3>3
      <4>2. baseline[v][w] \in Nat \cup {None}
        BY <3>1
      <4> QED
        BY <3>4, <3>5, <4>1, <4>2
    <3> QED
      BY <3>2, <3>3, <3>6
  <2>6. prevTime'[v] \in Nat
    BY <1>5, <2>1, EvaluateIs
  <2>7. Shape'
    <3>1. \A u \in Validators : /\ assigned'[u] \in [Accounts -> Authorities]
                                /\ lastMigrated'[u] \in [Accounts -> Nat \cup {None}]
                                /\ baseline'[u] \in [Authorities -> Nat \cup {None}]
                                /\ prevTime'[u] \in Nat \cup {None}
      <4> SUFFICES ASSUME NEW u \in Validators
                   PROVE  /\ assigned'[u] \in [Accounts -> Authorities]
                          /\ lastMigrated'[u] \in [Accounts -> Nat \cup {None}]
                          /\ baseline'[u] \in [Authorities -> Nat \cup {None}]
                          /\ prevTime'[u] \in Nat \cup {None}
        OBVIOUS
      <4>1. CASE u = v
        BY <2>2, <2>4, <2>5, <2>6, <4>1
      <4>2. CASE u # v
        BY <1>1, <1>5, <4>2, EvaluateIs
      <4> QED
        BY <4>1, <4>2
    <3>2. /\ assigned' = [u \in Validators |-> assigned'[u]]
          /\ lastMigrated' = [u \in Validators |-> lastMigrated'[u]]
          /\ baseline' = [u \in Validators |-> baseline'[u]]
          /\ prevTime' = [u \in Validators |-> prevTime'[u]]
      <4>1. assigned' = [assigned EXCEPT ![v] = assigned'[v]]
        BY <1>1, <1>5 DEF Evaluate
      <4>2. lastMigrated' = [lastMigrated EXCEPT ![v] = lastMigrated'[v]]
        BY <1>1, <1>5 DEF Evaluate
      <4>3. baseline' = [baseline EXCEPT ![v] = baseline'[v]]
        BY <1>1, <1>5 DEF Evaluate
      <4>4. prevTime' = [prevTime EXCEPT ![v] = prevTime'[v]]
        BY <1>1, <1>5 DEF Evaluate
      <4> QED
        BY <1>1, <4>1, <4>2, <4>3, <4>4
    <3>3. /\ assigned' \in [Validators -> [Accounts -> Authorities]]
          /\ lastMigrated' \in [Validators -> [Accounts -> Nat \cup {None}]]
          /\ baseline' \in [Validators -> [Authorities -> Nat \cup {None}]]
          /\ prevTime' \in [Validators -> Nat \cup {None}]
      BY <3>1, <3>2
    <3> QED
      BY <1>1, <1>2, <3>3, TrackedThen DEF Shape
  <2>8. \A u \in Validators : \A a \in Accounts : lastMigrated'[u][a] \in {None} \cup Evaluated(u)'
    <3> SUFFICES ASSUME NEW u \in Validators, NEW a \in Accounts
                 PROVE  lastMigrated'[u][a] \in {None} \cup Evaluated(u)'
      OBVIOUS
    <3>1. lastMigrated[u][a] \in {None} \cup Evaluated(u)'
      BY <1>3 DEF Prepared, MovedWhenEvaluated
    <3>2. CASE u # v
      BY <1>5, <3>1, <3>2, EvaluateIs
    <3>3. CASE u = v
      <4>1. c \in received'[v]
        BY TrackedThen
      <4>2. c.round \in Evaluated(v)'
        BY <1>5, <4>1 DEF Evaluated, Evaluates
      <4>3. lastMigrated'[v][a] = IF assigned'[v][a] # assigned[v][a]
                                  THEN c.round ELSE lastMigrated[v][a]
        <5>1. PICK f : f = lastMigrated'[v]
          OBVIOUS
        <5>2. f = [b \in Accounts |-> IF assigned'[v][b] # assigned[v][b]
                                      THEN c.round ELSE lastMigrated[v][b]]
          BY <1>5, <5>1, EvaluateIs
        <5> QED
          BY <5>1, <5>2
      <4> QED
        BY <3>1, <3>3, <4>2, <4>3
    <3> QED
      BY <3>2, <3>3
  <2> QED
    BY <2>7, <2>8 DEF MovedWhenEvaluated
<1> QED
  BY <1>4, <1>5, BalanceReceives

LEMMA PreparedKept == Prepared /\ [Next]_vars => Prepared'
<1> SUFFICES ASSUME Prepared, [Next]_vars PROVE Prepared'
  OBVIOUS
<1>1. ASSUME NEW v \in Validators, NEW c \in DOMAIN dag, Balance(v, c) PROVE Prepared'
  BY <1>1, ShapeKept, PastKept, StopsKept DEF Prepared
<1>2. CASE UNCHANGED vars
  <2>1. UNCHANGED <<dag, received, again, tracked, assigned, lastMigrated, baseline, prevTime, stopped>>
    BY <1>2 DEF vars, decisions
  <2>2. Shape'
    BY <2>1 DEF Prepared, Shape, By
  <2>3. MovedWhenEvaluated'
    BY <2>1 DEF Prepared, MovedWhenEvaluated, Evaluated, Evaluates
  <2>4. (ParentsReceived /\ RoundsReceived /\ OwnInOrder)'
    BY <2>1 DEF Prepared, ParentsReceived, RoundsReceived, OwnInOrder
  <2>5. TrackedEnough' /\ NeverStops'
    BY <2>1 DEF Prepared, TrackedEnough, NeverStops, Evaluated, Evaluates
  <2> QED
    BY <2>2, <2>3, <2>4, <2>5 DEF Prepared
<1> QED
  BY <1>1, <1>2 DEF Next

\* Accounts move in the round that last_migrated notes for them, and their moves
\* fit.
LEMMA StepMovesFit ==
  ASSUME Prepared, Next, NEW v \in Validators, NEW a \in MovedBy(v)
  PROVE  MovesOf(v, [origin |-> v, round |-> lastMigrated'[v][a]])
<1>1. PICK u \in Validators : \E d \in DOMAIN dag : Balance(u, d)
  BY DEF Next
<1>2. PICK c \in DOMAIN dag : Balance(u, c)
  BY <1>1
<1>3. a \in Accounts /\ assigned'[v][a] # assigned[v][a]
  BY DEF MovedBy
<1>4. /\ u = v /\ Evaluate(v, c) /\ Expected(v, With(v, c), c.round)
      /\ HasRates(With(v, c), c.round) /\ Evaluates(v, c)
  <2>1. ~ UNCHANGED decisions
    BY <1>3 DEF decisions
  <2>2. /\ Evaluate(u, c) /\ Expected(u, With(u, c), c.round)
        /\ HasRates(With(u, c), c.round) /\ Evaluates(u, c)
    BY <1>2, <2>1, BalanceReceives
  <2>3. u = v
    BY <1>2, <1>3, <2>2, EvaluateIs
  <2> QED
    BY <2>2, <2>3
<1>5. c = [origin |-> v, round |-> lastMigrated'[v][a]]
  <2>1. lastMigrated'[v][a] = c.round
    <3>1. PICK f : f = lastMigrated'[v]
      OBVIOUS
    <3>2. f = [b \in Accounts |-> IF assigned'[v][b] # assigned[v][b]
                                  THEN c.round ELSE lastMigrated[v][b]]
      BY <1>4, <3>1, EvaluateIs
    <3> QED
      BY <1>3, <3>1, <3>2
  <2>2. c = [origin |-> c.origin, round |-> c.round]
    BY DagFacts DEF Prepared, Shape
  <2> QED
    BY <1>4, <2>1, <2>2 DEF Evaluates
<1>6. IsInput(Inputs(v, c))
  BY <1>4, InputsTyped
<1> DEFINE in == Inputs(v, c)
           from == assigned[v]
           to == assigned'[v]
<1>7. from \in [Accounts -> Authorities]
  BY DEF Prepared, Shape
<1>8. PICK st : Fair(in, from, Donors(in.window), st) /\ to = st.to
  <2>1. to = Reassigned(in, from)
    BY <1>4, EvaluateIs
  <2> HIDE DEF in, from, to
  <2> QED
    BY <1>6, <1>7, <2>1, DecisionIsFair DEF in
<1> HIDE DEF in, from, to
<1>9. \A b \in Accounts : to[b] # from[b] => StructuralExcess(in, from[b]) > 0
  BY <1>8 DEF Fair
<1>10. ASSUME NEW w \in Authorities, MovedTo(from, to, w) # {}
       PROVE  Total(Gain(in, from, to, w)) <= SpareOf(in, w)
  <2>1. st.spare[w] = SpareOf(in, w) - Total(Gain(in, from, to, w)) /\ st.spare[w] >= 0
    BY <1>8, <1>10 DEF Fair
  <2>2. Total(Gain(in, from, to, w)) \in Nat
    BY <1>6, <1>7, GainTyped DEF in
  <2>3. SpareOf(in, w) \in Int
    BY <1>6, InputFacts DEF in
  <2> QED
    BY <2>1, <2>2, <2>3
<1> DEFINE moved == {b \in Accounts : to[b] # from[b]}
           gained(w) == {b \in moved : to[b] = w}
           gain(w) == [b \in gained(w) |-> CapLoad(in, from[b], {x \in Accounts : from[x] = from[b]}, b)]
<1>11. ASSUME NEW w \in Authorities
       PROVE  MovedTo(from, to, w) = gained(w) /\ Gain(in, from, to, w) = gain(w)
  <2>1. MovedTo(from, to, w) = gained(w)
    BY DEF MovedTo
  <2> QED
    BY <2>1 DEF Gain, HeldBy
<1>12. /\ \A b \in moved : StructuralExcess(in, from[b]) > 0
       /\ \A w \in Authorities : gained(w) # {} => Total(gain(w)) <= SpareOf(in, w)
  <2>1. ASSUME NEW w \in Authorities, gained(w) # {} PROVE Total(gain(w)) <= SpareOf(in, w)
    <3> HIDE DEF gained, gain
    <3> QED
      BY <1>10, <1>11, <2>1
  <2>2. \A b \in moved : StructuralExcess(in, from[b]) > 0
    BY <1>9
  <2> HIDE DEF moved, gained, gain
  <2> QED
    BY <2>1, <2>2
<1>13. MovesOf(v, c)
  BY <1>12 DEF MovesOf, MovedBy, in, from, to
<1> QED
  BY <1>5, <1>13
-----------------------------------------------------------------------------
(* The decisions as a function of the DAG *)

Decision(v) ==
  [to |-> assigned[v], last |-> lastMigrated[v], base |-> baseline[v], time |-> prevTime[v]]

\* The inputs, and the decision after x, in round r by a validator that tracks all
\* of the DAG d.
InputsOf(d, r, x) ==
  [window |-> Within(d, r), duration |-> Duration(d, r), round |-> r, last |-> x.last,
   baseline |-> x.base,
   elapsed |-> Sub(Now(d, r), IF x.time # None THEN x.time ELSE Median(d, FirstRound(r)))]

Due(d, r, x) ==
  /\ OfRound(d, StableRound(r)) # {}
  /\ x.time = None /\ Duration(d, r) > 0 => OfRound(d, FirstRound(r)) # {}
  /\ HasRates(d, r)

Decided(d, r, x, in, to) ==
  [to |-> to,
   last |-> [a \in Accounts |-> IF to[a] # x.to[a] THEN r ELSE x.last[a]],
   base |-> [w \in Authorities |-> IF w \in Present(in.window)
                                   THEN Smoothed(x.base[w], Delay(in.window, w)) ELSE x.base[w]],
   time |-> Now(d, r)]

StepOf(d, r, x) ==
  IF Due(d, r, x)
  THEN Decided(d, r, x, InputsOf(d, r, x), Reassigned(InputsOf(d, r, x), x.to))
  ELSE x

\* In a settled DAG the window has arrived when the certificate that asks for it
\* does, and is tracked if no later round was evaluated.
LEMMA WindowIsTracked ==
  ASSUME Prepared, Settled, NEW v \in Validators, NEW c \in DOMAIN dag, CanReceive(v, c),
         c.origin = v, Latest(v, c), NEW e \in DOMAIN dag, e.round \in InWindow(c.round)
  PROVE  e \in tracked[v]
<1>1. /\ dag \in Dags /\ received[v] \subseteq DOMAIN dag
      /\ dag[c].parents \subseteq received[v]
  BY DEF Prepared, Shape, CanReceive
<1>2. e.round \in Nat /\ e.round > 0 /\ c.round \in Nat
  BY <1>1, DagFacts
<1>3. e.round >= FirstRound(c.round) /\ e.round <= StableRound(c.round)
      /\ FirstRound(c.round) \in Nat /\ StableRound(c.round) \in Nat
  BY <1>2, RoundFacts DEF InWindow
<1>4. c.round >= 3 /\ e.round + 2 <= c.round
  <2>1. IF c.round >= 2 THEN StableRound(c.round) = c.round - 2 ELSE StableRound(c.round) = 0
    BY <1>2, RoundFacts
  <2> QED
    BY <1>2, <1>3, <2>1
<1>5. PICK q \in DOMAIN dag : q.round = e.round + 2 /\ dag[q].parents \subseteq received[v]
  <2>1. CASE e.round + 2 = c.round
    BY <1>1, <2>1
  <2>2. CASE e.round + 2 < c.round
    <3>1. PICK p \in dag[c].parents : p \in received[v] /\ p.round = c.round - 1
      BY <1>1, <1>2, <1>4, DagFacts
    <3>2. e.round + 2 \in 1 .. p.round
      BY <1>2, <2>2, <3>1
    <3>3. PICK q \in received[v] : q.round = e.round + 2
      BY <3>1, <3>2 DEF Prepared, RoundsReceived
    <3> QED
      BY <1>1, <3>3 DEF Prepared, ParentsReceived
  <2> QED
    BY <1>2, <1>4, <2>1, <2>2
<1>6. PICK p \in dag[q].parents : e \in dag[p].parents
  BY <1>5 DEF Settled
<1>7. e \in received[v]
  BY <1>5, <1>6 DEF Prepared, ParentsReceived
<1> QED
  BY <1>3, <1>7, OwnReceives

\* Then it sees the rounds of the window as they are.
LEMMA SeesAll ==
  ASSUME Prepared, Settled, NEW v \in Validators, NEW c \in DOMAIN dag, CanReceive(v, c),
         c.origin = v, Latest(v, c)
  PROVE  /\ Within(With(v, c), c.round) = Within(dag, c.round)
         /\ \A q \in InWindow(c.round) :
              /\ OfRound(With(v, c), q) = OfRound(dag, q)
              /\ Median(With(v, c), q) = Median(dag, q)
<1>1. PICK T : T = With(v, c)
  OBVIOUS
<1>2. /\ DOMAIN T \subseteq DOMAIN dag
      /\ \A e \in DOMAIN T : T[e] = dag[e]
      /\ \A e \in DOMAIN dag : e.round \in InWindow(c.round) => e \in DOMAIN T
  <2>1. /\ DOMAIN T = tracked[v] \cup {c}
        /\ \A e \in tracked[v] \cup {c} : T[e] = dag[e]
        /\ tracked[v] \cup {c} \subseteq DOMAIN dag
    BY <1>1, WithIs
  <2> QED
    BY <2>1, WindowIsTracked
<1>3. Within(T, c.round) = Within(dag, c.round)
  <2>1. {e \in DOMAIN T : e.round \in InWindow(c.round)}
          = {e \in DOMAIN dag : e.round \in InWindow(c.round)}
    BY <1>2
  <2>2. PICK S : S = {e \in DOMAIN T : e.round \in InWindow(c.round)}
    OBVIOUS
  <2>3. Restrict(T, S) = Restrict(dag, S)
    BY <1>2, <2>2 DEF Restrict
  <2> QED
    BY <2>1, <2>2, <2>3 DEF Within
<1>4. ASSUME NEW q \in InWindow(c.round)
      PROVE  OfRound(T, q) = OfRound(dag, q) /\ Median(T, q) = Median(dag, q)
  <2>1. OfRound(T, q) = OfRound(dag, q)
    BY <1>2 DEF OfRound
  <2>2. PICK S : S = OfRound(T, q)
    OBVIOUS
  <2>3. [e \in S |-> T[e].createdAt] = [e \in S |-> dag[e].createdAt]
    BY <1>2, <2>2 DEF OfRound
  <2>4. PICK times : times = [e \in S |-> T[e].createdAt]
    OBVIOUS
  <2>5. Median(T, q) = LET n == Cardinality(S)
                       IN  IF n % 2 = 1 THEN Smallest(times, n \div 2 + 1)
                           ELSE (Smallest(times, n \div 2) + Smallest(times, n \div 2 + 1)) \div 2
    BY <2>2, <2>4 DEF Median
  <2>6. Median(dag, q) = LET n == Cardinality(S)
                         IN  IF n % 2 = 1 THEN Smallest(times, n \div 2 + 1)
                             ELSE (Smallest(times, n \div 2) + Smallest(times, n \div 2 + 1)) \div 2
    BY <2>1, <2>2, <2>3, <2>4 DEF Median
  <2> QED
    BY <2>1, <2>5, <2>6
<1> QED
  BY <1>1, <1>3, <1>4

LEMMA EdgesOfWindow ==
  ASSUME NEW r \in Nat
  PROVE  FirstRound(r) \in InWindow(r) /\ StableRound(r) \in InWindow(r)
  BY RoundFacts DEF InWindow

\* And decides as if it tracked all of the DAG.
LEMMA DueAlike ==
  ASSUME Prepared, Settled, NEW v \in Validators, NEW c \in DOMAIN dag, CanReceive(v, c),
         c.origin = v, Latest(v, c)
  PROVE  /\ Expected(v, With(v, c), c.round) /\ HasRates(With(v, c), c.round)
              <=> Due(dag, c.round, Decision(v))
         /\ HasRates(With(v, c), c.round) => Inputs(v, c) = InputsOf(dag, c.round, Decision(v))
         /\ Now(With(v, c), c.round) = Now(dag, c.round)
<1>1. PICK T : T = With(v, c)
  OBVIOUS
<1>2. PICK r \in Nat : r = c.round
  BY DagFacts DEF Prepared, Shape
<1>3. PICK first, last \in InWindow(r) : first = FirstRound(r) /\ last = StableRound(r)
  BY EdgesOfWindow
<1>4. /\ Within(T, r) = Within(dag, r)
      /\ \A q \in InWindow(r) : OfRound(T, q) = OfRound(dag, q) /\ Median(T, q) = Median(dag, q)
  BY <1>1, <1>2, SeesAll
<1>5. Now(T, r) = Now(dag, r)
  BY <1>3, <1>4 DEF Now
<1>6. CASE DOMAIN Within(T, r) = {}
  BY <1>1, <1>2, <1>4, <1>5, <1>6 DEF HasRates, Due
<1>7. CASE DOMAIN Within(T, r) # {}
  <2>1. PICK S : S = {e.round : e \in DOMAIN Within(T, r)}
    OBVIOUS
  <2>2. S \subseteq InWindow(r) /\ S # {} /\ InWindow(r) \subseteq Nat
    <3>1. DOMAIN Within(T, r) = {e \in DOMAIN T : e.round \in InWindow(r)}
      BY DEF Within, Restrict
    <3>2. InWindow(r) \subseteq Nat
      BY RoundFacts DEF InWindow
    <3> QED
      BY <1>7, <2>1, <3>1, <3>2
  <2>3. Min(S) \in InWindow(r)
    BY <2>2, MinOfNumbers
  <2>4. Duration(T, r) = Duration(dag, r)
    BY <1>3, <1>4, <2>1, <2>3 DEF Duration
  <2>5. Inputs(v, c) = InputsOf(dag, r, Decision(v))
    BY <1>1, <1>2, <1>3, <1>4, <1>5, <2>4 DEF Inputs, InputsOf, Decision
  <2>6. Expected(v, T, r) /\ HasRates(T, r) <=> Due(dag, r, Decision(v))
    BY <1>3, <1>4, <2>4 DEF Expected, HasRates, Due, Decision
  <2> QED
    BY <1>1, <1>2, <1>5, <2>5, <2>6
<1> QED
  BY <1>6, <1>7

LEMMA EvaluateDecides ==
  ASSUME Prepared, Settled, NEW v \in Validators, NEW c \in DOMAIN dag, CanReceive(v, c),
         Evaluates(v, c), Latest(v, c), Expected(v, With(v, c), c.round), HasRates(With(v, c), c.round),
         Evaluate(v, c)
  PROVE  Decision(v)' = StepOf(dag, c.round, Decision(v))
<1> DEFINE r == c.round
           x == Decision(v)
           in == Inputs(v, c)
           to == Reassigned(in, assigned[v])
<1>1. x.to = assigned[v] /\ x.last = lastMigrated[v] /\ x.base = baseline[v] /\ x.time = prevTime[v]
  BY DEF Decision
<1>2. in = InputsOf(dag, r, x) /\ Due(dag, r, x) /\ Now(With(v, c), r) = Now(dag, r)
  BY DueAlike DEF Evaluates
<1>3. StepOf(dag, r, x) = Decided(dag, r, x, in, to)
  BY <1>1, <1>2 DEF StepOf
<1>4. Decided(dag, r, x, in, to) =
        [to |-> to,
         last |-> [a \in Accounts |-> IF to[a] # assigned[v][a] THEN r ELSE lastMigrated[v][a]],
         base |-> [w \in Authorities |-> IF w \in Present(in.window)
                                         THEN Smoothed(baseline[v][w], Delay(in.window, w))
                                         ELSE baseline[v][w]],
         time |-> Now(dag, r)]
  <2> HIDE DEF r, in, to
  <2> QED
    BY DEF Decided, Decision
<1>5. /\ assigned'[v] = to
      /\ lastMigrated'[v] = [a \in Accounts |-> IF to[a] # assigned[v][a]
                                                THEN r ELSE lastMigrated[v][a]]
      /\ baseline'[v] = [w \in Authorities |-> IF w \in Present(in.window)
                                               THEN Smoothed(baseline[v][w], Delay(in.window, w))
                                               ELSE baseline[v][w]]
      /\ prevTime'[v] = Now(With(v, c), r)
  <2>1. /\ DOMAIN assigned = Validators /\ DOMAIN lastMigrated = Validators
        /\ DOMAIN baseline = Validators /\ DOMAIN prevTime = Validators
    BY DEF Prepared, Shape
  <2> QED
    BY <2>1 DEF Evaluate
<1> HIDE DEF r, x, in, to
<1>6. Decision(v)' = [to |-> assigned'[v], last |-> lastMigrated'[v], base |-> baseline'[v],
                      time |-> prevTime'[v]]
  BY DEF Decision
<1>7. Decision(v)' = StepOf(dag, r, x)
  BY <1>2, <1>3, <1>4, <1>5, <1>6
<1> QED
  BY <1>7 DEF r, x

LEMMA BalanceDecides ==
  ASSUME Prepared, Settled, NEW v \in Validators, NEW c \in DOMAIN dag, Balance(v, c)
  PROVE  /\ Evaluates(v, c) /\ Latest(v, c) => Decision(v)' = StepOf(dag, c.round, Decision(v))
         /\ ~ Evaluates(v, c) => Decision(v)' = Decision(v)
         /\ \A u \in Validators : u # v => Decision(u)' = Decision(u)
<1>1. CanReceive(v, c)
  BY BalanceReceives
<1>2. CASE UNCHANGED decisions
  <2>1. \A u \in Validators : Decision(u)' = Decision(u)
    BY <1>2 DEF decisions, Decision
  <2>2. ASSUME Evaluates(v, c), Latest(v, c) PROVE StepOf(dag, c.round, Decision(v)) = Decision(v)
    <3>1. CASE ~ (Expected(v, With(v, c), c.round) /\ HasRates(With(v, c), c.round))
      <4>1. ~ Due(dag, c.round, Decision(v))
        BY <1>1, <2>2, <3>1, DueAlike DEF Evaluates
      <4> QED
        BY <4>1 DEF StepOf
    <3>2. CASE Expected(v, With(v, c), c.round) /\ HasRates(With(v, c), c.round)
      <4>1. Evaluate(v, c)
        BY <2>2, <3>2 DEF Balance, Record, Skip
      <4>2. Decision(v)' = StepOf(dag, c.round, Decision(v))
        BY <1>1, <2>2, <3>2, <4>1, EvaluateDecides
      <4> QED
        BY <2>1, <4>2
    <3> QED
      BY <3>1, <3>2
  <2> QED
    BY <2>1, <2>2
<1>3. CASE /\ Evaluate(v, c) /\ Expected(v, With(v, c), c.round)
           /\ HasRates(With(v, c), c.round) /\ Evaluates(v, c)
  <2>1. Latest(v, c) => Decision(v)' = StepOf(dag, c.round, Decision(v))
    BY <1>1, <1>3, EvaluateDecides
  <2>2. \A u \in Validators : u # v => Decision(u)' = Decision(u)
    BY <1>3, EvaluateIs DEF Decision
  <2> QED
    BY <1>3, <2>1, <2>2
<1> QED
  BY <1>2, <1>3, BalanceReceives

First == [to |-> Home, last |-> [a \in Accounts |-> None],
          base |-> [w \in Authorities |-> None], time |-> None]

\* F goes through the decisions x made in the rounds E of the DAG d.
Course(F, d, E, x) ==
  /\ F[0] = First
  /\ \A n \in Nat : F[n + 1] = IF n + 1 \in E THEN StepOf(d, n + 1, F[n]) ELSE F[n]
  /\ \A n \in Nat : (\A m \in E : m <= n) => F[n] = x

Followed ==
  Settled => \A v \in Validators :
    EvaluatedOnce(v) => \E F : Course(F, dag, Evaluated(v), Decision(v))

LEMMA FollowedAtFirst == Init => Followed
<1> SUFFICES ASSUME Init, NEW v \in Validators
             PROVE  \E F : Course(F, dag, Evaluated(v), Decision(v))
  BY DEF Followed
<1>1. PICK E : E = Evaluated(v) /\ E = {}
  BY DEF Init, Evaluated
<1>2. Decision(v) = First
  BY DEF Init, Decision, First
<1>3. PICK F : F = [n \in Nat |-> First]
  OBVIOUS
<1>4. F[0] = First /\ \A n \in Nat : F[n] = First /\ F[n + 1] = First
  BY <1>3
<1>5. Course(F, dag, E, Decision(v))
  BY <1>1, <1>2, <1>4 DEF Course
<1> QED
  BY <1>1, <1>5

\* One more round.
LEMMA CourseGoesOn ==
  ASSUME NEW F, NEW d, NEW E \in SUBSET Nat, NEW x, Course(F, d, E, x),
         NEW r \in Nat, r > 0, \A m \in E : m < r
  PROVE  \E G : Course(G, d, E \cup {r}, StepOf(d, r, x))
<1>1. PICK y : y = StepOf(d, r, x)
  OBVIOUS
<1>2. PICK G : G = [n \in Nat |-> IF n < r THEN F[n] ELSE y]
  OBVIOUS
<1>3. \A n \in Nat : G[n] = IF n < r THEN F[n] ELSE y
  BY <1>2
<1>4. PICK D : D = E \cup {r}
  OBVIOUS
<1>5. G[0] = First
  BY <1>3 DEF Course
<1>6. ASSUME NEW n \in Nat PROVE G[n + 1] = IF n + 1 \in D THEN StepOf(d, n + 1, G[n]) ELSE G[n]
  <2>1. CASE n + 1 < r
    <3>1. G[n] = F[n] /\ G[n + 1] = F[n + 1] /\ (n + 1 \in D <=> n + 1 \in E)
      BY <1>3, <1>4, <2>1
    <3> QED
      BY <3>1 DEF Course
  <2>2. CASE n + 1 = r
    <3>1. G[n] = F[n] /\ G[n + 1] = y /\ n + 1 \in D
      BY <1>3, <1>4, <2>2
    <3>2. F[n] = x
      <4>1. \A m \in E : m <= n
        BY <2>2
      <4> QED
        BY <4>1 DEF Course
    <3> QED
      BY <1>1, <2>2, <3>1, <3>2
  <2>3. CASE n + 1 > r
    <3>1. G[n] = y /\ G[n + 1] = y /\ n + 1 \notin D
      BY <1>3, <1>4, <2>3
    <3> QED
      BY <3>1
  <2> QED
    BY <2>1, <2>2, <2>3
<1>7. ASSUME NEW n \in Nat, \A m \in D : m <= n PROVE G[n] = y
  <2>1. r <= n
    BY <1>4, <1>7
  <2> QED
    BY <1>3, <2>1
<1>8. Course(G, d, D, y)
  BY <1>5, <1>6, <1>7 DEF Course
<1> QED
  BY <1>1, <1>4, <1>8

LEMMA FollowedKept == Prepared /\ Followed /\ [Next]_vars => Followed'
<1> SUFFICES ASSUME Prepared, Followed, [Next]_vars PROVE Followed'
  OBVIOUS
<1>1. dag' = dag
  BY BalanceReceives DEF Next, vars
<1>2. SUFFICES ASSUME Settled, NEW u \in Validators, EvaluatedOnce(u)'
               PROVE  \E F : Course(F, dag, Evaluated(u)', Decision(u)')
  <2>1. Settled' <=> Settled
    BY <1>1 DEF Settled
  <2>2. ASSUME Settled, NEW u \in Validators, EvaluatedOnce(u)'
        PROVE  (\E F : Course(F, dag, Evaluated(u), Decision(u)))'
    <3>1. \E F : Course(F, dag, Evaluated(u)', Decision(u)')
      BY <1>2, <2>2
    <3> QED
      BY <1>1, <3>1
  <2> QED
    BY <2>1, <2>2 DEF Followed
<1>3. PICK F : Course(F, dag, Evaluated(u), Decision(u))
  <2>1. again[u] \subseteq again'[u]
    BY PastStays DEF Next, vars
  <2>2. EvaluatedOnce(u)
    BY <1>2, <2>1 DEF EvaluatedOnce, Evaluates
  <2> QED
    BY <1>2, <2>2 DEF Followed
<1>4. ASSUME NEW v \in Validators, NEW c \in DOMAIN dag, Balance(v, c)
      PROVE  \E G : Course(G, dag, Evaluated(u)', Decision(u)')
  <2>1. received'[u] = IF u = v THEN received[u] \cup {c} ELSE received[u]
    <3>1. /\ received'[v] = received[v] \cup {c}
          /\ \A w \in Validators : w # v => received'[w] = received[w]
      BY <1>4, TrackedThen
    <3> QED
      BY <3>1
  <2>2. CASE u # v \/ ~ Evaluates(v, c)
    <3>1. Decision(u)' = Decision(u)
      BY <1>2, <1>4, <2>2, BalanceDecides
    <3>2. Evaluated(u)' = Evaluated(u)
      <4>1. {d \in received'[u] : Evaluates(u, d)} = {d \in received[u] : Evaluates(u, d)}
        BY <2>1, <2>2
      <4> QED
        BY <4>1 DEF Evaluated, Evaluates
    <3> QED
      BY <1>3, <3>1, <3>2
  <2>3. CASE u = v /\ Evaluates(v, c)
    <3>1. PICK E : E = Evaluated(v)
      OBVIOUS
    <3>2. PICK r \in Nat : r = c.round /\ r > 0
      BY DagFacts DEF Prepared, Shape
    <3>3. CanReceive(v, c) /\ c.origin = v /\ c \notin received[v]
      <4>1. CanReceive(v, c) /\ c.origin = v
        BY <1>4, <2>3, BalanceReceives DEF Evaluates
      <4>2. c \in received[v] => c \in again'[v]
        <5>1. again'[v] = again[v] \cup (received[v] \cap {c} \cap By(dag, v))
          BY <1>4, TrackedThen
        <5> QED
          BY <4>1, <5>1 DEF By
      <4>3. ~ (c \in again'[v])
        BY <1>2, <2>3 DEF EvaluatedOnce, Evaluates
      <4> QED
        BY <4>1, <4>2, <4>3
    <3>4. E \in SUBSET Nat
      <4>1. \A e \in received[v] : e.round \in Nat
        BY DagFacts DEF Prepared, Shape
      <4> QED
        BY <3>1, <4>1 DEF Evaluated
    <3>5. Latest(v, c) /\ \A m \in E : m < r
      <4>1. Latest(v, c) /\ \A e \in received[v] : e.origin = v => e.round < c.round
        BY <3>3, FirstIsLatest
      <4> QED
        BY <3>1, <3>2, <4>1 DEF Evaluated, Evaluates
    <3>6. Evaluated(v)' = E \cup {r}
      <4>1. received'[v] = received[v] \cup {c}
        BY <2>1, <2>3
      <4>2. {d \in received'[v] : Evaluates(v, d)} = {d \in received[v] : Evaluates(v, d)} \cup {c}
        BY <2>3, <4>1
      <4>3. Evaluated(v)' = {d.round : d \in {d \in received'[v] : Evaluates(v, d)}}
        BY DEF Evaluated, Evaluates
      <4> QED
        BY <3>1, <3>2, <4>2, <4>3 DEF Evaluated
    <3>7. Decision(v)' = StepOf(dag, r, Decision(v))
      BY <1>2, <1>4, <2>3, <3>2, <3>5, BalanceDecides
    <3>8. PICK x, y : x = Decision(v) /\ y = StepOf(dag, r, x)
      OBVIOUS
    <3>9. \E G : Course(G, dag, E \cup {r}, StepOf(dag, r, x))
      BY <1>3, <2>3, <3>1, <3>2, <3>4, <3>5, <3>8, CourseGoesOn
    <3> QED
      BY <2>3, <3>6, <3>7, <3>8, <3>9
  <2> QED
    BY <2>2, <2>3
<1>5. CASE UNCHANGED vars
  <2>1. received' = received /\ UNCHANGED <<assigned, lastMigrated, baseline, prevTime>>
    BY <1>5 DEF vars, decisions
  <2>2. Evaluated(u)' = Evaluated(u) /\ Decision(u)' = Decision(u)
    BY <2>1 DEF Evaluated, Evaluates, Decision
  <2> QED
    BY <1>3, <2>2
<1> QED
  BY <1>4, <1>5 DEF Next

\* Two courses through the same rounds end alike.
LEMMA CoursesAgree ==
  ASSUME NEW F, NEW G, NEW d, NEW E \in SUBSET Nat, IsFiniteSet(E), NEW x, NEW y,
         Course(F, d, E, x), Course(G, d, E, y)
  PROVE  x = y
<1> DEFINE Good == {n \in Nat : F[n] = G[n]}
<1>1. 0 \in Good
  BY DEF Course
<1>2. ASSUME NEW n \in Nat, n \in Good PROVE n + 1 \in Good
  <2>1. F[n] = G[n] /\ n + 1 \in Nat
    BY <1>2
  <2>2. F[n + 1] = IF n + 1 \in E THEN StepOf(d, n + 1, F[n]) ELSE F[n]
    BY DEF Course
  <2>3. G[n + 1] = IF n + 1 \in E THEN StepOf(d, n + 1, G[n]) ELSE G[n]
    BY DEF Course
  <2> QED
    BY <2>1, <2>2, <2>3
<1>3. Nat \subseteq Good
  <2> HIDE DEF Good
  <2> QED
    BY <1>1, <1>2, InductionOnNat
<1>4. PICK n \in Nat : \A m \in E : m <= n
  <2>1. CASE E = {}
    BY <2>1
  <2>2. CASE E # {}
    BY <2>2, GreatestNumber
  <2> QED
    BY <2>1, <2>2
<1>5. F[n] = x /\ G[n] = y
  BY <1>4 DEF Course
<1> QED
  BY <1>3, <1>5

LEMMA FollowedDecideAlike == Prepared /\ Followed => SameDecisions
<1> SUFFICES ASSUME Prepared, Followed, Settled, NEW v \in Validators, NEW w \in Validators,
                    Evaluated(v) = Evaluated(w), EvaluatedOnce(v), EvaluatedOnce(w)
             PROVE  /\ assigned[v] = assigned[w] /\ lastMigrated[v] = lastMigrated[w]
                    /\ baseline[v] = baseline[w] /\ prevTime[v] = prevTime[w]
  BY DEF SameDecisions
<1>1. PICK E : E = Evaluated(v)
  OBVIOUS
<1>2. IsFiniteSet(E) /\ E \in SUBSET Nat
  <2>1. PICK S : S = {c \in received[v] : Evaluates(v, c)}
    OBVIOUS
  <2>2. dag \in Dags /\ S \in SUBSET DOMAIN dag
    BY <2>1 DEF Prepared, Shape
  <2>3. IsFiniteSet(S)
    BY <2>2, DagFacts, FS_Subset
  <2>4. PICK f : f = [c \in S |-> c.round]
    OBVIOUS
  <2>5. IsFiniteSet({f[c] : c \in S})
    BY <2>3, <2>4, ImageFinite
  <2>6. E = {f[c] : c \in S}
    BY <1>1, <2>1, <2>4 DEF Evaluated
  <2>7. \A c \in S : f[c] \in Nat
    BY <2>2, <2>4, DagFacts
  <2> QED
    BY <2>5, <2>6, <2>7
<1>3. PICK x, y : x = Decision(v) /\ y = Decision(w)
  OBVIOUS
<1>4. PICK F : Course(F, dag, E, x)
  BY <1>1, <1>3 DEF Followed
<1>5. PICK G : Course(G, dag, E, y)
  BY <1>1, <1>3 DEF Followed
<1>6. x = y
  BY <1>2, <1>4, <1>5, CoursesAgree
<1> QED
  BY <1>3, <1>6 DEF Decision

LEMMA PreparedIsTyped == Prepared => TypeOK /\ NeverStops
<1> SUFFICES ASSUME Prepared PROVE TypeOK /\ NeverStops
  OBVIOUS
<1>1. \A v \in Validators : \A a \in Accounts :
        lastMigrated[v][a] \in
          {None} \cup {c.round : c \in {c \in received[v] :
                                       c.origin = v /\ c.round % RerouteInterval = 0}}
  <2>1. \A v \in Validators :
          Evaluated(v) = {c.round : c \in {c \in received[v] :
                                          c.origin = v /\ c.round % RerouteInterval = 0}}
    BY DEF Evaluated, Evaluates
  <2> QED
    BY <2>1 DEF Prepared, MovedWhenEvaluated
<1>2. stopped \subseteq Validators /\ NeverStops
  BY DEF Prepared, Shape
<1> QED
  BY <1>1, <1>2 DEF Prepared, Shape, TypeOK

-----------------------------------------------------------------------------
(* Theorems of the load balancing *)

\* What the client does leaves the validators alone.
LEMMA RoutingBalances == RoutingSpec => Init /\ [][Next]_vars
<1>1. RoutingInit => Init
  BY DEF RoutingInit
<1>2. [RoutingNext]_routingVars => [Next]_vars
  <2> SUFFICES ASSUME [RoutingNext]_routingVars PROVE [Next]_vars
    OBVIOUS
  <2>1. ASSUME NEW v \in Validators, NEW c \in DOMAIN dag, Decide(v, c) PROVE Next
    BY <2>1 DEF Decide, Next
  <2>2. ASSUME NEW p, NEW m, Forge(p, m) PROVE UNCHANGED vars
    BY <2>2 DEF Forge
  <2>3. ASSUME NEW s, Lose(s) \/ Vote(s) \/ Route(s) PROVE UNCHANGED vars
    BY <2>3 DEF Lose, Vote, Route
  <2>4. CASE UNCHANGED routingVars
    BY <2>4 DEF routingVars
  <2> QED
    BY <2>1, <2>2, <2>3, <2>4 DEF RoutingNext
<1> QED
  BY <1>1, <1>2, PTL DEF RoutingSpec

LEMMA AlwaysPrepared == Init /\ [][Next]_vars => [](Prepared /\ Followed)
<1>1. Init => Prepared /\ Followed
  BY PreparedAtFirst, FollowedAtFirst
<1>2. (Prepared /\ Followed) /\ [Next]_vars => (Prepared /\ Followed)'
  BY PreparedKept, FollowedKept
<1> QED
  BY <1>1, <1>2, PTL

\* Types, the accounts' last moves in rounds the validator evaluated on included:
\* every decision, of loops over donors and accounts, is an assignment.
THEOREM TypeCorrect == RoutingSpec => []TypeOK
  BY RoutingBalances, AlwaysPrepared, PreparedIsTyped, PTL

\* No expect of the task fails unless an own certificate comes again after a later
\* round was evaluated: the rounds that get_tps and the task count on have
\* certificates in the tracker, in any DAG and order of delivery (the "TODO:
\* formally prove" of get_tps).
THEOREM NeverPanics == RoutingSpec => []NeverStops
  BY RoutingBalances, AlwaysPrepared, PreparedIsTyped, PTL

\* Validators that evaluated in the same rounds of a settled DAG, in each once, have
\* the same assignment, cooldowns, baselines and time, whatever each of them has
\* received, in which order and how often.
THEOREM DecisionsAgree == RoutingSpec => []SameDecisions
<1>1. Prepared /\ Followed => SameDecisions
  BY FollowedDecideAlike
<1> QED
  BY <1>1, RoutingBalances, AlwaysPrepared, PTL

\* Accounts move in the round that is noted for them, on the validator's own
\* certificate; they leave overloaded authorities only, and all that an authority
\* gains in a decision fits the capacity it had to spare (compute_rerouting), on a
\* certificate that comes again too.
THEOREM MovesAreCovered == RoutingSpec => MovesFit
<1>1. Prepared /\ [Next]_vars =>
        [\A v \in Validators : \A a \in MovedBy(v) :
           MovesOf(v, [origin |-> v, round |-> lastMigrated'[v][a]])]_<<assigned>>
  <2> SUFFICES ASSUME Prepared, [Next]_vars, assigned' # assigned,
                      NEW v \in Validators, NEW a \in MovedBy(v)
               PROVE  MovesOf(v, [origin |-> v, round |-> lastMigrated'[v][a]])
    OBVIOUS
  <2>1. Next
    BY DEF vars, decisions
  <2> QED
    BY <2>1, StepMovesFit
<1> QED
  BY <1>1, RoutingBalances, AlwaysPrepared, PTL DEF MovesFit

-----------------------------------------------------------------------------
(* What the client follows *)

\* Who may have voted for n: the correct validators that decided it, and whom peers
\* have named as its senders.
Voters(n) == {v \in Validators : n \in decided[v]} \cup NamedFor({n})

\* A correct validator has decided the move, or peers gave more than f names.
Backed(n) ==
  (\E v \in Validators : n \in decided[v]) \/ Cardinality(NamedFor({n})) > Faults

Kinds ==
  /\ DOMAIN messages = Validators /\ DOMAIN confirmed = Senders /\ DOMAIN decided = Validators
  /\ \A v \in Validators : (\E S : messages[v] \in Seq(S)) /\ decided[v] \subseteq Notices
  /\ DOMAIN table = Own
  /\ claims \subseteq Forgeries

MessagesBacked ==
  \A v \in Validators : \A i \in DOMAIN messages[v] :
    messages[v][i].sender = v /\ messages[v][i].notices \subseteq decided[v]

VotesBacked == \A n \in DOMAIN votes : votes[n] \subseteq Voters(n)

ConfirmedBacked == \A s \in Senders : \A n \in confirmed[s] : n \in Notices /\ Backed(n)

TableBacked ==
  \A a \in Own : table[a] # Home[a] => Backed([account |-> a, target |-> table[a]])

AllBacked ==
  Kinds /\ MessagesBacked /\ VotesBacked /\ ConfirmedBacked /\ TableBacked

----------------------------------------------------------------------------
\* NamedFor({n}), of the claims C.
NamesIn(C, n) == {m.sender : m \in {m \in C : m.notices \cap {n} # {}}}

LEMMA NamedFinite ==
  ASSUME NEW C \in SUBSET Forgeries, NEW n
  PROVE  IsFiniteSet(NamesIn(C, n)) /\ Cardinality(NamesIn(C, n)) \in Nat
<1>1. PICK B : B = {m \in C : m.notices \cap {n} # {}}
  OBVIOUS
<1>2. IsFiniteSet(B)
  BY <1>1, RoutingAssumption, FS_Subset
<1>3. PICK f : f = [m \in B |-> m.sender]
  OBVIOUS
<1>4. IsFiniteSet({f[m] : m \in B})
  BY <1>2, <1>3, ImageFinite
<1>5. NamesIn(C, n) = {f[m] : m \in B}
  BY <1>1, <1>3 DEF NamesIn
<1> QED
  BY <1>4, <1>5, FS_CardinalityType

LEMMA FaultsTyped == Faults \in Int
  BY ReroutingAssumption DEF Faults

\* Enough voters, all of them named by peers, are more than f names.
LEMMA EnoughAreNamed ==
  ASSUME NEW C \in SUBSET Forgeries, NEW n, NEW S \in SUBSET NamesIn(C, n), Enough(S)
  PROVE  Cardinality(NamesIn(C, n)) > Faults
<1>1. PICK named : named = NamesIn(C, n)
  OBVIOUS
<1>2. IsFiniteSet(named) /\ Cardinality(named) \in Nat
  BY <1>1, NamedFinite
<1>3. Cardinality(S) <= Cardinality(named) /\ Cardinality(S) \in Nat
  BY <1>1, <1>2, FS_Subset, FS_CardinalityType
<1> QED
  BY <1>1, <1>2, <1>3, FaultsTyped DEF Enough

\* Decisions and claims are never taken back.
Grown ==
  /\ \A v \in Validators : decided[v] \subseteq decided'[v]
  /\ claims \subseteq claims' /\ claims' \subseteq Forgeries

LEMMA BackedStays ==
  ASSUME Grown, NEW n
  PROVE  Voters(n) \subseteq Voters(n)' /\ (Backed(n) => Backed(n)')
<1>1. PICK old, new : /\ old = NamedFor({n}) /\ new = NamedFor({n})'
                      /\ old = NamesIn(claims, n) /\ new = NamesIn(claims', n)
  BY DEF NamedFor, NamesIn
<1>2. old \subseteq new
  BY <1>1 DEF Grown, NamesIn
<1>3. /\ IsFiniteSet(old) /\ Cardinality(old) \in Nat
      /\ IsFiniteSet(new) /\ Cardinality(new) \in Nat
  BY <1>1, NamedFinite DEF Grown
<1>4. Cardinality(old) <= Cardinality(new)
  BY <1>2, <1>3, FS_Subset
<1>5. Voters(n) \subseteq Voters(n)'
  BY <1>1, <1>2 DEF Voters, Grown
<1>6. ASSUME Cardinality(old) > Faults PROVE Cardinality(new) > Faults
  BY <1>3, <1>4, <1>6, FaultsTyped
<1>7. Backed(n) => Backed(n)'
  BY <1>1, <1>6 DEF Backed, Grown
<1> QED
  BY <1>5, <1>7

LEMMA BackedAtFirst == RoutingInit => AllBacked
<1> SUFFICES ASSUME RoutingInit PROVE AllBacked
  OBVIOUS
<1>1. Kinds
  <2>1. \A v \in Validators : messages[v] \in Seq({})
    BY DEF RoutingInit
  <2> QED
    BY <2>1 DEF RoutingInit, Kinds
<1>2. MessagesBacked
  BY DEF RoutingInit, MessagesBacked
<1>3. VotesBacked /\ ConfirmedBacked
  BY DEF RoutingInit, VotesBacked, ConfirmedBacked
<1>4. TableBacked
  BY DEF RoutingInit, TableBacked, Own
<1> QED
  BY <1>1, <1>2, <1>3, <1>4 DEF AllBacked

\* What the client has stays backed.
LEMMA ClientStays ==
  ASSUME AllBacked, Grown, UNCHANGED client
  PROVE  VotesBacked' /\ ConfirmedBacked' /\ TableBacked'
<1>1. votes' = votes /\ confirmed' = confirmed /\ table' = table
  BY DEF client
<1>2. VotesBacked'
  BY <1>1, BackedStays DEF AllBacked, VotesBacked
<1>3. ConfirmedBacked'
  BY <1>1, BackedStays DEF AllBacked, ConfirmedBacked
<1>4. TableBacked'
  BY <1>1, BackedStays DEF AllBacked, TableBacked
<1> QED
  BY <1>2, <1>3, <1>4

LEMMA BackedDecide ==
  ASSUME AllBacked, NEW v \in Validators, NEW c, Decide(v, c)
  PROVE  AllBacked'
<1> DEFINE moves == Moves(assigned[v], assigned'[v])
<1>1. PICK moved, m : moved = moves /\ m = [sender |-> v, notices |-> moved]
  OBVIOUS
<1>2. moved \subseteq Notices /\ m.sender = v /\ m.notices = moved
  BY <1>1 DEF Moves
<1>3. /\ messages' = IF moved = {} THEN messages ELSE [messages EXCEPT ![v] = Append(@, m)]
      /\ decided' = [decided EXCEPT ![v] = @ \cup moved]
      /\ UNCHANGED client /\ claims' = claims
  BY <1>1 DEF Decide
<1> HIDE DEF moves
<1>4. /\ decided'[v] = decided[v] \cup moved /\ DOMAIN decided' = Validators
      /\ \A w \in Validators \ {v} : decided'[w] = decided[w]
  BY <1>3 DEF AllBacked, Kinds
<1>5. VotesBacked' /\ ConfirmedBacked' /\ TableBacked'
  <2>1. Grown
    BY <1>3, <1>4 DEF Grown, AllBacked, Kinds
  <2> QED
    BY <1>3, <2>1, ClientStays
<1>6. PICK S : messages[v] \in Seq(S)
  BY DEF AllBacked, Kinds
<1>7. DOMAIN messages = Validators
  BY DEF AllBacked, Kinds
<1>8. Append(messages[v], m) \in Seq(S \cup {m})
  BY <1>6
<1>9. Kinds'
  <2>1. \A w \in Validators : (\E T : messages'[w] \in Seq(T)) /\ decided'[w] \subseteq Notices
    <3> SUFFICES ASSUME NEW w \in Validators
                 PROVE  (\E T : messages'[w] \in Seq(T)) /\ decided'[w] \subseteq Notices
      OBVIOUS
    <3>1. messages'[w] = messages[w] \/ messages'[w] = Append(messages[v], m)
      BY <1>3, <1>7
    <3>2. decided'[w] \subseteq Notices
      BY <1>2, <1>4 DEF AllBacked, Kinds
    <3> QED
      BY <3>1, <3>2, <1>8 DEF AllBacked, Kinds
  <2>2. DOMAIN messages' = Validators
    BY <1>3, <1>7
  <2> QED
    BY <1>3, <1>4, <2>1, <2>2 DEF AllBacked, Kinds, client
<1>10. MessagesBacked'
  <2> SUFFICES ASSUME NEW w \in Validators, NEW i \in DOMAIN messages'[w]
               PROVE  messages'[w][i].sender = w /\ messages'[w][i].notices \subseteq decided'[w]
    BY DEF MessagesBacked
  <2>1. CASE messages'[w] = messages[w]
    BY <2>1, <1>4 DEF AllBacked, MessagesBacked
  <2>2. CASE w = v /\ messages'[w] = Append(messages[v], m)
    <3>1. \/ messages'[w][i] = m
          \/ (i \in DOMAIN messages[w] /\ messages'[w][i] = messages[w][i])
      BY <2>2, <1>6
    <3> QED
      BY <3>1, <2>2, <1>2, <1>4 DEF AllBacked, MessagesBacked
  <2> QED
    BY <2>1, <2>2, <1>3, <1>7
<1> QED
  BY <1>5, <1>9, <1>10 DEF AllBacked

\* The first message of a connection goes.
LEMMA FirstGone ==
  ASSUME AllBacked, NEW s \in Validators, messages[s] # <<>>, decided' = decided,
         messages' = [messages EXCEPT ![s] = Tail(messages[s])]
  PROVE  /\ DOMAIN messages' = Validators
         /\ \A v \in Validators : \E T : messages'[v] \in Seq(T)
         /\ MessagesBacked'
<1>1. PICK S : messages[s] \in Seq(S)
  BY DEF AllBacked, Kinds
<1>2. DOMAIN messages = Validators
  BY DEF AllBacked, Kinds
<1>3. Tail(messages[s]) \in Seq(S)
  BY <1>1
<1>4. \A v \in Validators : \E T : messages'[v] \in Seq(T)
  <2> SUFFICES ASSUME NEW v \in Validators PROVE \E T : messages'[v] \in Seq(T)
    OBVIOUS
  <2>1. messages'[v] = messages[v] \/ messages'[v] = Tail(messages[s])
    BY <1>2
  <2> QED
    BY <2>1, <1>3 DEF AllBacked, Kinds
<1>5. MessagesBacked'
  <2> SUFFICES ASSUME NEW v \in Validators, NEW i \in DOMAIN messages'[v]
               PROVE  messages'[v][i].sender = v /\ messages'[v][i].notices \subseteq decided[v]
    BY DEF MessagesBacked
  <2>1. CASE v # s
    BY <2>1, <1>2 DEF AllBacked, MessagesBacked
  <2>2. CASE v = s
    <3>1. messages'[v] = Tail(messages[v])
      BY <2>2, <1>2
    <3>2. i + 1 \in DOMAIN messages[v] /\ messages'[v][i] = messages[v][i + 1]
      <4>1. messages[v] \in Seq(S) /\ messages[v] # <<>> /\ i \in DOMAIN Tail(messages[v])
        BY <2>2, <3>1, <1>1
      <4>2. i + 1 \in DOMAIN messages[v] /\ Tail(messages[v])[i] = messages[v][i + 1]
        BY <4>1
      <4> QED
        BY <4>2, <3>1
    <3> QED
      BY <3>2 DEF AllBacked, MessagesBacked
  <2> QED
    BY <2>1, <2>2
<1> QED
  BY <1>2, <1>4, <1>5

LEMMA BackedLose ==
  ASSUME AllBacked, NEW v \in Validators, Lose(v)
  PROVE  AllBacked'
<1>1. /\ messages[v] # <<>> /\ messages' = [messages EXCEPT ![v] = Tail(messages[v])]
      /\ decided' = decided /\ claims' = claims /\ UNCHANGED client
  BY DEF Lose
<1>2. Kinds' /\ MessagesBacked'
  BY <1>1, FirstGone DEF AllBacked, Kinds, client
<1>3. Grown
  BY <1>1 DEF Grown, AllBacked, Kinds
<1> QED
  BY <1>1, <1>2, <1>3, ClientStays DEF AllBacked

\* A count is of voters, whoever is on the connection, and what it confirms is
\* backed.
LEMMA CountBacked ==
  ASSUME AllBacked, Grown, NEW s \in Senders, NEW m, Count(s, m), table' = table,
         m.notices \subseteq Notices, \A n \in m.notices : m.sender \in Voters(n)'
  PROVE  VotesBacked' /\ ConfirmedBacked' /\ TableBacked' /\ DOMAIN confirmed' = Senders
<1> DEFINE counted == [n \in DOMAIN votes \cup m.notices |->
                         VotesFor(n) \cup (IF n \in m.notices THEN {m.sender} ELSE {})]
           enough == {n \in m.notices : Enough(counted[n])}
<1>1. /\ votes' = Restrict(counted, DOMAIN counted \ enough)
      /\ confirmed' = [confirmed EXCEPT ![s] = enough]
  BY DEF Count
<1>2. \A n \in DOMAIN votes \cup m.notices : counted[n] \subseteq Voters(n)'
  <2> SUFFICES ASSUME NEW n \in DOMAIN votes \cup m.notices PROVE counted[n] \subseteq Voters(n)'
    OBVIOUS
  <2>1. counted[n] = VotesFor(n) \cup (IF n \in m.notices THEN {m.sender} ELSE {})
    OBVIOUS
  <2>2. VotesFor(n) \subseteq Voters(n)
    BY DEF VotesFor, AllBacked, VotesBacked
  <2>3. Voters(n) \subseteq Voters(n)'
    BY BackedStays
  <2> HIDE DEF counted
  <2> QED
    BY <2>1, <2>2, <2>3
<1>3. DOMAIN counted = DOMAIN votes \cup m.notices
  OBVIOUS
<1> HIDE DEF counted
<1>4. VotesBacked'
  <2>1. /\ DOMAIN votes' = DOMAIN counted \ enough
        /\ \A n \in DOMAIN counted \ enough : votes'[n] = counted[n]
    BY <1>1 DEF Restrict
  <2> QED
    BY <2>1, <1>2, <1>3 DEF VotesBacked
<1>5. \A n \in enough : n \in Notices /\ Backed(n)'
  <2> SUFFICES ASSUME NEW n \in enough PROVE Backed(n)'
    OBVIOUS
  <2>1. PICK S : S = counted[n] /\ Enough(S) /\ S \subseteq Voters(n)'
    BY <1>2
  <2>2. PICK names : names = NamedFor({n})' /\ names = NamesIn(claims', n)
    BY DEF NamedFor, NamesIn
  <2>3. CASE S \subseteq names
    <3>1. Cardinality(names) > Faults
      BY <2>1, <2>2, <2>3, EnoughAreNamed DEF Grown
    <3> QED
      BY <2>2, <3>1 DEF Backed
  <2>4. CASE ~ (S \subseteq names)
    <3>1. \E v \in Validators : n \in decided'[v]
      BY <2>1, <2>2, <2>4 DEF Voters
    <3> QED
      BY <3>1 DEF Backed
  <2> QED
    BY <2>3, <2>4
<1> HIDE DEF enough
<1>6. ConfirmedBacked' /\ DOMAIN confirmed' = Senders
  <2>1. \A n : Backed(n) => Backed(n)'
    BY BackedStays
  <2>2. \A t \in Senders : confirmed'[t] = IF t = s THEN enough ELSE confirmed[t]
    BY <1>1 DEF AllBacked, Kinds
  <2>3. ConfirmedBacked'
    BY <2>1, <2>2, <1>5 DEF AllBacked, ConfirmedBacked
  <2> QED
    BY <1>1, <2>3 DEF AllBacked, Kinds
<1>7. TableBacked'
  BY BackedStays DEF AllBacked, TableBacked
<1> QED
  BY <1>4, <1>6, <1>7

\* A correct validator's message names itself, and it decided the notices.
LEMMA BackedVote ==
  ASSUME AllBacked, NEW v \in Validators, Vote(v)
  PROVE  AllBacked'
<1>1. PICK m : m = Head(messages[v])
  OBVIOUS
<1>2. /\ messages[v] # <<>> /\ messages' = [messages EXCEPT ![v] = Tail(messages[v])]
      /\ Count(v, m) /\ table' = table /\ decided' = decided /\ claims' = claims
  BY <1>1 DEF Vote, history
<1>3. m.sender = v /\ m.notices \subseteq decided[v]
  <2>1. PICK S : messages[v] \in Seq(S)
    BY DEF AllBacked, Kinds
  <2>2. m = messages[v][1] /\ 1 \in DOMAIN messages[v]
    BY <1>1, <1>2, <2>1
  <2> QED
    BY <2>2 DEF AllBacked, MessagesBacked
<1>4. Grown
  BY <1>2 DEF Grown, AllBacked, Kinds
<1>5. m.notices \subseteq Notices /\ \A n \in m.notices : m.sender \in Voters(n)'
  BY <1>2, <1>3 DEF AllBacked, Kinds, Voters
<1>6. VotesBacked' /\ ConfirmedBacked' /\ TableBacked' /\ DOMAIN confirmed' = Senders
  BY <1>2, <1>4, <1>5, CountBacked DEF Senders
<1>7. Kinds' /\ MessagesBacked'
  BY <1>2, <1>6, FirstGone DEF AllBacked, Kinds
<1> QED
  BY <1>6, <1>7 DEF AllBacked

\* A peer's message is a claim, under whatever name.
LEMMA BackedForge ==
  ASSUME AllBacked, NEW p \in Peers, NEW m \in Forgeries, Forge(p, m)
  PROVE  AllBacked'
<1>1. /\ Count(p, m) /\ claims' = claims \cup {m}
      /\ messages' = messages /\ table' = table /\ decided' = decided
  BY DEF Forge
<1>2. Grown
  BY <1>1 DEF Grown, AllBacked, Kinds
<1>3. m.notices \subseteq Notices
  BY RoutingAssumption
<1>4. ASSUME NEW n \in m.notices PROVE m.sender \in Voters(n)'
  <2>1. m.sender \in NamedFor({n})'
    BY <1>1 DEF NamedFor
  <2> QED
    BY <2>1 DEF Voters
<1>5. VotesBacked' /\ ConfirmedBacked' /\ TableBacked' /\ DOMAIN confirmed' = Senders
  BY <1>1, <1>2, <1>3, <1>4, CountBacked DEF Senders
<1>6. Kinds' /\ MessagesBacked'
  BY <1>1, <1>2, <1>5 DEF AllBacked, Kinds, MessagesBacked, Grown
<1> QED
  BY <1>5, <1>6 DEF AllBacked

\* An account is rerouted by a notice that was confirmed, or not at all.
LEMMA BackedRoute ==
  ASSUME AllBacked, NEW s \in Senders, Route(s)
  PROVE  AllBacked'
<1> DEFINE new(a) == {n.target : n \in {n \in confirmed[s] : n.account = a}}
<1>1. /\ confirmed' = [confirmed EXCEPT ![s] = {}]
      /\ table' \in [DOMAIN table -> Authorities]
      /\ \A a \in DOMAIN table : table'[a] \in IF new(a) = {} THEN {table[a]} ELSE new(a)
      /\ messages' = messages /\ votes' = votes /\ decided' = decided /\ claims' = claims
  BY DEF Route, history
<1>2. \A n : Backed(n)' <=> Backed(n)
  BY <1>1 DEF Backed, NamedFor
<1>3. Kinds' /\ MessagesBacked' /\ VotesBacked'
  BY <1>1 DEF AllBacked, Kinds, MessagesBacked, VotesBacked, Voters, NamedFor
<1>4. ConfirmedBacked'
  BY <1>1, <1>2 DEF AllBacked, ConfirmedBacked, Kinds
<1>5. TableBacked'
  <2> SUFFICES ASSUME NEW a \in Own, table'[a] # Home[a]
               PROVE  Backed([account |-> a, target |-> table'[a]])
    BY <1>1, <1>2 DEF TableBacked
  <2>1. a \in DOMAIN table
    BY DEF AllBacked, Kinds
  <2>2. CASE new(a) = {}
    BY <2>1, <2>2, <1>1 DEF AllBacked, TableBacked
  <2>3. CASE new(a) # {}
    <3>1. table'[a] \in new(a)
      BY <2>1, <2>3, <1>1
    <3>2. PICK n \in confirmed[s] : n.account = a /\ table'[a] = n.target
      BY <3>1
    <3>3. n \in Notices /\ Backed(n)
      BY DEF AllBacked, ConfirmedBacked
    <3>4. n = [account |-> a, target |-> table'[a]]
      BY <3>2, <3>3 DEF Notices
    <3> QED
      BY <3>3, <3>4
  <2> QED
    BY <2>2, <2>3
<1> QED
  BY <1>3, <1>4, <1>5 DEF AllBacked

\* An account is only routed away from its home to where a correct validator
\* decided to move it, unless peers gave the client more than f senders' names for
\* that move (migration_listener's f + 1 matching votes): whoever connects, under
\* whatever names, and however these mix with the validators' own.
THEOREM RoutesAreDecided == RoutingSpec => []RoutedByCorrect
<1>1. AllBacked /\ [RoutingNext]_routingVars => AllBacked'
  <2> SUFFICES ASSUME AllBacked, [RoutingNext]_routingVars PROVE AllBacked'
    OBVIOUS
  <2>1. CASE UNCHANGED routingVars
    <3>1. UNCHANGED <<messages, client, decided, claims>>
      BY <2>1 DEF routingVars, history
    <3>2. Grown
      BY <3>1 DEF Grown, AllBacked, Kinds
    <3>3. Kinds' /\ MessagesBacked'
      BY <3>1 DEF client, AllBacked, Kinds, MessagesBacked
    <3> QED
      BY <3>1, <3>2, <3>3, ClientStays DEF AllBacked
  <2> QED
    BY <2>1, BackedDecide, BackedForge, BackedLose, BackedVote, BackedRoute DEF RoutingNext
<1>2. AllBacked => RoutedByCorrect
  BY DEF AllBacked, TableBacked, Backed, RoutedByCorrect
<1> QED
  BY <1>1, <1>2, BackedAtFirst, PTL DEF RoutingSpec
=============================================================================
