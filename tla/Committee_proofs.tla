-------------------------- MODULE Committee_proofs --------------------------
(***************************************************************************)
(* The arithmetic of quorums, for every committee. Sums of stakes are      *)
(* cardinalities of sets of units, so that the library's theorems on       *)
(* finite sets apply to them.  Induction and recursion on the naturals are *)
(* stated with sets and functions, since no prover here instantiates the   *)
(* library's theorems that take a predicate.                               *)
(***************************************************************************)
EXTENDS Committee, FiniteSetTheorems, WellFoundedInduction, TLAPS

-----------------------------------------------------------------------------
\* Induction, as a fact about a set of numbers.
LEMMA InductionOnNat ==
  ASSUME NEW Good, 0 \in Good, \A n \in Nat : n \in Good => n + 1 \in Good
  PROVE  Nat \subseteq Good
<1> DEFINE bad == Nat \ Good
           less == {ss \in Nat \X Nat : ss[1] < ss[2]}
<1>1. SUFFICES ASSUME bad # {} PROVE FALSE
  OBVIOUS
<1>2. IsWellFoundedOn(less, Nat)
  BY NatLessThanWellFounded DEF OpToRel
<1>3. PICK m \in bad : \A n \in bad : ~ (<<n, m>> \in less)
  <2> HIDE DEF less
  <2> QED
    BY <1>1, <1>2, WFMin
<1>4. m \in Nat /\ m # 0 /\ m - 1 \in Nat
  OBVIOUS
<1>5. <<m - 1, m>> \in less
  BY <1>4
<1>6. m - 1 \in Good
  BY <1>3, <1>4, <1>5
<1> QED
  BY <1>4, <1>6

\* A recursion that goes up from 0 by a step defines a function. The two notions
\* are named because the provers find the instance only while they are folded.
IsStepOn(step, n, V) == step \in [(1 .. n) \X V -> V]
Iterates(f, v, step, n, V) ==
  /\ f \in [0 .. n -> V] /\ f[0] = v
  /\ \A i \in 1 .. n : f[i] = step[<<i, f[i - 1]>>]

LEMMA UpwardRecursion ==
  ASSUME NEW V, NEW v \in V, NEW n \in Nat, NEW step, IsStepOn(step, n, V)
  PROVE  \E f : Iterates(f, v, step, n, V)
<1>0. step \in [(1 .. n) \X V -> V]
  BY DEF IsStepOn
<1> DEFINE From(k, f) == /\ f \in [0 .. k -> V] /\ f[0] = v
                         /\ \A i \in 1 .. k : f[i] = step[<<i, f[i - 1]>>]
           Good == {k \in Nat : k <= n => \E f : From(k, f)}
<1>1. 0 \in Good
  <2>1. From(0, [i \in 0 .. 0 |-> v])
    OBVIOUS
  <2> QED
    BY <2>1
<1>2. ASSUME NEW k \in Good, k + 1 <= n PROVE \E f : From(k + 1, f)
  <2>1. k \in Nat /\ k <= n
    BY <1>2
  <2>2. PICK f : From(k, f)
    BY <2>1
  <2> DEFINE g == [i \in 0 .. k + 1 |-> IF i <= k THEN f[i] ELSE step[<<k + 1, f[k]>>]]
  <2>3. f[k] \in V /\ <<k + 1, f[k]>> \in (1 .. n) \X V
    BY <1>2, <2>1, <2>2
  <2>4. step[<<k + 1, f[k]>>] \in V
    BY <1>0, <2>3
  <2>5. g \in [0 .. k + 1 -> V] /\ g[0] = v
    BY <2>1, <2>2, <2>4
  <2>6. ASSUME NEW i \in 1 .. k + 1 PROVE g[i] = step[<<i, g[i - 1]>>]
    <3>1. CASE i = k + 1
      <4>1. g[i] = step[<<k + 1, f[k]>>] /\ g[i - 1] = f[k]
        BY <2>1, <3>1
      <4> QED
        BY <3>1, <4>1
    <3>2. CASE i <= k
      <4>1. i \in 1 .. k /\ g[i] = f[i] /\ g[i - 1] = f[i - 1]
        BY <2>1, <3>2
      <4> QED
        BY <2>2, <4>1
    <3> QED
      BY <2>1, <3>1, <3>2
  <2>7. From(k + 1, g)
    BY <2>5, <2>6
  <2> QED
    BY <2>7
<1> HIDE DEF From
<1>3. \A k \in Nat : k \in Good => k + 1 \in Good
  <2> SUFFICES ASSUME NEW k \in Nat, k \in Good PROVE k + 1 \in Good
    OBVIOUS
  <2>1. k + 1 <= n => \E f : From(k + 1, f)
    <3> HIDE DEF Good
    <3> QED
      BY <1>2
  <2>2. k + 1 \in Nat
    OBVIOUS
  <2> QED
    BY <2>1, <2>2
<1>4. n \in Good
  <2> HIDE DEF Good
  <2> QED
    BY <1>1, <1>3, InductionOnNat
<1> QED
  BY <1>4 DEF From, Iterates

\* The same from the top of an interval downwards.
LEMMA InductionDown ==
  ASSUME NEW lo \in Nat, NEW hi \in Nat, lo <= hi, NEW Good, hi \in Good,
         \A r \in lo .. hi : r < hi /\ r + 1 \in Good => r \in Good
  PROVE  lo .. hi \subseteq Good
<1> DEFINE down == {k \in Nat : k <= hi - lo => hi - k \in Good}
<1>1. 0 \in down
  OBVIOUS
<1>2. ASSUME NEW k \in Nat, k \in down PROVE k + 1 \in down
  <2> SUFFICES ASSUME k + 1 <= hi - lo PROVE hi - (k + 1) \in Good
    OBVIOUS
  <2>1. /\ hi - (k + 1) \in lo .. hi /\ hi - (k + 1) < hi
        /\ hi - (k + 1) + 1 = hi - k /\ hi - k \in Good
    BY <1>2
  <2> QED
    BY <2>1
<1>3. Nat \subseteq down
  <2> HIDE DEF down
  <2> QED
    BY <1>1, <1>2, InductionOnNat
<1>4. ASSUME NEW r \in lo .. hi PROVE r \in Good
  <2>1. hi - r \in Nat /\ hi - r <= hi - lo /\ hi - (hi - r) = r
    OBVIOUS
  <2> QED
    BY <1>3, <2>1
<1> QED
  BY <1>4

IsStepDown(step, lo, hi, V) == step \in [(lo .. hi) \X V -> V]
Descends(f, v, step, lo, hi, V) ==
  /\ f \in [lo .. hi -> V] /\ f[hi] = v
  /\ \A r \in lo .. hi : r < hi => f[r] = step[<<r, f[r + 1]>>]

LEMMA DownwardRecursion ==
  ASSUME NEW V, NEW v \in V, NEW lo \in Nat, NEW hi \in Nat, lo <= hi,
         NEW step, IsStepDown(step, lo, hi, V)
  PROVE  \E f : Descends(f, v, step, lo, hi, V)
<1>1. PICK n \in Nat : n = hi - lo
  OBVIOUS
<1> DEFINE up == [x \in (1 .. n) \X V |-> step[<<hi - x[1], x[2]>>]]
<1>2. IsStepOn(up, n, V)
  <2>1. ASSUME NEW x \in (1 .. n) \X V PROVE step[<<hi - x[1], x[2]>>] \in V
    <3>1. <<hi - x[1], x[2]>> \in (lo .. hi) \X V
      BY <1>1
    <3> QED
      BY <3>1 DEF IsStepDown
  <2> QED
    BY <2>1 DEF IsStepOn
<1>3. PICK g : Iterates(g, v, up, n, V)
  <2> HIDE DEF up
  <2> QED
    BY <1>2, UpwardRecursion
<1>4. /\ g \in [0 .. n -> V] /\ g[0] = v
      /\ \A i \in 1 .. n : g[i] = step[<<hi - i, g[i - 1]>>]
  <2>1. ASSUME NEW i \in 1 .. n PROVE g[i] = step[<<hi - i, g[i - 1]>>]
    <3>1. g[i] = up[<<i, g[i - 1]>>] /\ g[i - 1] \in V
      <4>1. i - 1 \in 0 .. n
        OBVIOUS
      <4> HIDE DEF up
      <4> QED
        BY <1>3, <4>1 DEF Iterates
    <3> QED
      BY <3>1
  <2> QED
    BY <1>3, <2>1 DEF Iterates
<1> DEFINE f == [r \in lo .. hi |-> g[hi - r]]
<1>5. \A r \in lo .. hi : hi - r \in 0 .. n
  BY <1>1
<1>6. f \in [lo .. hi -> V]
  BY <1>4, <1>5
<1>7. hi \in lo .. hi /\ hi - hi = 0 /\ f[hi] = v
  BY <1>4
<1>8. ASSUME NEW r \in lo .. hi, r < hi PROVE f[r] = step[<<r, f[r + 1]>>]
  <2>1. hi - r \in 1 .. n /\ r + 1 \in lo .. hi /\ hi - (r + 1) = hi - r - 1 /\ hi - (hi - r) = r
    BY <1>1, <1>8
  <2>2. f[r] = g[hi - r] /\ f[r + 1] = g[hi - r - 1]
    BY <2>1
  <2> QED
    BY <1>4, <2>1, <2>2
<1>9. Descends(f, v, step, lo, hi, V)
  <2> HIDE DEF f
  <2> QED
    BY <1>6, <1>7, <1>8 DEF Descends
<1> QED
  BY <1>9

-----------------------------------------------------------------------------
\* The authorities of any set hold finitely many units: StakeOf is a number.
LEMMA UnitsFinite ==
  ASSUME NEW S \in SUBSET Authorities
  PROVE  IsFiniteSet(Units(S)) /\ StakeOf(S) \in Nat
<1> USE CommitteeAssumption
<1> DEFINE unitsOf == [a \in S |-> {a} \X (1 .. Stake[a])]
           each == {{a} \X (1 .. Stake[a]) : a \in S}
<1>1. IsFiniteSet(S)
  BY FS_Subset
<1>2. unitsOf \in Surjection(S, each)
  BY DEF Surjection
<1>3. IsFiniteSet(each)
  <2> HIDE DEF unitsOf, each
  <2> QED
    BY <1>1, <1>2, FS_Surjection
<1>4. ASSUME NEW T \in each PROVE IsFiniteSet(T)
  <2>1. PICK a \in S : T = {a} \X (1 .. Stake[a])
    OBVIOUS
  <2>2. IsFiniteSet({a})
    BY FS_Singleton
  <2>3. Stake[a] \in Int
    OBVIOUS
  <2>4. IsFiniteSet(1 .. Stake[a])
    BY <2>3, FS_Interval
  <2> QED
    BY <2>1, <2>2, <2>4, FS_Product
<1>5. IsFiniteSet(UNION each)
  <2> HIDE DEF each
  <2> QED
    BY <1>3, <1>4, FS_UNION
<1>6. IsFiniteSet(Units(S))
  BY <1>5, Zenon DEF Units
<1> QED
  BY <1>6, FS_CardinalityType DEF StakeOf

\* Units of an intersection and of a union.
LEMMA UnitsMeet ==
  ASSUME NEW S, NEW T
  PROVE  /\ Units(S \cap T) = Units(S) \cap Units(T)
         /\ Units(S \cup T) = Units(S) \cup Units(T)
<1>1. ASSUME NEW u, NEW R
      PROVE  u \in Units(R) <=> \E a \in R : \E i \in 1 .. Stake[a] : u = <<a, i>>
  BY DEF Units
<1>2. ASSUME NEW u PROVE u \in Units(S \cap T) <=> u \in Units(S) /\ u \in Units(T)
  BY <1>1
<1>3. ASSUME NEW u PROVE u \in Units(S \cup T) <=> u \in Units(S) \/ u \in Units(T)
  BY <1>1
<1> QED
  BY <1>2, <1>3, Zenon

\* The stakes of two sets of authorities count the common ones twice.
LEMMA StakeOfUnion ==
  ASSUME NEW S \in SUBSET Authorities, NEW T \in SUBSET Authorities
  PROVE  StakeOf(S \cup T) = StakeOf(S) + StakeOf(T) - StakeOf(S \cap T)
  BY UnitsFinite, UnitsMeet, FS_Union DEF StakeOf

\* More authorities hold no less stake.
LEMMA StakeMonotone ==
  ASSUME NEW T \in SUBSET Authorities, NEW S \in SUBSET T
  PROVE  StakeOf(S) <= StakeOf(T)
<1>1. S \cup T = T
  OBVIOUS
<1>2. Units(S) \subseteq Units(T)
  BY <1>1, UnitsMeet
<1> QED
  BY <1>2, UnitsFinite, FS_Subset DEF StakeOf

\* committee.stake(&author), added up one author at a time, is StakeOf.
LEMMA StakeOfOne ==
  ASSUME NEW a \in Authorities
  PROVE  StakeOf({a}) = Stake[a]
<1> DEFINE one == {a}
           units == 1 .. Stake[a]
<1>1. Units({a}) = one \X units
  BY DEF Units
<1>2. Stake[a] \in Nat
  BY CommitteeAssumption
<1>3. IsFiniteSet(one) /\ Cardinality(one) = 1
  BY FS_Singleton
<1>4. IsFiniteSet(units) /\ Cardinality(units) = Stake[a]
  BY <1>2, FS_Interval
<1> HIDE DEF one, units
<1>5. Cardinality(one \X units) = Cardinality(one) * Cardinality(units)
  BY <1>3, <1>4, FS_Product
<1>6. Cardinality(one \X units) = Stake[a]
  BY <1>2, <1>3, <1>4, <1>5
<1> QED
  BY <1>1, <1>6, Zenon DEF StakeOf

LEMMA StakeOfAdded ==
  ASSUME NEW S \in SUBSET Authorities, NEW a \in Authorities, a \notin S
  PROVE  StakeOf(S \cup {a}) = StakeOf(S) + Stake[a]
<1>1. S \cap {a} = {}
  OBVIOUS
<1>2. StakeOf({}) = 0
  <2>1. Units({}) = {}
    BY DEF Units
  <2> QED
    BY <2>1, FS_EmptySet DEF StakeOf
<1>3. StakeOf(S \cup {a}) = StakeOf(S) + StakeOf({a}) - StakeOf(S \cap {a})
  BY StakeOfUnion
<1>4. StakeOf(S \cap {a}) = 0
  BY <1>1, <1>2, Zenon
<1>5. StakeOf({a}) = Stake[a]
  BY StakeOfOne
<1>6. StakeOf(S) \in Nat /\ Stake[a] \in Nat
  BY UnitsFinite, CommitteeAssumption
<1> QED
  BY <1>3, <1>4, <1>5, <1>6

-----------------------------------------------------------------------------
\* "2f + 1" and "f + 1" (Committee::quorum_threshold and validity_threshold): two
\* quorums share authorities of f + 1 of stake, so that not all are faulty.
THEOREM QuorumIntersection ==
  ASSUME NEW P \in SUBSET Authorities, NEW Q \in SUBSET Authorities,
         IsQuorum(P), IsQuorum(Q)
  PROVE  StakeOf(P \cap Q) >= ValidityThreshold
<1>1. StakeOf(P \cup Q) <= TotalStake
  BY StakeMonotone DEF TotalStake
<1>2. StakeOf(P \cup Q) = StakeOf(P) + StakeOf(Q) - StakeOf(P \cap Q)
  BY StakeOfUnion
<1>3. TotalStake \in Nat /\ StakeOf(P) \in Nat /\ StakeOf(Q) \in Nat
      /\ StakeOf(P \cap Q) \in Nat /\ StakeOf(P \cup Q) \in Nat
  BY UnitsFinite DEF TotalStake
<1> QED
  BY <1>1, <1>2, <1>3 DEF IsQuorum, QuorumThreshold, ValidityThreshold

\* A quorum without faulty authorities of at most f of stake still holds f + 1.
THEOREM QuorumWithoutFaulty ==
  ASSUME NEW Q \in SUBSET Authorities, NEW F \in SUBSET Authorities,
         IsQuorum(Q), StakeOf(F) < ValidityThreshold
  PROVE  StakeOf(Q \ F) >= ValidityThreshold
<1>1. (Q \ F) \cup (Q \cap F) = Q /\ (Q \ F) \cap (Q \cap F) = {}
  OBVIOUS
<1>2. StakeOf({}) = 0
  BY FS_EmptySet DEF StakeOf, Units
<1>3. StakeOf(Q) = StakeOf(Q \ F) + StakeOf(Q \cap F)
  BY <1>1, <1>2, StakeOfUnion, UnitsFinite
<1>4. StakeOf(Q \cap F) <= StakeOf(F)
  BY StakeMonotone
<1>5. TotalStake \in Nat /\ StakeOf(Q \ F) \in Nat /\ StakeOf(Q \cap F) \in Nat
      /\ StakeOf(F) \in Nat
  BY UnitsFinite DEF TotalStake
<1> QED
  BY <1>3, <1>4, <1>5 DEF IsQuorum, QuorumThreshold, ValidityThreshold

\* The supporters of a leader (f + 1) and the parents of any later certificate
\* (2f + 1) have an authority in common: what Tusk's commit rule rests on.
THEOREM SupportMeetsQuorum ==
  ASSUME NEW Q \in SUBSET Authorities, NEW S \in SUBSET Authorities,
         IsQuorum(Q), StakeOf(S) >= ValidityThreshold
  PROVE  Q \cap S # {}
<1> SUFFICES ASSUME Q \cap S = {} PROVE FALSE
  OBVIOUS
<1>1. StakeOf({}) = 0
  BY FS_EmptySet DEF StakeOf, Units
<1>2. StakeOf(Q \cup S) = StakeOf(Q) + StakeOf(S) - StakeOf(Q \cap S)
  BY StakeOfUnion
<1>3. StakeOf(Q \cup S) <= TotalStake
  BY StakeMonotone DEF TotalStake
<1>4. TotalStake \in Nat /\ StakeOf(Q) \in Nat /\ StakeOf(S) \in Nat
  BY UnitsFinite DEF TotalStake
<1>5. StakeOf(Q \cap S) = 0
  BY <1>1, Zenon
<1> QED
  BY <1>2, <1>3, <1>4, <1>5 DEF IsQuorum, QuorumThreshold, ValidityThreshold
=============================================================================
