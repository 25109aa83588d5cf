---------------------------- MODULE Tusk_proofs ----------------------------
(***************************************************************************)
(* Theorems about Tusk for every committee, DAG, GC depth and number of    *)
(* validators.  The state of each validator is compared with the whole     *)
(* DAG: what it commits, flattened or to be flattened, is the chain of     *)
(* leaders below one that f + 1 support, and what it outputs for a leader  *)
(* is the history of that leader in the DAG.  Two validators agree because *)
(* the DAG is the same.                                                    *)
(***************************************************************************)
EXTENDS Tusk, Committee_proofs

-----------------------------------------------------------------------------
\* Max of FiniteSetsExt is a maximum on every bounded set of naturals.
LEMMA MaxOfBounded ==
  ASSUME NEW S \in SUBSET Nat, S # {}, NEW n \in Nat, \A x \in S : x <= n
  PROVE  Max(S) \in S /\ \A x \in S : x <= Max(S)
<1> DEFINE gaps == {n - x : x \in S}
           less == {ss \in Nat \X Nat : ss[1] < ss[2]}
<1>1. gaps \subseteq Nat /\ gaps # {}
  <2>1. \A x \in S : x \in Nat /\ n - x \in Nat
    OBVIOUS
  <2> QED
    BY <2>1, Zenon
<1>2. IsWellFoundedOn(less, Nat)
  BY NatLessThanWellFounded DEF OpToRel
<1>3. PICK g \in gaps : \A h \in gaps : ~ (<<h, g>> \in less)
  <2> HIDE DEF gaps, less
  <2> QED
    BY <1>1, <1>2, WFMin
<1>4. PICK m \in S : g = n - m
  OBVIOUS
<1>5. \A x \in S : m >= x
  <2> SUFFICES ASSUME NEW x \in S PROVE m >= x
    OBVIOUS
  <2>1. n - x \in gaps
    OBVIOUS
  <2>2. ~ (n - x < g)
    BY <1>1, <1>3, <2>1
  <2> QED
    BY <1>4, <2>2
<1> QED
  BY <1>5 DEF Max

-----------------------------------------------------------------------------
\* last_committed_round is the largest entry of last_committed.
LastInv ==
  \A v \in Validators :
    /\ \A a \in Authorities : lastCommitted[v][a] <= lastCommittedRound[v]
    /\ \E a \in Authorities : lastCommitted[v][a] = lastCommittedRound[v]

\* What was received above the last committed round is still in the dag.
RecentInv ==
  \A v \in Validators : \A c \in received[v] :
    c.round > lastCommittedRound[v] => c \in dag[v]

\* A certificate is received before its parents are needed.
HistoryInv ==
  \A v \in Validators : \A c \in received[v] :
    parents[c] \subseteq received[v] \cup Genesis

\* Committed certificates were received, and last_committed covers them.
CommittedInv ==
  \A v \in Validators : \A i \in DOMAIN log[v] : \A c \in log[v][i].certificates :
    /\ c \in received[v] \cup Genesis
    /\ c.round <= lastCommitted[v][c.origin]

\* Without redelivery, the only committed certificates still in the dag are at
\* the last committed round of their origin: those order_dag skips.
SkippedInv ==
  redelivered = 0 =>
    \A v \in Validators : \A i \in DOMAIN log[v] :
      \A c \in log[v][i].certificates \cap dag[v] :
        c.round = lastCommitted[v][c.origin]

Inv ==
  /\ TypeOK
  /\ LastInv
  /\ RecentInv
  /\ HistoryInv
  /\ CommittedInv
  /\ SkippedInv
  /\ CommitOnce


-----------------------------------------------------------------------------
LEMMA DagFacts ==
  ASSUME TypeOK
  PROVE  /\ DOMAIN parents \subseteq Certificate \ Genesis
         /\ \A c \in DOMAIN parents : parents[c] \subseteq DOMAIN parents \cup Genesis
BY TuskAssumption DEF TypeOK, IsCertifiedDag

LEMMA SomeAuthority == \E a \in Authorities : TRUE
<1>1. Keys[1] \in Authorities
  BY CommitteeAssumption
<1> QED
  BY <1>1

\* What one round of the commit loop does to the bookkeeping of State::update.
LEMMA CommitFacts ==
  ASSUME TypeOK, LastInv, NEW v \in Validators, NEW leader \in pending[v]
  PROVE  LET batch == OrderDag(v, leader)
             last  == LastCommittedAfter(v, batch)
             lcr   == Max({last[a] : a \in Authorities})
         IN  /\ batch \subseteq dag[v]
             /\ \A c \in batch : c.round # lastCommitted[v][c.origin]
             /\ last \in [Authorities -> Nat]
             /\ \A a \in Authorities : lastCommitted[v][a] <= last[a]
             /\ \A c \in batch : c.round <= last[c.origin]
             /\ lcr \in Nat
             /\ \A a \in Authorities : last[a] <= lcr
             /\ \E a \in Authorities : last[a] = lcr
             /\ lastCommittedRound[v] <= lcr
             /\ \A a \in Authorities :
                  \/ last[a] = lastCommitted[v][a]
                  \/ \E c \in batch : c.origin = a /\ c.round = last[a]
<1> DEFINE batch == OrderDag(v, leader)
           last  == LastCommittedAfter(v, batch)
           lasts == {last[a] : a \in Authorities}
           rounds(a) == {lastCommitted[v][a]} \cup
                        {c.round : c \in {x \in batch : x.origin = a}}
           top   == lastCommittedRound[v] + leader.round
<1>1. /\ batch \subseteq dag[v]
      /\ \A c \in batch : c.round # lastCommitted[v][c.origin]
      /\ \A c \in batch : c.round <= leader.round
  BY DEF OrderDag
<1>2. batch \subseteq Certificate /\ leader \in Certificate
  BY <1>1 DEF TypeOK
<1>3. /\ leader.round \in Nat /\ lastCommittedRound[v] \in Nat
      /\ lastCommitted[v] \in [Authorities -> Nat]
  BY <1>2 DEF TypeOK, Certificate
<1>4. top \in Nat /\ leader.round <= top /\ lastCommittedRound[v] <= top
  BY <1>3
<1> HIDE DEF batch, top
<1>5. \A c \in batch : c.round \in Nat /\ c.origin \in Authorities /\ c.round <= top
  BY <1>1, <1>2, <1>3, <1>4 DEF Certificate
<1>6. ASSUME NEW a \in Authorities
      PROVE  /\ last[a] \in rounds(a)
             /\ \A x \in rounds(a) : x <= last[a]
  <2>1. lastCommitted[v][a] \in Nat /\ lastCommitted[v][a] <= top
    BY <1>3, <1>4 DEF LastInv
  <2>2. \A x \in rounds(a) : x \in Nat /\ x <= top
    BY <1>5, <2>1
  <2>3. rounds(a) \in SUBSET Nat /\ rounds(a) # {}
    BY <2>2
  <2>4. last[a] = Max(rounds(a))
    BY DEF LastCommittedAfter
  <2> HIDE DEF rounds, last
  <2> QED
    BY <1>4, <2>2, <2>3, <2>4, MaxOfBounded
<1>7. ASSUME NEW a \in Authorities
      PROVE  last[a] \in Nat /\ last[a] <= top /\ lastCommitted[v][a] <= last[a]
  <2>1. lastCommitted[v][a] \in Nat /\ lastCommitted[v][a] <= top
    BY <1>3, <1>4 DEF LastInv
  <2>2. \A x \in rounds(a) : x \in Nat /\ x <= top
    BY <1>5, <2>1
  <2>3. lastCommitted[v][a] \in rounds(a)
    OBVIOUS
  <2> QED
    BY <1>6, <2>2, <2>3
<1>8. last \in [Authorities -> Nat]
  BY <1>7 DEF LastCommittedAfter
<1>9. \A c \in batch : c.round <= last[c.origin]
  <2> SUFFICES ASSUME NEW c \in batch PROVE c.round <= last[c.origin]
    OBVIOUS
  <2>1. c.origin \in Authorities /\ c.round \in rounds(c.origin)
    BY <1>5
  <2> QED
    BY <1>6, <2>1
<1>10. /\ Max(lasts) \in lasts
       /\ \A x \in lasts : x <= Max(lasts)
  <2>1. lasts \in SUBSET Nat /\ \A x \in lasts : x <= top
    BY <1>7
  <2>2. lasts # {}
    BY SomeAuthority
  <2> HIDE DEF lasts
  <2> QED
    BY <1>4, <2>1, <2>2, MaxOfBounded
<1>11. PICK a \in Authorities : lastCommitted[v][a] = lastCommittedRound[v]
  BY DEF LastInv
<1>12. lastCommittedRound[v] <= Max(lasts)
  <2>1. last[a] \in lasts /\ last[a] \in Nat /\ Max(lasts) \in Nat
    BY <1>7, <1>10
  <2>2. lastCommittedRound[v] <= last[a]
    BY <1>7, <1>11
  <2>3. last[a] <= Max(lasts)
    BY <1>10, <2>1
  <2> HIDE DEF lasts, last
  <2> QED
    BY <1>3, <2>1, <2>2, <2>3
<1>13. /\ Max(lasts) \in Nat
       /\ \A b \in Authorities : last[b] <= Max(lasts)
       /\ \E b \in Authorities : last[b] = Max(lasts)
  BY <1>7, <1>10
<1>14. ASSUME NEW b \in Authorities
       PROVE  \/ last[b] = lastCommitted[v][b]
              \/ \E c \in batch : c.origin = b /\ c.round = last[b]
  <2>1. last[b] \in rounds(b)
    BY <1>6
  <2> HIDE DEF last
  <2> QED
    BY <2>1
<1> QED
  BY <1>1, <1>7, <1>8, <1>9, <1>12, <1>13, <1>14 DEF batch

-----------------------------------------------------------------------------
LEMMA InitInv == Init => Inv
<1> SUFFICES ASSUME Init PROVE Inv
  OBVIOUS
<1>1. Genesis \subseteq Certificate
  BY DEF Genesis, Certificate
<1>2. parents \in Dags /\ redelivered = 0
  BY DEF Init
<1>3. TypeOK
  BY <1>1, <1>2, TuskAssumption DEF Init, TypeOK
<1>4. LastInv
  BY SomeAuthority DEF Init, LastInv
<1>5. RecentInv /\ HistoryInv /\ CommittedInv /\ SkippedInv /\ CommitOnce
  BY DEF Init, RecentInv, HistoryInv, CommittedInv, SkippedInv, CommitOnce, NoDoubleCommit
<1> QED
  BY <1>3, <1>4, <1>5 DEF Inv

\* What the processing of a certificate changes: only the dag of that validator,
\* and which leaders wait to be flattened.
LEMMA ProcessFacts ==
  ASSUME TypeOK, NEW v \in Validators, NEW c \in DOMAIN parents, Process(v, c)
  PROVE  /\ dag' = [dag EXCEPT ![v] = @ \cup {c}]
         /\ pending' \in [Validators -> SUBSET Certificate]
         /\ UNCHANGED <<parents, lastCommitted, lastCommittedRound, log>>
<1>1. c \in Certificate
  BY DagFacts
<1>2. \A D \in SUBSET Certificate : \A leader, lcr :
        OrderLeaders(D, leader, lcr) \subseteq Certificate
  BY DEF OrderLeaders
<1>3. dag[v] \cup {c} \in SUBSET Certificate
  BY <1>1 DEF TypeOK
<1>4. pending' \in [Validators -> SUBSET Certificate]
  BY <1>2, <1>3 DEF Process, TypeOK
<1> QED
  BY <1>4 DEF Process, TypeOK

LEMMA DeliverInv ==
  ASSUME Inv, NEW v \in Validators, NEW c \in DOMAIN parents, Deliver(v, c)
  PROVE  Inv'
<1> USE DEF Inv
<1>1. /\ dag' = [dag EXCEPT ![v] = @ \cup {c}]
      /\ received' = [received EXCEPT ![v] = @ \cup {c}]
      /\ pending' \in [Validators -> SUBSET Certificate]
      /\ UNCHANGED <<parents, lastCommitted, lastCommittedRound, log, redelivered>>
      /\ c \notin received[v]
      /\ parents[c] \subseteq received[v] \cup Genesis
  BY ProcessFacts DEF Deliver
<1>2. c \in Certificate \ Genesis
  BY DagFacts
<1>3. TypeOK'
  BY <1>1, <1>2 DEF TypeOK
<1>4. LastInv'
  BY <1>1 DEF LastInv
<1>5. RecentInv'
  BY <1>1 DEF RecentInv, TypeOK
<1>6. HistoryInv'
  BY <1>1 DEF HistoryInv, TypeOK
<1>7. CommittedInv'
  BY <1>1 DEF CommittedInv, TypeOK
<1>8. SkippedInv'
  BY <1>1, <1>2 DEF SkippedInv, CommittedInv, TypeOK
<1>9. CommitOnce'
  BY <1>1 DEF CommitOnce, NoDoubleCommit
<1> QED
  BY <1>3, <1>4, <1>5, <1>6, <1>7, <1>8, <1>9

LEMMA RedeliverInv ==
  ASSUME Inv, NEW v \in Validators, NEW c \in DOMAIN parents, Redeliver(v, c)
  PROVE  Inv'
<1> USE DEF Inv
<1>1. /\ dag' = [dag EXCEPT ![v] = @ \cup {c}]
      /\ pending' \in [Validators -> SUBSET Certificate]
      /\ UNCHANGED <<parents, received, lastCommitted, lastCommittedRound, log>>
      /\ c \in received[v]
      /\ \/ c \in dag[v] /\ UNCHANGED redelivered
         \/ redelivered < MaxRedeliveries /\ redelivered' = redelivered + 1
  BY ProcessFacts DEF Redeliver
<1>2. c \in Certificate \ Genesis
  BY DagFacts
<1>3. CASE c \in dag[v] /\ UNCHANGED redelivered
  <2>1. UNCHANGED dag
    BY <1>1, <1>3 DEF TypeOK
  <2>2. TypeOK'
    BY <1>1, <1>3, <2>1 DEF TypeOK
  <2>3. LastInv' /\ HistoryInv' /\ CommittedInv' /\ RecentInv'
    BY <1>1, <2>1 DEF LastInv, HistoryInv, CommittedInv, RecentInv
  <2>4. SkippedInv' /\ CommitOnce'
    BY <1>1, <1>3, <2>1 DEF SkippedInv, CommitOnce, NoDoubleCommit
  <2> QED
    BY <2>2, <2>3, <2>4
<1>4. CASE redelivered < MaxRedeliveries /\ redelivered' = redelivered + 1
  <2>1. redelivered' \in 0 .. MaxRedeliveries /\ redelivered' # 0
    BY <1>4, TuskAssumption DEF TypeOK
  <2>2. TypeOK'
    BY <1>1, <1>2, <2>1 DEF TypeOK
  <2>3. LastInv' /\ HistoryInv' /\ CommittedInv'
    BY <1>1 DEF LastInv, HistoryInv, CommittedInv
  <2>4. RecentInv'
    BY <1>1 DEF RecentInv, TypeOK
  <2>5. SkippedInv' /\ CommitOnce'
    BY <2>1 DEF SkippedInv, CommitOnce
  <2> QED
    BY <2>2, <2>3, <2>4, <2>5
<1> QED
  BY <1>1, <1>3, <1>4

LEMMA CommitLeaderInv ==
  ASSUME Inv, NEW v \in Validators, CommitLeader(v)
  PROVE  Inv'
<1> USE DEF Inv
<1>1. PICK leader \in pending[v] :
        LET batch == OrderDag(v, leader)
            last  == LastCommittedAfter(v, batch)
            lcr   == Max({last[a] : a \in Authorities})
        IN  /\ log' = [log EXCEPT ![v] =
                         Append(@, [leader |-> leader, certificates |-> batch])]
            /\ lastCommitted' = [lastCommitted EXCEPT ![v] = last]
            /\ lastCommittedRound' = [lastCommittedRound EXCEPT ![v] = lcr]
            /\ dag' = [dag EXCEPT ![v] =
                         {c \in @ : /\ c.round >= last[c.origin]
                                    /\ c.round + GcDepth >= lcr}]
            /\ pending' = [pending EXCEPT ![v] = @ \ {leader}]
            /\ UNCHANGED <<parents, received, redelivered>>
  BY DEF CommitLeader
<1> DEFINE batch == OrderDag(v, leader)
           last  == LastCommittedAfter(v, batch)
           lcr   == Max({last[a] : a \in Authorities})
           sub   == [leader |-> leader, certificates |-> batch]
<1>2. /\ batch \subseteq dag[v]
      /\ \A c \in batch : c.round # lastCommitted[v][c.origin]
      /\ last \in [Authorities -> Nat]
      /\ \A a \in Authorities : lastCommitted[v][a] <= last[a]
      /\ \A c \in batch : c.round <= last[c.origin]
      /\ lcr \in Nat
      /\ \A a \in Authorities : last[a] <= lcr
      /\ \E a \in Authorities : last[a] = lcr
      /\ lastCommittedRound[v] <= lcr
  BY CommitFacts
<1>3. /\ log' = [log EXCEPT ![v] = Append(@, sub)]
      /\ lastCommitted' = [lastCommitted EXCEPT ![v] = last]
      /\ lastCommittedRound' = [lastCommittedRound EXCEPT ![v] = lcr]
      /\ dag' = [dag EXCEPT ![v] = {c \in @ : /\ c.round >= last[c.origin]
                                              /\ c.round + GcDepth >= lcr}]
      /\ pending' = [pending EXCEPT ![v] = @ \ {leader}]
      /\ UNCHANGED <<parents, received, redelivered>>
  BY <1>1
<1> HIDE DEF batch, last, lcr
<1>4. sub \in [leader : Certificate, certificates : SUBSET Certificate]
  BY <1>2 DEF TypeOK
<1>5. TypeOK'
  <2>1. log' \in [Validators -> Seq([leader : Certificate, certificates : SUBSET Certificate])]
    <3> DEFINE T == [leader : Certificate, certificates : SUBSET Certificate]
    <3>1. log \in [Validators -> Seq(T)]
      BY DEF TypeOK
    <3>2. sub \in T
      BY <1>4
    <3> HIDE DEF T, sub
    <3>3. log' \in [Validators -> Seq(T)]
      BY <1>3, <3>1, <3>2
    <3> QED
      BY <3>3 DEF T
  <2>2. lastCommitted' \in [Validators -> [Authorities -> Nat]]
    BY <1>2, <1>3 DEF TypeOK
  <2>3. lastCommittedRound' \in [Validators -> Nat]
    BY <1>2, <1>3 DEF TypeOK
  <2>4. /\ dag' \in [Validators -> SUBSET Certificate]
        /\ \A w \in Validators : dag'[w] \subseteq received'[w] \cup Genesis
    BY <1>3 DEF TypeOK
  <2> QED
    BY <1>3, <2>1, <2>2, <2>3, <2>4 DEF TypeOK
<1>6. LastInv'
  BY <1>2, <1>3 DEF LastInv, TypeOK
<1>7. RecentInv'
  <2> SUFFICES ASSUME NEW w \in Validators, NEW c \in received'[w],
                      c.round > lastCommittedRound'[w]
               PROVE  c \in dag'[w]
    BY DEF RecentInv
  <2>1. CASE w # v
    BY <1>3, <2>1 DEF RecentInv, TypeOK
  <2>2. CASE w = v
    <3>1. c \in received[v] /\ c.round > lcr
      BY <1>3, <2>2 DEF TypeOK
    <3>2. c \in Certificate /\ c.round \in Nat /\ c.origin \in Authorities
      BY <3>1, DagFacts DEF TypeOK, Certificate
    <3>3. c \in dag[v]
      BY <1>2, <3>1, <3>2 DEF RecentInv, TypeOK
    <3>4. c.round >= last[c.origin] /\ c.round + GcDepth >= lcr
      BY <1>2, <3>1, <3>2, TuskAssumption
    <3> QED
      BY <1>3, <2>2, <3>3, <3>4 DEF TypeOK
  <2> QED
    BY <2>1, <2>2
<1>8. HistoryInv'
  BY <1>3 DEF HistoryInv
<1>9. DOMAIN log'[v] = DOMAIN log[v] \cup {Len(log[v]) + 1}
  BY <1>3, <1>4 DEF TypeOK
<1>10. /\ log'[v][Len(log[v]) + 1] = sub
       /\ \A i \in DOMAIN log[v] : log'[v][i] = log[v][i]
       /\ Len(log[v]) + 1 \notin DOMAIN log[v]
  BY <1>3, <1>4 DEF TypeOK
<1>11. \A w \in Validators \ {v} :
         /\ log'[w] = log[w]
         /\ lastCommitted'[w] = lastCommitted[w]
         /\ dag'[w] = dag[w]
  BY <1>3 DEF TypeOK
<1>12. lastCommitted'[v] = last /\ received' = received
  BY <1>3 DEF TypeOK
<1>13. CommittedInv'
  <2> SUFFICES ASSUME NEW w \in Validators, NEW i \in DOMAIN log'[w],
                      NEW c \in log'[w][i].certificates
               PROVE  /\ c \in received[w] \cup Genesis
                      /\ c.round <= lastCommitted'[w][c.origin]
    BY <1>12 DEF CommittedInv
  <2>1. CASE w # v
    BY <1>11, <2>1 DEF CommittedInv
  <2>2. CASE w = v /\ i \in DOMAIN log[v]
    <3>1. c \in received[v] \cup Genesis /\ c.round <= lastCommitted[v][c.origin]
      BY <1>10, <2>2 DEF CommittedInv
    <3>2. c \in Certificate
      <4>1. received[v] \subseteq Certificate
        BY DagFacts DEF TypeOK
      <4>2. Genesis \subseteq Certificate
        BY DEF Genesis, Certificate
      <4> QED
        BY <3>1, <4>1, <4>2
    <3>3. /\ c.round \in Nat /\ c.origin \in Authorities
          /\ lastCommitted[v][c.origin] \in Nat /\ last[c.origin] \in Nat
      BY <1>2, <3>2 DEF TypeOK, Certificate
    <3> QED
      BY <1>2, <1>12, <2>2, <3>1, <3>3
  <2>3. CASE w = v /\ i = Len(log[v]) + 1
    BY <1>2, <1>10, <1>12, <2>3 DEF TypeOK
  <2> QED
    BY <1>9, <2>1, <2>2, <2>3
<1>14. SkippedInv'
  <2> SUFFICES ASSUME redelivered' = 0,
                      NEW w \in Validators, NEW i \in DOMAIN log'[w],
                      NEW c \in log'[w][i].certificates \cap dag'[w]
               PROVE  c.round = lastCommitted'[w][c.origin]
    BY DEF SkippedInv
  <2>1. CASE w # v
    BY <1>3, <1>11, <2>1 DEF SkippedInv
  <2>2. CASE w = v
    <3>1. c.round >= last[c.origin] /\ c \in Certificate
      BY <1>3, <2>2 DEF TypeOK
    <3>2. c.round <= last[c.origin]
      BY <1>12, <1>13, <2>2 DEF CommittedInv
    <3>3. c.round \in Nat /\ last[c.origin] \in Nat
      BY <1>2, <3>1 DEF Certificate
    <3> QED
      BY <1>12, <2>2, <3>1, <3>2, <3>3
  <2> QED
    BY <2>1, <2>2
<1>15. CommitOnce'
  <2> SUFFICES ASSUME redelivered' = 0, NEW w \in Validators,
                      NEW i \in DOMAIN log'[w], NEW j \in DOMAIN log'[w], i # j
               PROVE  log'[w][i].certificates \cap log'[w][j].certificates = {}
    BY DEF CommitOnce, NoDoubleCommit
  <2>1. redelivered = 0
    BY <1>3
  <2>2. ASSUME NEW k \in DOMAIN log[v]
        PROVE  log[v][k].certificates \cap batch = {}
    BY <1>2, <2>1 DEF SkippedInv
  <2>3. CASE w # v
    BY <1>11, <2>1, <2>3 DEF CommitOnce, NoDoubleCommit
  <2>4. CASE w = v /\ i \in DOMAIN log[v] /\ j \in DOMAIN log[v]
    BY <1>10, <2>1, <2>4 DEF CommitOnce, NoDoubleCommit
  <2>5. CASE w = v /\ (i = Len(log[v]) + 1 \/ j = Len(log[v]) + 1)
    BY <1>9, <1>10, <2>2, <2>5
  <2> QED
    BY <1>9, <2>3, <2>4, <2>5
<1> QED
  BY <1>5, <1>6, <1>7, <1>8, <1>13, <1>14, <1>15

LEMMA NextInv == Inv /\ [Next]_vars => Inv'
<1> SUFFICES ASSUME Inv, [Next]_vars PROVE Inv'
  OBVIOUS
<1>1. CASE UNCHANGED vars
  <2>1. /\ parents' = parents /\ received' = received /\ dag' = dag
        /\ lastCommitted' = lastCommitted
        /\ lastCommittedRound' = lastCommittedRound
        /\ pending' = pending /\ log' = log /\ redelivered' = redelivered
    BY <1>1 DEF vars
  <2>2. TypeOK' /\ LastInv'
    BY <2>1 DEF Inv, TypeOK, LastInv
  <2>3. RecentInv' /\ HistoryInv'
    BY <2>1 DEF Inv, RecentInv, HistoryInv
  <2>4. CommittedInv'
    BY <2>1 DEF Inv, CommittedInv
  <2>5. SkippedInv' /\ CommitOnce'
    BY <2>1 DEF Inv, SkippedInv, CommitOnce, NoDoubleCommit
  <2> QED
    BY <2>2, <2>3, <2>4, <2>5 DEF Inv
<1>2. ASSUME NEW v \in Validators, NEW c \in DOMAIN parents, Deliver(v, c)
      PROVE  Inv'
  BY <1>2, DeliverInv
<1>3. ASSUME NEW v \in Validators, NEW c \in DOMAIN parents, Redeliver(v, c)
      PROVE  Inv'
  BY <1>3, RedeliverInv
<1>4. ASSUME NEW v \in Validators, CommitLeader(v)
      PROVE  Inv'
  BY <1>4, CommitLeaderInv
<1> QED
  BY <1>1, <1>2, <1>3, <1>4 DEF Next

LEMMA Invariance == Spec => []Inv
<1> QED
  BY InitInv, NextInv, PTL DEF Spec

\* The state of the Consensus task is well-formed for every DAG and schedule.
THEOREM TypeCorrect == Spec => []TypeOK
<1>1. Inv => TypeOK
  BY DEF Inv
<1> QED
  BY <1>1, Invariance, PTL

\* State::last_committed does prevent a certificate from being committed twice,
\* provided the primary never passes one on again.
THEOREM CommittedOnce == Spec => []CommitOnce
<1>1. Inv => CommitOnce
  BY DEF Inv
<1> QED
  BY <1>1, Invariance, PTL

\* Even with certificates passed on again, the cleanup of State::update never
\* takes a parent that run, linked or order_dag may still need.
THEOREM HistoryKept == Spec => []WholeHistory
<1>1. Inv => WholeHistory
  <2> SUFFICES ASSUME Inv, NEW v \in Validators, NEW c \in dag[v] \ Genesis,
                      NEW p \in parents[c], p.round > lastCommittedRound[v]
               PROVE  p \in dag[v]
    BY DEF WholeHistory
  <2>1. c \in received[v]
    BY DEF Inv, TypeOK
  <2>2. p \in received[v] \cup Genesis
    BY <2>1 DEF Inv, HistoryInv
  <2>3. p \notin Genesis
    BY DEF Inv, TypeOK, Genesis
  <2> QED
    BY <2>2, <2>3 DEF Inv, RecentInv
<1> QED
  BY <1>1, Invariance, PTL

-----------------------------------------------------------------------------
(* Walking down the DAG, and the leaders found on the way *)

\* One step down: the certificates of D at round r that one of X cites.
CitedBy(D, r, X) == {c \in D : c.round = r /\ \E x \in X : c \in parents[x]}

IsWalk(w, D, from, to) ==
  /\ w[from.round] = {from}
  /\ \A r \in to .. from.round : r < from.round => w[r] = CitedBy(D, r, w[r + 1])

LEMMA WalkDownSteps ==
  ASSUME NEW D, NEW from, from.round \in Nat, NEW to \in Nat, to <= from.round
  PROVE  IsWalk(WalkDown(D, from, to), D, from, to)
<1>1. PICK hi \in Nat : hi = from.round
  OBVIOUS
<1> DEFINE V == SUBSET (D \cup {from})
           step == [y \in (to .. hi) \X V |-> CitedBy(D, y[1], y[2])]
           Is(f) == f = [r \in to .. hi |-> IF r = hi THEN {from} ELSE CitedBy(D, r, f[r + 1])]
<1>2. WalkDown(D, from, to) = CHOOSE f : Is(f)
  BY <1>1 DEF WalkDown, CitedBy
<1>3. \A r, X : CitedBy(D, r, X) \in V
  BY DEF CitedBy
<1>4. PICK e : e = {from} /\ e \in V
  OBVIOUS
<1> HIDE DEF V
<1>5. IsStepDown(step, to, hi, V)
  BY <1>3 DEF IsStepDown
<1>6. PICK f : Descends(f, e, step, to, hi, V)
  <2> HIDE DEF step
  <2> QED
    BY <1>1, <1>4, <1>5, DownwardRecursion
<1>7. Is(f)
  <2>1. ASSUME NEW r \in to .. hi, r # hi PROVE f[r] = CitedBy(D, r, f[r + 1])
    <3>1. r + 1 \in to .. hi /\ r < hi
      BY <2>1
    <3>2. f[r + 1] \in V /\ f[r] = step[<<r, f[r + 1]>>]
      <4> HIDE DEF step
      <4> QED
        BY <1>6, <3>1 DEF Descends
    <3> QED
      BY <3>2
  <2> HIDE DEF step
  <2> QED
    BY <1>4, <1>6, <2>1 DEF Descends
<1>8. PICK g : g = WalkDown(D, from, to) /\ Is(g)
  <2> HIDE DEF Is
  <2> QED
    BY <1>2, <1>7
<1>9. g[hi] = {from}
  BY <1>1, <1>8
<1>10. ASSUME NEW r \in to .. hi, r < hi PROVE g[r] = CitedBy(D, r, g[r + 1])
  <2>1. r # hi
    BY <1>1, <1>10
  <2> QED
    BY <1>8, <2>1
<1> HIDE DEF Is
<1> QED
  BY <1>1, <1>8, <1>9, <1>10 DEF IsWalk

LEMMA CurrentLeaderSteps ==
  ASSUME NEW D, NEW leader, leader.round \in Nat, NEW lcr \in Nat, lcr + 2 <= leader.round
  PROVE  /\ CurrentLeader(D, leader, lcr)[leader.round] = leader
         /\ \A r \in lcr + 2 .. leader.round : r < leader.round =>
              CurrentLeader(D, leader, lcr)[r] =
                IF /\ (leader.round - r) % 2 = 0
                   /\ LeaderCertificate(r) \in D
                   /\ Linked(D, CurrentLeader(D, leader, lcr)[r + 1], LeaderCertificate(r))
                THEN LeaderCertificate(r)
                ELSE CurrentLeader(D, leader, lcr)[r + 1]
<1>1. PICK hi \in Nat, lo \in Nat : hi = leader.round /\ lo = lcr + 2
  OBVIOUS
<1> DEFINE V == {leader} \cup {LeaderCertificate(r) : r \in Nat}
           Down(r, x) == IF /\ (leader.round - r) % 2 = 0
                            /\ LeaderCertificate(r) \in D
                            /\ Linked(D, x, LeaderCertificate(r))
                         THEN LeaderCertificate(r) ELSE x
           step == [y \in (lo .. hi) \X V |-> Down(y[1], y[2])]
           Is(f) == f = [r \in lo .. hi |-> IF r = hi THEN leader ELSE Down(r, f[r + 1])]
<1>2. CurrentLeader(D, leader, lcr) = CHOOSE f : Is(f)
  BY <1>1, Zenon DEF CurrentLeader
<1>3. \A r \in lo .. hi, x \in V : Down(r, x) \in V
  <2>1. lo .. hi \subseteq Nat
    BY <1>1
  <2> QED
    BY <2>1
<1>4. leader \in V
  OBVIOUS
<1> HIDE DEF V, Down
<1>5. IsStepDown(step, lo, hi, V)
  BY <1>3 DEF IsStepDown
<1>6. PICK f : Descends(f, leader, step, lo, hi, V)
  <2> HIDE DEF step
  <2> QED
    BY <1>1, <1>4, <1>5, DownwardRecursion
<1>7. Is(f)
  <2>1. ASSUME NEW r \in lo .. hi, r # hi PROVE f[r] = Down(r, f[r + 1])
    <3>1. r + 1 \in lo .. hi /\ r < hi
      BY <2>1
    <3>2. f[r + 1] \in V /\ f[r] = step[<<r, f[r + 1]>>]
      <4> HIDE DEF step
      <4> QED
        BY <1>6, <3>1 DEF Descends
    <3> QED
      BY <3>2
  <2> HIDE DEF step
  <2> QED
    BY <1>6, <2>1 DEF Descends
<1>8. PICK g : g = CurrentLeader(D, leader, lcr) /\ Is(g)
  <2> HIDE DEF Is
  <2> QED
    BY <1>2, <1>7
<1>9. g[hi] = leader /\ \A r \in lo .. hi : r < hi => g[r] = Down(r, g[r + 1])
  BY <1>1, <1>8
<1> QED
  BY <1>1, <1>8, <1>9 DEF Down

\* A part of the DAG that has the parents, above a round, of what it has.
Closed(D, low) ==
  /\ D \subseteq DOMAIN parents \cup Genesis
  /\ \A c \in D \ Genesis : \A p \in parents[c] : p.round > low => p \in D

\* What IsCertifiedDag gives of the DAG chosen at the start.
LEMMA CertifiedDag ==
  ASSUME TypeOK
  PROVE  /\ DOMAIN parents \subseteq Certificate \ Genesis
         /\ \A c \in DOMAIN parents :
              /\ c \in Certificate /\ c.round \in Nat /\ c.round # 0 /\ c.origin \in Authorities
              /\ parents[c] \subseteq DOMAIN parents \cup Genesis
              /\ \A p \in parents[c] : p.round + 1 = c.round
              /\ IsQuorum({p.origin : p \in parents[c]})
<1>1. IsCertifiedDag(parents)
  BY TuskAssumption DEF TypeOK
<1>2. \A c \in DOMAIN parents : c \in Certificate /\ c \notin Genesis
  BY <1>1 DEF IsCertifiedDag
<1>3. \A c \in DOMAIN parents : c.round \in Nat /\ c.round # 0 /\ c.origin \in Authorities
  BY <1>2 DEF Certificate, Genesis
<1> QED
  BY <1>1, <1>2, <1>3 DEF IsCertifiedDag

LEMMA WholeDagClosed ==
  ASSUME TypeOK PROVE Closed(DOMAIN parents, 0)
<1> SUFFICES ASSUME NEW c \in DOMAIN parents, NEW p \in parents[c], p.round > 0
             PROVE  p \in DOMAIN parents
  BY DEF Closed
<1>1. p \in DOMAIN parents \cup Genesis
  BY CertifiedDag
<1> QED
  BY <1>1 DEF Genesis

\* Above that round, a walk through the part is a walk through the whole DAG.
LEMMA WalkIsGlobal ==
  ASSUME TypeOK, NEW D, NEW low \in Nat, Closed(D, low),
         NEW from \in D \ Genesis, NEW to \in Nat, low < to, to <= from.round
  PROVE  \A r \in to .. from.round :
           /\ WalkDown(D, from, to)[r] = WalkDown(DOMAIN parents, from, to)[r]
           /\ WalkDown(D, from, to)[r] \subseteq D \ Genesis
<1>1. from \in DOMAIN parents /\ from.round \in Nat
  BY CertifiedDag DEF Closed
<1>2. PICK w, u : w = WalkDown(D, from, to) /\ u = WalkDown(DOMAIN parents, from, to)
  OBVIOUS
<1>3. /\ w[from.round] = {from} /\ u[from.round] = {from}
      /\ \A r \in to .. from.round : r < from.round =>
           /\ w[r] = CitedBy(D, r, w[r + 1])
           /\ u[r] = CitedBy(DOMAIN parents, r, u[r + 1])
  <2>1. IsWalk(w, D, from, to) /\ IsWalk(u, DOMAIN parents, from, to)
    BY <1>1, <1>2, WalkDownSteps
  <2> QED
    BY <2>1 DEF IsWalk
<1> DEFINE Good == {r \in to .. from.round : w[r] = u[r] /\ w[r] \subseteq D \ Genesis}
<1>4. from.round \in Good
  <2>1. from.round \in to .. from.round
    BY <1>1
  <2>2. w[from.round] = u[from.round] /\ w[from.round] \subseteq D \ Genesis
    BY <1>3
  <2> QED
    BY <2>1, <2>2
<1>5. ASSUME NEW r \in to .. from.round, r < from.round, r + 1 \in Good PROVE r \in Good
  <2>1. w[r + 1] = u[r + 1] /\ w[r + 1] \subseteq D \ Genesis
    BY <1>5
  <2>2. ASSUME NEW c \in w[r] PROVE c \in u[r] /\ c \in D \ Genesis
    <3>1. c \in D /\ c.round = r /\ \E x \in u[r + 1] : c \in parents[x]
      BY <1>3, <1>5, <2>1 DEF CitedBy
    <3>2. c \notin Genesis
      BY <3>1 DEF Genesis
    <3>3. c \in DOMAIN parents
      BY <3>1, <3>2 DEF Closed
    <3> QED
      BY <1>3, <1>5, <3>1, <3>2, <3>3 DEF CitedBy
  <2>3. ASSUME NEW c \in u[r] PROVE c \in w[r]
    <3>1. PICK x \in w[r + 1] : c \in DOMAIN parents /\ c.round = r /\ c \in parents[x]
      BY <1>3, <1>5, <2>1 DEF CitedBy
    <3>2. c \in D
      BY <2>1, <3>1 DEF Closed
    <3> QED
      BY <1>3, <1>5, <3>1, <3>2 DEF CitedBy
  <2> QED
    BY <2>2, <2>3
<1>6. to .. from.round \subseteq Good
  <2> HIDE DEF Good
  <2> QED
    BY <1>1, <1>4, <1>5, InductionDown
<1> QED
  BY <1>2, <1>6

LEMMA LinkedIsGlobal ==
  ASSUME TypeOK, NEW D, NEW low \in Nat, Closed(D, low),
         NEW x \in D \ Genesis, NEW prev, prev.round \in Nat,
         low < prev.round, prev.round <= x.round
  PROVE  /\ Linked(D, x, prev) <=> Linked(DOMAIN parents, x, prev)
         /\ Linked(D, x, prev) => prev \in D \ Genesis
<1>1. x.round \in Nat
  BY CertifiedDag DEF Closed
<1>2. prev.round \in prev.round .. x.round
  BY <1>1
<1>3. /\ WalkDown(D, x, prev.round)[prev.round] = WalkDown(DOMAIN parents, x, prev.round)[prev.round]
      /\ WalkDown(D, x, prev.round)[prev.round] \subseteq D \ Genesis
  BY <1>2, WalkIsGlobal
<1> QED
  BY <1>3 DEF Linked

\* The leader that the loop of order_leaders holds.
LEMMA CurrentLeaderFacts ==
  ASSUME TypeOK, NEW D, NEW low \in Nat, Closed(D, low),
         NEW leader \in D \ Genesis, leader = LeaderCertificate(leader.round),
         low + 2 <= leader.round, NEW r \in low + 2 .. leader.round
  PROVE  LET l == CurrentLeader(D, leader, low)[r]
         IN  /\ l \in D \ Genesis /\ l = LeaderCertificate(l.round)
             /\ l.round \in r .. leader.round
             /\ (leader.round - l.round) % 2 = 0
             /\ l = CurrentLeader(DOMAIN parents, leader, 0)[r]
<1>1. leader \in DOMAIN parents /\ leader.round \in Nat
  BY CertifiedDag DEF Closed
<1>2. PICK f, g : /\ f = CurrentLeader(D, leader, low)
                  /\ g = CurrentLeader(DOMAIN parents, leader, 0)
  OBVIOUS
<1>3. /\ f[leader.round] = leader /\ g[leader.round] = leader
      /\ \A i \in low + 2 .. leader.round : i < leader.round =>
           /\ f[i] = IF /\ (leader.round - i) % 2 = 0
                        /\ LeaderCertificate(i) \in D
                        /\ Linked(D, f[i + 1], LeaderCertificate(i))
                     THEN LeaderCertificate(i) ELSE f[i + 1]
           /\ g[i] = IF /\ (leader.round - i) % 2 = 0
                        /\ LeaderCertificate(i) \in DOMAIN parents
                        /\ Linked(DOMAIN parents, g[i + 1], LeaderCertificate(i))
                     THEN LeaderCertificate(i) ELSE g[i + 1]
  <2>1. \A i \in low + 2 .. leader.round : i \in 0 + 2 .. leader.round
    BY <1>1
  <2>2. 0 + 2 <= leader.round
    BY <1>1
  <2> QED
    BY <1>1, <1>2, <2>1, <2>2, CurrentLeaderSteps
<1> DEFINE Is(i, l) == /\ l \in D \ Genesis /\ l = LeaderCertificate(l.round)
                       /\ l.round \in i .. leader.round
                       /\ (leader.round - l.round) % 2 = 0
           Good == {i \in low + 2 .. leader.round : f[i] = g[i] /\ Is(i, f[i])}
<1>4. leader.round \in Good
  BY <1>1, <1>3
<1>5. ASSUME NEW i \in low + 2 .. leader.round, i < leader.round, i + 1 \in Good PROVE i \in Good
  <2>1. PICK x : x = f[i + 1] /\ x = g[i + 1] /\ Is(i + 1, x)
    BY <1>5
  <2>2. PICK prev : prev = LeaderCertificate(i)
    OBVIOUS
  <2>3. prev.round = i /\ i \in Nat /\ low < i /\ prev.round <= x.round
    BY <1>1, <1>5, <2>1, <2>2 DEF LeaderCertificate
  <2>4. /\ Linked(D, x, prev) <=> Linked(DOMAIN parents, x, prev)
        /\ Linked(D, x, prev) => prev \in D \ Genesis
    BY <2>1, <2>3, LinkedIsGlobal
  <2>5. D \ Genesis \subseteq DOMAIN parents
    BY DEF Closed
  <2>6. CASE (leader.round - i) % 2 = 0 /\ Linked(D, x, prev)
    <3>1. f[i] = prev /\ g[i] = prev
      BY <1>3, <1>5, <2>1, <2>2, <2>4, <2>5, <2>6
    <3>2. Is(i, prev)
      BY <1>1, <1>5, <2>2, <2>3, <2>4, <2>6
    <3> QED
      BY <3>1, <3>2
  <2>7. CASE ~ ((leader.round - i) % 2 = 0 /\ Linked(D, x, prev))
    <3>1. f[i] = x /\ g[i] = x
      BY <1>3, <1>5, <2>1, <2>2, <2>4, <2>5, <2>7
    <3>2. Is(i, x)
      BY <1>1, <1>5, <2>1
    <3> QED
      BY <3>1, <3>2
  <2> QED
    BY <2>6, <2>7
<1>6. low + 2 .. leader.round \subseteq Good
  <2> HIDE DEF Good
  <2>1. low + 2 \in Nat
    OBVIOUS
  <2> QED
    BY <1>1, <1>4, <1>5, <2>1, InductionDown
<1> QED
  BY <1>2, <1>6

-----------------------------------------------------------------------------
(* Agreement on the leaders: chains *)

\* What a validator that has every certificate, and committed nothing, would
\* collect from a leader down.
Chain(l) == OrderLeaders(DOMAIN parents, l, 0)

\* A leader of an even round that has enough support in the whole DAG.
IsLeader(l) == /\ l \in DOMAIN parents /\ l.round >= 2 /\ l.round % 2 = 0
               /\ l = LeaderCertificate(l.round)
Direct(l) == IsLeader(l) /\ HasSupport(DOMAIN parents, l)

\* A quorum is never empty.
LEMMA QuorumNotEmpty == ~ IsQuorum({})
<1>1. StakeOf({}) = 0
  BY FS_EmptySet DEF StakeOf, Units
<1>2. TotalStake \in Nat
  BY UnitsFinite DEF TotalStake
<1> QED
  BY <1>1, <1>2 DEF IsQuorum, QuorumThreshold

LEMMA SomeParent ==
  ASSUME TypeOK, NEW c \in DOMAIN parents, c.round > 1
  PROVE  \E p \in DOMAIN parents : p \in parents[c] /\ p.round + 1 = c.round
<1>1. PICK p \in parents[c] : TRUE
  BY CertifiedDag, QuorumNotEmpty
<1>2. p \in DOMAIN parents \cup Genesis /\ p.round + 1 = c.round /\ c.round \in Nat
  BY CertifiedDag
<1> QED
  BY <1>2 DEF Genesis

\* The parents of a certificate two rounds above a supported leader are a quorum,
\* so that one of them supports it: no later certificate can miss it.
LEMMA SupporterAmongParents ==
  ASSUME TypeOK, NEW l \in DOMAIN parents, HasSupport(DOMAIN parents, l),
         NEW y \in DOMAIN parents, y.round = l.round + 2
  PROVE  \E p \in DOMAIN parents : p \in parents[y] /\ p.round = l.round + 1 /\ l \in parents[p]
<1> DEFINE sup == {x \in DOMAIN parents : x.round = l.round + 1 /\ l \in parents[x]}
           S == {x.origin : x \in sup}
           Q == {p.origin : p \in parents[y]}
<1>1. l.round \in Nat /\ y.round \in Nat
  BY CertifiedDag
<1>2. ASSUME NEW p \in parents[y]
      PROVE  p \in DOMAIN parents /\ p.round = l.round + 1
  <2>1. p.round + 1 = y.round /\ p \in DOMAIN parents \cup Genesis
    BY CertifiedDag
  <2>2. p.round # 0 /\ p.round = l.round + 1
    <3>1. p.round \in Nat
      <4>1. p \in DOMAIN parents => p.round \in Nat
        BY CertifiedDag
      <4>2. p \in Genesis => p.round = 0
        BY DEF Genesis
      <4> QED
        BY <2>1, <4>1, <4>2
    <3> QED
      BY <1>1, <2>1, <3>1
  <2> QED
    BY <2>1, <2>2 DEF Genesis
<1>3. \A x \in DOMAIN parents : x.origin \in Authorities
  BY CertifiedDag
<1>4. S \in SUBSET Authorities /\ Q \in SUBSET Authorities
  BY <1>2, <1>3
<1>5. IsQuorum(Q)
  BY CertifiedDag
<1>6. StakeOf(S) >= ValidityThreshold
  BY DEF HasSupport
<1>7. Q \cap S # {}
  <2> HIDE DEF Q, S
  <2> QED
    BY <1>4, <1>5, <1>6, SupportMeetsQuorum
<1>8. PICK p \in parents[y], x \in sup : p.origin = x.origin
  BY <1>7
<1>9. p \in Certificate /\ x \in Certificate /\ p.round = x.round
  BY <1>2, <1>8, CertifiedDag
<1>10. p = x
  BY <1>8, <1>9 DEF Certificate
<1> QED
  BY <1>2, <1>8, <1>10

LEMMA LinkedToDirect ==
  ASSUME TypeOK, NEW l \in DOMAIN parents, HasSupport(DOMAIN parents, l),
         NEW x \in DOMAIN parents, l.round + 2 <= x.round
  PROVE  Linked(DOMAIN parents, x, l)
<1>1. l.round \in Nat /\ x.round \in Nat /\ l.round # 0
  BY CertifiedDag
<1>2. PICK w : w = WalkDown(DOMAIN parents, x, l.round)
  OBVIOUS
<1>3. /\ w[x.round] = {x}
      /\ \A r \in l.round .. x.round : r < x.round =>
           w[r] = CitedBy(DOMAIN parents, r, w[r + 1])
  <2>1. l.round <= x.round
    BY <1>1
  <2>2. IsWalk(WalkDown(DOMAIN parents, x, l.round), DOMAIN parents, x, l.round)
    BY <1>1, <2>1, WalkDownSteps
  <2> QED
    BY <1>2, <2>2 DEF IsWalk
<1> DEFINE Good == {r \in l.round + 2 .. x.round : \E y \in w[r] : y \in DOMAIN parents /\ y.round = r}
<1>4. x.round \in Good
  BY <1>1, <1>3
<1>5. ASSUME NEW r \in l.round + 2 .. x.round, r < x.round, r + 1 \in Good PROVE r \in Good
  <2>1. PICK y \in w[r + 1] : y \in DOMAIN parents /\ y.round = r + 1
    BY <1>5
  <2>2. PICK p \in DOMAIN parents : p \in parents[y] /\ p.round = r
    <3>1. y.round > 1 /\ r \in Nat
      BY <1>1, <2>1
    <3>2. PICK p \in DOMAIN parents : p \in parents[y] /\ p.round + 1 = y.round
      BY <2>1, <3>1, SomeParent
    <3>3. p.round \in Nat
      BY CertifiedDag
    <3> QED
      BY <2>1, <3>1, <3>2, <3>3
  <2>3. p \in w[r]
    <3>1. r \in l.round .. x.round
      BY <1>1
    <3> QED
      BY <1>3, <1>5, <2>1, <2>2, <3>1 DEF CitedBy
  <2> QED
    BY <2>2, <2>3
<1>6. l.round + 2 .. x.round \subseteq Good
  <2> HIDE DEF Good
  <2>1. l.round + 2 \in Nat
    BY <1>1
  <2> QED
    BY <1>1, <1>4, <1>5, <2>1, InductionDown
<1>7. PICK y \in w[l.round + 2] : y \in DOMAIN parents /\ y.round = l.round + 2
  <2>1. l.round + 2 \in l.round + 2 .. x.round
    BY <1>1
  <2> QED
    BY <1>6, <2>1
<1>8. PICK p \in DOMAIN parents : p \in parents[y] /\ p.round = l.round + 1 /\ l \in parents[p]
  BY <1>7, SupporterAmongParents
<1>9. p \in w[l.round + 1]
  <2>1. l.round + 1 \in l.round .. x.round /\ l.round + 1 < x.round /\ l.round + 1 + 1 = l.round + 2
    BY <1>1
  <2>2. w[l.round + 1] = CitedBy(DOMAIN parents, l.round + 1, w[l.round + 2])
    BY <1>3, <2>1
  <2> QED
    BY <1>7, <1>8, <2>2 DEF CitedBy
<1>10. l \in w[l.round]
  <2>1. l.round \in l.round .. x.round /\ l.round < x.round
    BY <1>1
  <2>2. w[l.round] = CitedBy(DOMAIN parents, l.round, w[l.round + 1])
    BY <1>3, <2>1
  <2> QED
    BY <1>8, <1>9, <2>2 DEF CitedBy
<1> QED
  BY <1>2, <1>10 DEF Linked

\* The leaders that a validator collects are those of the chain above its last
\* committed round.
LEMMA OrderLeadersIsGlobal ==
  ASSUME TypeOK, NEW D, NEW low \in Nat, Closed(D, low),
         NEW leader \in D \ Genesis, leader = LeaderCertificate(leader.round),
         low + 2 <= leader.round
  PROVE  OrderLeaders(D, leader, low) = {l \in Chain(leader) : l.round >= low + 2}
<1>1. leader.round \in Nat /\ leader \in DOMAIN parents
  BY CertifiedDag DEF Closed
<1>2. ASSUME NEW r \in low + 2 .. leader.round
      PROVE  /\ CurrentLeader(D, leader, low)[r] = CurrentLeader(DOMAIN parents, leader, 0)[r]
             /\ CurrentLeader(D, leader, low)[r] \in D \ Genesis
  BY CurrentLeaderFacts
<1>3. D \ Genesis \subseteq DOMAIN parents
  BY DEF Closed
<1>4. ASSUME NEW l \in OrderLeaders(D, leader, low)
      PROVE  l \in Chain(leader) /\ l.round >= low + 2
  <2>1. /\ l.round \in low + 2 .. leader.round /\ l = LeaderCertificate(l.round)
        /\ l = CurrentLeader(D, leader, low)[l.round]
    BY <1>4 DEF OrderLeaders
  <2>2. l = CurrentLeader(DOMAIN parents, leader, 0)[l.round] /\ l \in DOMAIN parents
    BY <1>2, <1>3, <2>1
  <2>3. l.round \in 0 + 2 .. leader.round /\ l.round >= low + 2
    BY <1>1, <2>1
  <2> QED
    BY <2>1, <2>2, <2>3 DEF Chain, OrderLeaders
<1>5. ASSUME NEW l \in Chain(leader), l.round >= low + 2
      PROVE  l \in OrderLeaders(D, leader, low)
  <2>1. /\ l.round \in 0 + 2 .. leader.round /\ l = LeaderCertificate(l.round)
        /\ l = CurrentLeader(DOMAIN parents, leader, 0)[l.round]
    BY DEF Chain, OrderLeaders
  <2>2. l.round \in low + 2 .. leader.round
    BY <1>1, <1>5, <2>1
  <2>3. l = CurrentLeader(D, leader, low)[l.round] /\ l \in D
    BY <1>2, <2>1, <2>2
  <2> QED
    BY <2>1, <2>2, <2>3 DEF OrderLeaders
<1> QED
  BY <1>4, <1>5

LEMMA ChainFacts ==
  ASSUME TypeOK, NEW l, IsLeader(l)
  PROVE  /\ l \in Chain(l)
         /\ \A k \in Chain(l) : IsLeader(k) /\ k.round <= l.round /\ k.round \in Nat
<1>1. l.round \in Nat /\ l \in DOMAIN parents \ Genesis /\ 0 + 2 <= l.round
  <2>1. l \in DOMAIN parents /\ l.round >= 2
    BY DEF IsLeader
  <2>2. l.round \in Nat /\ l \notin Genesis
    BY <2>1, CertifiedDag
  <2> QED
    BY <2>1, <2>2
<1>2. CurrentLeader(DOMAIN parents, l, 0)[l.round] = l
  BY <1>1, CurrentLeaderSteps
<1>3. l \in Chain(l)
  BY <1>1, <1>2 DEF Chain, OrderLeaders, IsLeader
<1>4. ASSUME NEW k \in Chain(l) PROVE IsLeader(k) /\ k.round <= l.round /\ k.round \in Nat
  <2>1. /\ k \in DOMAIN parents /\ k.round \in 0 + 2 .. l.round /\ k = LeaderCertificate(k.round)
        /\ k = CurrentLeader(DOMAIN parents, l, 0)[k.round]
    BY DEF Chain, OrderLeaders
  <2>2. (l.round - k.round) % 2 = 0
    BY <1>1, <2>1, WholeDagClosed, CurrentLeaderFacts DEF IsLeader
  <2>3. k.round \in Nat /\ k.round >= 2 /\ k.round <= l.round
    BY <1>1, <2>1
  <2>4. k.round % 2 = 0
    BY <1>1, <2>2, <2>3 DEF IsLeader
  <2> QED
    BY <2>1, <2>3, <2>4 DEF IsLeader
<1> QED
  BY <1>3, <1>4

\* The chain of every later leader passes through a supported one, and from there
\* down it is its chain.
LEMMA ChainThroughDirect ==
  ASSUME TypeOK, NEW l, Direct(l), NEW m, IsLeader(m), l.round <= m.round
  PROVE  Chain(l) = {k \in Chain(m) : k.round <= l.round}
<1>1. /\ l.round \in Nat /\ m.round \in Nat /\ l.round >= 2
      /\ l \in DOMAIN parents \ Genesis /\ m \in DOMAIN parents \ Genesis
      /\ l.round % 2 = 0 /\ m.round % 2 = 0
      /\ l = LeaderCertificate(l.round) /\ m = LeaderCertificate(m.round)
  BY CertifiedDag DEF IsLeader, Direct
<1>2. PICK f, g : f = CurrentLeader(DOMAIN parents, l, 0) /\ g = CurrentLeader(DOMAIN parents, m, 0)
  OBVIOUS
<1>3. /\ f[l.round] = l
      /\ \A r \in 2 .. l.round : r < l.round =>
           f[r] = IF /\ (l.round - r) % 2 = 0
                     /\ LeaderCertificate(r) \in DOMAIN parents
                     /\ Linked(DOMAIN parents, f[r + 1], LeaderCertificate(r))
                  THEN LeaderCertificate(r) ELSE f[r + 1]
  <2>1. 0 + 2 <= l.round /\ 0 + 2 = 2
    BY <1>1
  <2> QED
    BY <1>1, <1>2, <2>1, CurrentLeaderSteps
<1>4. /\ g[m.round] = m
      /\ \A r \in 2 .. m.round : r < m.round =>
           g[r] = IF /\ (m.round - r) % 2 = 0
                     /\ LeaderCertificate(r) \in DOMAIN parents
                     /\ Linked(DOMAIN parents, g[r + 1], LeaderCertificate(r))
                  THEN LeaderCertificate(r) ELSE g[r + 1]
  <2>1. 0 + 2 <= m.round /\ 0 + 2 = 2
    BY <1>1
  <2> QED
    BY <1>1, <1>2, <2>1, CurrentLeaderSteps
<1>5. g[l.round] = l
  <2>1. CASE l.round = m.round
    BY <1>1, <1>4, <2>1
  <2>2. CASE l.round < m.round
    <3>1. PICK x : x = g[l.round + 1]
      OBVIOUS
    <3>2. l.round + 1 \in 0 + 2 .. m.round /\ 0 + 2 <= m.round
      BY <1>1, <2>2
    <3>3. /\ x \in DOMAIN parents /\ x.round \in l.round + 1 .. m.round
          /\ (m.round - x.round) % 2 = 0
      BY <1>1, <1>2, <3>1, <3>2, WholeDagClosed, CurrentLeaderFacts
    <3>4. x.round \in Nat /\ l.round + 2 <= x.round
      BY <1>1, <3>3
    <3>5. Linked(DOMAIN parents, x, l)
      BY <1>1, <3>3, <3>4, LinkedToDirect DEF Direct
    <3>6. (m.round - l.round) % 2 = 0 /\ l.round \in 2 .. m.round
      BY <1>1, <2>2
    <3> QED
      BY <1>1, <1>4, <2>2, <3>1, <3>5, <3>6
  <2> QED
    BY <1>1, <2>1, <2>2
<1> DEFINE Good == {r \in 2 .. l.round : f[r] = g[r]}
<1>6. l.round \in Good
  BY <1>1, <1>3, <1>5
<1>7. ASSUME NEW r \in 2 .. l.round, r < l.round, r + 1 \in Good PROVE r \in Good
  <2>1. f[r + 1] = g[r + 1]
    BY <1>7
  <2>2. (l.round - r) % 2 = 0 <=> (m.round - r) % 2 = 0
    BY <1>1
  <2>3. r \in 2 .. m.round /\ r < m.round
    BY <1>1, <1>7
  <2>4. f[r] = g[r]
    BY <1>3, <1>4, <1>7, <2>1, <2>2, <2>3
  <2> QED
    BY <2>4
<1>8. 2 .. l.round \subseteq Good
  <2> HIDE DEF Good
  <2> QED
    BY <1>1, <1>6, <1>7, InductionDown
<1>9. \A k : k.round \in 0 + 2 .. l.round <=> k.round \in 0 + 2 .. m.round /\ k.round <= l.round
  BY <1>1
<1>10. ASSUME NEW k, k.round \in 0 + 2 .. l.round PROVE f[k.round] = g[k.round]
  <2>1. k.round \in 2 .. l.round
    BY <1>10
  <2> QED
    BY <1>8, <2>1
<1>11. Chain(l) = {k \in DOMAIN parents : k.round \in 0 + 2 .. l.round
                     /\ k = LeaderCertificate(k.round) /\ k = f[k.round]}
  BY <1>2 DEF Chain, OrderLeaders
<1>12. Chain(m) = {k \in DOMAIN parents : k.round \in 0 + 2 .. m.round
                     /\ k = LeaderCertificate(k.round) /\ k = g[k.round]}
  BY <1>2 DEF Chain, OrderLeaders
<1> HIDE DEF Good
<1> QED
  BY <1>9, <1>10, <1>11, <1>12

LEMMA ChainStable ==
  ASSUME parents' = parents, NEW l
  PROVE  Chain(l)' = Chain(l) /\ (Direct(l)' <=> Direct(l))
<1>1. ASSUME NEW D, NEW from, NEW to PROVE WalkDown(D, from, to)' = WalkDown(D, from, to)
  BY DEF WalkDown
<1>2. ASSUME NEW D, NEW x, NEW prev PROVE Linked(D, x, prev)' <=> Linked(D, x, prev)
  BY <1>1 DEF Linked
<1>3. ASSUME NEW D, NEW lcr PROVE CurrentLeader(D, l, lcr)' = CurrentLeader(D, l, lcr)
  BY <1>2 DEF CurrentLeader
<1>4. Chain(l)' = Chain(l)
  BY <1>3 DEF Chain, OrderLeaders
<1>5. HasSupport(DOMAIN parents, l)' <=> HasSupport(DOMAIN parents, l)
  BY DEF HasSupport
<1> QED
  BY <1>4, <1>5 DEF Direct, IsLeader

-----------------------------------------------------------------------------
(* Agreement on the leaders: the validators *)

LeadersOf(v) == {log[v][i].leader : i \in DOMAIN log[v]}

\* Leaders are committed bottom up, and the last one sets the last round.
Ascending(v) ==
  /\ \A i, j \in DOMAIN log[v] : i < j => log[v][i].leader.round < log[v][j].leader.round
  /\ lastCommittedRound[v] = IF log[v] = <<>> THEN 0 ELSE log[v][Len(log[v])].leader.round

\* The leaders still to flatten are above it.
Waiting(v) ==
  /\ pending[v] \subseteq dag[v]
  /\ \A l \in pending[v] : l.round > lastCommittedRound[v]

\* Flattened and to be flattened, they are the whole chain of the one that was
\* found to have support.
FromDirect(v) ==
  \/ LeadersOf(v) \cup pending[v] = {}
  \/ \E l \in DOMAIN parents : Direct(l) /\ LeadersOf(v) \cup pending[v] = Chain(l)

LeadInv == \A v \in Validators : Ascending(v) /\ Waiting(v) /\ FromDirect(v)

LEMMA InitLead == Init => LeadInv
<1> SUFFICES ASSUME Init, NEW v \in Validators PROVE Ascending(v) /\ Waiting(v) /\ FromDirect(v)
  BY DEF LeadInv
<1>1. log[v] = <<>> /\ pending[v] = {} /\ lastCommittedRound[v] = 0
  BY DEF Init
<1>2. DOMAIN log[v] = {}
  BY <1>1
<1> QED
  BY <1>1, <1>2 DEF Ascending, Waiting, FromDirect, LeadersOf

\* A step of another validator.
LEMMA LeadElsewhere ==
  ASSUME NEW v \in Validators, Ascending(v), Waiting(v), FromDirect(v), parents' = parents,
         log'[v] = log[v], pending'[v] = pending[v], dag'[v] = dag[v],
         lastCommittedRound'[v] = lastCommittedRound[v]
  PROVE  Ascending(v)' /\ Waiting(v)' /\ FromDirect(v)'
<1>1. Ascending(v)' /\ Waiting(v)'
  BY DEF Ascending, Waiting
<1>2. LeadersOf(v)' = LeadersOf(v)
  BY DEF LeadersOf
<1> QED
  BY <1>1, <1>2, ChainStable DEF FromDirect

LEMMA LogTyped ==
  ASSUME TypeOK, NEW v \in Validators
  PROVE  /\ Len(log[v]) \in Nat /\ DOMAIN log[v] = 1 .. Len(log[v])
         /\ log[v] # <<>> => Len(log[v]) \in DOMAIN log[v]
         /\ \A i \in DOMAIN log[v] : log[v][i].leader \in Certificate
         /\ lastCommittedRound[v] \in Nat
<1> DEFINE T == [leader : Certificate, certificates : SUBSET Certificate]
<1>1. PICK s : s = log[v] /\ s \in Seq(T)
  BY DEF TypeOK
<1>2. \A i \in DOMAIN s : s[i] \in T
  <2> HIDE DEF T
  <2> QED
    BY <1>1
<1>3. Len(s) \in Nat /\ DOMAIN s = 1 .. Len(s) /\ (s # <<>> => Len(s) \in DOMAIN s)
  <2> HIDE DEF T
  <2>1. Len(s) \in Nat /\ DOMAIN s = 1 .. Len(s)
    BY <1>1
  <2>2. s # <<>> => Len(s) # 0
    BY <1>1
  <2> QED
    BY <2>1, <2>2
<1>4. lastCommittedRound[v] \in Nat
  BY DEF TypeOK
<1> QED
  BY <1>1, <1>2, <1>3, <1>4

\* When nothing is left to flatten, the last committed round is that of the
\* leader that was found to have support.
LEMMA LastIsDirect ==
  ASSUME TypeOK, NEW v \in Validators, Ascending(v), log[v] # <<>>,
         NEW k, Direct(k), LeadersOf(v) = Chain(k)
  PROVE  lastCommittedRound[v] = k.round
<1>1. PICK n : n = Len(log[v]) /\ n \in DOMAIN log[v] /\ DOMAIN log[v] = 1 .. n /\ n \in Nat
  BY LogTyped
<1>2. lastCommittedRound[v] = log[v][n].leader.round
  BY <1>1 DEF Ascending
<1>3. PICK i \in DOMAIN log[v] : log[v][i].leader = k
  BY ChainFacts DEF LeadersOf, Direct
<1>4. k.round \in Nat /\ log[v][n].leader.round <= k.round /\ log[v][n].leader.round \in Nat
  BY <1>1, ChainFacts DEF LeadersOf, Direct
<1>5. k.round <= log[v][n].leader.round
  <2>1. i = n \/ i < n
    BY <1>1
  <2> QED
    BY <1>1, <1>3, <1>4, <2>1 DEF Ascending
<1> QED
  BY <1>2, <1>4, <1>5

\* Without anything to flatten, the last committed round is even.
LEMMA LastIsEven ==
  ASSUME TypeOK, NEW v \in Validators, Ascending(v), FromDirect(v), pending[v] = {}
  PROVE  \/ log[v] = <<>> /\ LeadersOf(v) = {} /\ lastCommittedRound[v] = 0
         \/ \E k \in DOMAIN parents : /\ Direct(k) /\ LeadersOf(v) = Chain(k)
                                      /\ lastCommittedRound[v] = k.round
<1>1. CASE log[v] = <<>>
  <2>1. DOMAIN log[v] = {}
    BY <1>1
  <2> QED
    BY <1>1, <2>1 DEF LeadersOf, Ascending
<1>2. CASE log[v] # <<>>
  <2>1. LeadersOf(v) # {}
    BY <1>2, LogTyped DEF LeadersOf
  <2>2. PICK k \in DOMAIN parents : Direct(k) /\ LeadersOf(v) = Chain(k)
    BY <2>1 DEF FromDirect
  <2> QED
    BY <1>2, <2>2, LastIsDirect
<1> QED
  BY <1>1, <1>2

\* The dag of a validator, with the certificate it is sent, is a part of the DAG
\* that is closed above the last committed round.
LEMMA DagClosed ==
  ASSUME Inv, NEW v \in Validators, NEW c \in DOMAIN parents,
         parents[c] \subseteq received[v] \cup Genesis
  PROVE  Closed(dag[v] \cup {c}, lastCommittedRound[v])
<1>1. /\ dag[v] \subseteq received[v] \cup Genesis /\ received[v] \subseteq DOMAIN parents
      /\ lastCommittedRound[v] \in Nat
  BY DEF Inv, TypeOK
<1>2. ASSUME NEW x \in (dag[v] \cup {c}) \ Genesis, NEW p \in parents[x],
             p.round > lastCommittedRound[v]
      PROVE  p \in dag[v]
  <2>1. p \in received[v] \cup Genesis
    BY <1>1 DEF Inv, HistoryInv
  <2>2. p \notin Genesis
    BY <1>1, <1>2 DEF Genesis
  <2> QED
    BY <1>2, <2>1, <2>2 DEF Inv, RecentInv
<1> QED
  BY <1>1, <1>2 DEF Closed

\* Support in the dag of a validator is support in the whole DAG.
LEMMA SupportIsGlobal ==
  ASSUME TypeOK, NEW D, D \subseteq DOMAIN parents \cup Genesis,
         NEW l \in DOMAIN parents, HasSupport(D, l)
  PROVE  HasSupport(DOMAIN parents, l)
<1> DEFINE sup(E) == {c.origin : c \in {x \in E : x.round = l.round + 1 /\ l \in parents[x]}}
<1>1. l.round \in Nat
  BY CertifiedDag
<1>2. sup(D) \subseteq sup(DOMAIN parents)
  <2> SUFFICES ASSUME NEW x \in D, x.round = l.round + 1 PROVE x \in DOMAIN parents
    OBVIOUS
  <2>1. x \notin Genesis
    BY <1>1 DEF Genesis
  <2> QED
    BY <2>1
<1>3. sup(DOMAIN parents) \subseteq Authorities
  BY CertifiedDag
<1>4. StakeOf(sup(D)) \in Nat /\ StakeOf(sup(DOMAIN parents)) \in Nat
  <2> HIDE DEF sup
  <2>1. sup(D) \in SUBSET Authorities /\ sup(DOMAIN parents) \in SUBSET Authorities
    BY <1>2, <1>3
  <2> QED
    BY <2>1, UnitsFinite
<1>5. StakeOf(sup(D)) <= StakeOf(sup(DOMAIN parents))
  <2> HIDE DEF sup
  <2> QED
    BY <1>2, <1>3, StakeMonotone
<1>6. StakeOf(sup(D)) >= ValidityThreshold
  BY DEF HasSupport
<1>7. ValidityThreshold \in Int
  BY UnitsFinite DEF ValidityThreshold, TotalStake
<1>8. StakeOf(sup(DOMAIN parents)) >= ValidityThreshold
  <2> HIDE DEF sup
  <2> QED
    BY <1>4, <1>5, <1>6, <1>7
<1> QED
  BY <1>8 DEF HasSupport

LEMMA LeadProcess ==
  ASSUME Inv, LeadInv, NEW v \in Validators, NEW c \in DOMAIN parents, Process(v, c),
         parents[c] \subseteq received[v] \cup Genesis
  PROVE  LeadInv'
<1>1. /\ TypeOK /\ Ascending(v) /\ FromDirect(v) /\ pending[v] = {}
      /\ c.round \in Nat /\ lastCommittedRound[v] \in Nat
  BY CertifiedDag, LogTyped DEF Inv, LeadInv, Process
<1>2. PICK now, low, leader :
        /\ now = dag[v] \cup {c} /\ low = lastCommittedRound[v]
        /\ leader = LeaderCertificate(c.round - 3)
  OBVIOUS
<1>3. /\ dag' = [dag EXCEPT ![v] = now]
      /\ UNCHANGED <<parents, lastCommitted, lastCommittedRound, log>>
      /\ \A w \in Validators \ {v} : pending'[w] = pending[w]
  BY <1>2 DEF Process, Inv, TypeOK
<1>4. \/ pending'[v] = {}
      \/ /\ pending'[v] = OrderLeaders(now, leader, low)
         /\ (c.round - 1) % 2 = 0 /\ c.round >= 5 /\ c.round - 3 > low
         /\ leader \in now /\ HasSupport(now, leader)
  <2>1. c.round - 1 - 2 = c.round - 3 /\ (c.round - 1 >= 4 => c.round >= 5)
    BY <1>1
  <2>2. \A x : [pending EXCEPT ![v] = x][v] = x
    BY DEF Inv, TypeOK
  <2> QED
    BY <1>2, <2>1, <2>2 DEF Process
<1>5. Closed(now, low)
  BY <1>2, DagClosed
<1>6. dag'[v] = now
  BY <1>3 DEF Inv, TypeOK
<1>7. Ascending(v)'
  BY <1>1, <1>3 DEF Ascending
<1>8. CASE pending'[v] = {}
  <2>1. Waiting(v)'
    BY <1>8 DEF Waiting
  <2>2. LeadersOf(v)' = LeadersOf(v)
    BY <1>3 DEF LeadersOf
  <2>3. FromDirect(v)'
    BY <1>1, <1>3, <1>8, <2>2, ChainStable DEF FromDirect
  <2> QED
    BY <1>3, <1>7, <2>1, <2>3, LeadElsewhere DEF LeadInv
<1>9. CASE pending'[v] # {}
  <2>1. /\ pending'[v] = OrderLeaders(now, leader, low)
        /\ (c.round - 1) % 2 = 0 /\ c.round >= 5 /\ c.round - 3 > low
        /\ leader \in now /\ HasSupport(now, leader)
    BY <1>4, <1>9
  <2>2. leader.round = c.round - 3 /\ leader = LeaderCertificate(leader.round)
    BY <1>2 DEF LeaderCertificate
  <2>3. leader \in now \ Genesis /\ leader \in DOMAIN parents
    <3>1. leader \notin Genesis
      BY <1>1, <2>1, <2>2 DEF Genesis
    <3> QED
      BY <1>5, <2>1, <3>1 DEF Closed
  <2>4. Direct(leader)
    <3>1. leader.round >= 2 /\ leader.round % 2 = 0
      BY <1>1, <2>1, <2>2
    <3>2. HasSupport(DOMAIN parents, leader)
      BY <1>1, <1>5, <2>1, <2>3, SupportIsGlobal DEF Closed
    <3> QED
      BY <2>2, <2>3, <3>1, <3>2 DEF Direct, IsLeader
  <2>5. \/ log[v] = <<>> /\ LeadersOf(v) = {} /\ low = 0
        \/ \E k \in DOMAIN parents : Direct(k) /\ LeadersOf(v) = Chain(k) /\ low = k.round
    BY <1>1, <1>2, LastIsEven
  <2>6. low \in Nat /\ low % 2 = 0 /\ low + 2 <= leader.round
    <3>1. low \in Nat /\ low % 2 = 0
      BY <1>1, <1>2, <2>5 DEF Direct, IsLeader
    <3>2. leader.round > low /\ leader.round % 2 = 0 /\ leader.round \in Nat
      BY <1>1, <2>1, <2>2, <2>4 DEF Direct, IsLeader
    <3> QED
      BY <3>1, <3>2
  <2>7. pending'[v] = {l \in Chain(leader) : l.round >= low + 2}
    BY <1>1, <1>5, <2>1, <2>2, <2>3, <2>6, OrderLeadersIsGlobal
  <2>8. ASSUME NEW l \in Chain(leader) PROVE l.round \in Nat /\ l.round % 2 = 0 /\ l.round >= 2
    BY <1>1, <2>4, ChainFacts DEF Direct, IsLeader
  <2>9. LeadersOf(v) \cup pending'[v] = Chain(leader)
    <3>1. CASE LeadersOf(v) = {} /\ low = 0
      BY <2>7, <2>8, <3>1
    <3>2. ASSUME NEW k \in DOMAIN parents, Direct(k), LeadersOf(v) = Chain(k), low = k.round
          PROVE  LeadersOf(v) \cup pending'[v] = Chain(leader)
      <4>1. k.round <= leader.round
        <5>1. k.round \in Nat /\ leader.round \in Nat
          BY <1>1, <2>3, <3>2, CertifiedDag
        <5> QED
          BY <2>6, <3>2, <5>1
      <4>2. Chain(k) = {l \in Chain(leader) : l.round <= low}
        BY <1>1, <2>4, <3>2, <4>1, ChainThroughDirect DEF Direct
      <4>3. ASSUME NEW l \in Chain(leader) PROVE l.round <= low \/ l.round >= low + 2
        BY <2>6, <2>8
      <4> QED
        BY <2>7, <3>2, <4>2, <4>3
    <3> QED
      BY <2>5, <3>1, <3>2
  <2>10. FromDirect(v)'
    <3>1. LeadersOf(v)' = LeadersOf(v)
      BY <1>3 DEF LeadersOf
    <3>2. Direct(leader)' /\ Chain(leader)' = Chain(leader)
      BY <1>3, <2>4, ChainStable
    <3>3. leader \in DOMAIN parents'
      BY <1>3, <2>3
    <3> QED
      BY <2>9, <3>1, <3>2, <3>3 DEF FromDirect
  <2>11. Waiting(v)'
    <3>1. \A l \in pending'[v] : l.round > low
      BY <2>6, <2>7, <2>8
    <3>2. pending'[v] \subseteq now
      BY <2>1 DEF OrderLeaders
    <3> QED
      BY <1>2, <1>3, <1>6, <3>1, <3>2 DEF Waiting
  <2> QED
    BY <1>3, <1>7, <2>10, <2>11, LeadElsewhere DEF LeadInv
<1> QED
  BY <1>8, <1>9

\* The sub-dag of a leader holds it, so that it sets the last committed round.
LEMMA LeaderInOrderDag ==
  ASSUME Inv, LeadInv, NEW v \in Validators, NEW leader \in pending[v]
  PROVE  leader \in OrderDag(v, leader)
<1>1. /\ leader \in dag[v] /\ leader.round > lastCommittedRound[v]
      /\ leader \in Certificate
  BY DEF LeadInv, Waiting, Inv, TypeOK
<1>2. /\ leader.round \in Nat /\ leader.origin \in Authorities
      /\ lastCommitted[v][leader.origin] \in Nat /\ lastCommittedRound[v] \in Nat
  BY <1>1 DEF Certificate, Inv, TypeOK
<1>3. lastCommitted[v][leader.origin] # leader.round
  BY <1>1, <1>2 DEF Inv, LastInv
<1> DEFINE open == {c \in dag[v] : lastCommitted[v][c.origin] # c.round}
<1>4. IsWalk(WalkDown(open, leader, 0), open, leader, 0)
  <2> HIDE DEF open
  <2>1. 0 <= leader.round
    BY <1>2
  <2> QED
    BY <1>2, <2>1, WalkDownSteps
<1>5. leader \in WalkDown(open, leader, 0)[leader.round]
  BY <1>4 DEF IsWalk
<1>6. leader.round + GcDepth >= lastCommittedRound[v]
  BY <1>1, <1>2, TuskAssumption
<1>7. leader \in open /\ leader.round <= leader.round
  BY <1>1, <1>2, <1>3
<1> QED
  BY <1>5, <1>6, <1>7 DEF OrderDag

LEMMA LastIsLeader ==
  ASSUME Inv, LeadInv, NEW v \in Validators, NEW leader \in pending[v]
  PROVE  LET last == LastCommittedAfter(v, OrderDag(v, leader))
         IN  Max({last[a] : a \in Authorities}) = leader.round
<1> DEFINE batch == OrderDag(v, leader)
           last == LastCommittedAfter(v, batch)
           lcr == Max({last[a] : a \in Authorities})
<1>1. /\ leader \in batch /\ leader.round > lastCommittedRound[v]
      /\ leader \in Certificate /\ lastCommittedRound[v] \in Nat
  BY LeaderInOrderDag DEF LeadInv, Waiting, Inv, TypeOK
<1>2. /\ \A c \in batch : c.round <= last[c.origin]
      /\ lcr \in Nat
      /\ \A a \in Authorities : last[a] <= lcr
      /\ last \in [Authorities -> Nat]
      /\ batch \subseteq dag[v]
  BY CommitFacts DEF Inv
<1>3. PICK a \in Authorities : last[a] = lcr
  BY CommitFacts DEF Inv
<1>4. leader.round \in Nat /\ leader.origin \in Authorities
  BY <1>1 DEF Certificate
<1>5. leader.round <= lcr
  <2>1. leader.round <= last[leader.origin] /\ last[leader.origin] <= lcr
    BY <1>1, <1>2, <1>4
  <2>2. last[leader.origin] \in Nat
    BY <1>2, <1>4
  <2> HIDE DEF lcr, last
  <2> QED
    BY <1>2, <1>4, <2>1, <2>2
<1>6. last[a] <= leader.round
  <2> DEFINE rounds == {lastCommitted[v][a]} \cup {c.round : c \in {x \in batch : x.origin = a}}
  <2>1. \A x \in rounds : x \in Nat /\ x <= leader.round
    <3>1. lastCommitted[v][a] \in Nat /\ lastCommitted[v][a] <= lastCommittedRound[v]
      BY DEF Inv, LastInv, TypeOK
    <3>2. \A c \in batch : c.round <= leader.round /\ c.round \in Nat
      <4>1. \A c \in batch : c.round <= leader.round /\ c \in Certificate
        BY DEF OrderDag, Inv, TypeOK
      <4> QED
        BY <4>1 DEF Certificate
    <3> HIDE DEF batch
    <3> QED
      BY <1>1, <1>4, <3>1, <3>2
  <2>2. last[a] = Max(rounds)
    BY DEF LastCommittedAfter
  <2>3. rounds \in SUBSET Nat /\ rounds # {}
    BY <2>1
  <2>4. Max(rounds) \in rounds
    <3> HIDE DEF rounds
    <3> QED
      BY <1>4, <2>1, <2>3, MaxOfBounded
  <2> QED
    BY <2>1, <2>2, <2>4
<1>7. lcr <= leader.round
  BY <1>3, <1>6
<1> QED
  BY <1>2, <1>4, <1>5, <1>7

LEMMA LeadCommit ==
  ASSUME Inv, LeadInv, NEW v \in Validators, CommitLeader(v)
  PROVE  LeadInv'
<1>1. PICK leader \in pending[v] :
        LET batch == OrderDag(v, leader)
            last  == LastCommittedAfter(v, batch)
            lcr   == Max({last[a] : a \in Authorities})
        IN  /\ \A l \in pending[v] : leader.round <= l.round
            /\ log' = [log EXCEPT ![v] =
                         Append(@, [leader |-> leader, certificates |-> batch])]
            /\ lastCommitted' = [lastCommitted EXCEPT ![v] = last]
            /\ lastCommittedRound' = [lastCommittedRound EXCEPT ![v] = lcr]
            /\ dag' = [dag EXCEPT ![v] =
                         {c \in @ : /\ c.round >= last[c.origin]
                                    /\ c.round + GcDepth >= lcr}]
            /\ pending' = [pending EXCEPT ![v] = @ \ {leader}]
            /\ UNCHANGED <<parents, received, redelivered>>
  BY DEF CommitLeader
<1> DEFINE batch == OrderDag(v, leader)
           last  == LastCommittedAfter(v, batch)
           lcr   == Max({last[a] : a \in Authorities})
           sub   == [leader |-> leader, certificates |-> batch]
           s == log[v]
           t == log'[v]
           n == Len(s)
<1>2. lcr = leader.round
  BY LastIsLeader
<1>3. /\ log' = [log EXCEPT ![v] = Append(@, sub)]
      /\ lastCommittedRound' = [lastCommittedRound EXCEPT ![v] = leader.round]
      /\ dag' = [dag EXCEPT ![v] = {c \in @ : /\ c.round >= last[c.origin]
                                              /\ c.round + GcDepth >= leader.round}]
      /\ pending' = [pending EXCEPT ![v] = @ \ {leader}]
      /\ parents' = parents
  BY <1>1, <1>2
<1>4. \A a \in Authorities : last[a] \in Nat /\ last[a] <= leader.round
  BY <1>2, CommitFacts DEF Inv
<1> HIDE DEF batch, last, lcr
<1>5. /\ t = Append(s, sub) /\ pending'[v] = pending[v] \ {leader}
      /\ lastCommittedRound'[v] = leader.round
      /\ dag'[v] = {c \in dag[v] : /\ c.round >= last[c.origin]
                                   /\ c.round + GcDepth >= leader.round}
  BY <1>3 DEF Inv, TypeOK
<1>6. /\ \A w \in Validators \ {v} :
           /\ log'[w] = log[w] /\ pending'[w] = pending[w] /\ dag'[w] = dag[w]
           /\ lastCommittedRound'[w] = lastCommittedRound[w]
  BY <1>3
<1>7. /\ n \in Nat /\ DOMAIN s = 1 .. n /\ DOMAIN t = 1 .. n + 1 /\ Len(t) = n + 1
      /\ t[n + 1] = sub /\ \A i \in 1 .. n : t[i] = s[i]
      /\ t # <<>>
  <2> DEFINE T == [leader : Certificate, certificates : SUBSET Certificate]
  <2>1. PICK q : q = s /\ q \in Seq(T)
    BY DEF Inv, TypeOK
  <2> HIDE DEF T, sub
  <2> QED
    BY <1>5, <2>1
<1>8. TypeOK /\ Ascending(v) /\ Waiting(v) /\ FromDirect(v)
  BY DEF Inv, LeadInv
<1>9. /\ leader.round \in Nat /\ leader.round > lastCommittedRound[v]
      /\ lastCommittedRound[v] \in Nat /\ leader \in dag[v]
  <2>1. leader \in Certificate
    BY <1>8 DEF TypeOK
  <2> QED
    BY <1>8, <2>1 DEF Waiting, TypeOK, Certificate
<1>10. ASSUME NEW i \in 1 .. n PROVE s[i].leader.round < leader.round
  <2>1. s # <<>> /\ n \in DOMAIN s
    BY <1>7
  <2>2. lastCommittedRound[v] = s[n].leader.round
    BY <1>8, <2>1 DEF Ascending
  <2>3. i = n \/ i < n
    BY <1>7
  <2>4. s[i].leader.round < s[n].leader.round \/ i = n
    BY <1>7, <1>8, <2>1, <2>3 DEF Ascending
  <2>5. s[i].leader.round \in Nat
    <3>1. s[i].leader \in Certificate
      BY <1>7, <1>8, LogTyped
    <3> QED
      BY <3>1 DEF Certificate
  <2> QED
    BY <1>9, <2>2, <2>4, <2>5
<1>11. Ascending(v)'
  <2>1. ASSUME NEW i \in 1 .. n + 1, NEW j \in 1 .. n + 1, i < j
        PROVE  t[i].leader.round < t[j].leader.round
    <3>1. i \in 1 .. n
      BY <1>7, <2>1
    <3>2. CASE j \in 1 .. n
      BY <1>7, <1>8, <2>1, <3>1, <3>2 DEF Ascending
    <3>3. CASE j = n + 1
      BY <1>7, <1>10, <3>1, <3>3
    <3> QED
      BY <1>7, <3>2, <3>3
  <2>2. lastCommittedRound'[v] = t[Len(t)].leader.round
    BY <1>5, <1>7
  <2> QED
    BY <1>7, <2>1, <2>2 DEF Ascending
<1>12. LeadersOf(v)' = LeadersOf(v) \cup {leader}
  <2>1. LeadersOf(v)' = {t[i].leader : i \in 1 .. n + 1}
    BY <1>7 DEF LeadersOf
  <2>2. LeadersOf(v) = {s[i].leader : i \in 1 .. n}
    BY <1>7 DEF LeadersOf
  <2>3. /\ n + 1 \in 1 .. n + 1 /\ \A i \in 1 .. n : i \in 1 .. n + 1
        /\ \A i \in 1 .. n + 1 : i = n + 1 \/ i \in 1 .. n
    BY <1>7
  <2>4. t[n + 1].leader = leader
    BY <1>7
  <2> HIDE DEF s, t, n, sub
  <2> QED
    BY <1>7, <2>1, <2>2, <2>3, <2>4
<1>13. PICK d \in DOMAIN parents : Direct(d) /\ LeadersOf(v) \cup pending[v] = Chain(d)
  BY <1>8 DEF FromDirect
<1>14. FromDirect(v)'
  <2>1. LeadersOf(v)' \cup pending'[v] = Chain(d)
    BY <1>5, <1>12, <1>13
  <2> QED
    BY <1>3, <1>13, <2>1, ChainStable DEF FromDirect
<1>15. Waiting(v)'
  <2> SUFFICES ASSUME NEW l \in pending[v], l # leader
               PROVE  l \in dag'[v] /\ l.round > leader.round
    BY <1>5 DEF Waiting
  <2>1. /\ l = LeaderCertificate(l.round) /\ leader = LeaderCertificate(leader.round)
        /\ l.round \in Nat
    BY <1>8, <1>13, ChainFacts DEF Direct, IsLeader
  <2>2. l.round > leader.round
    BY <1>1, <1>9, <2>1
  <2>3. l \in dag[v] /\ l.origin \in Authorities
    BY <1>8 DEF Waiting, TypeOK, Certificate
  <2>4. l.round >= last[l.origin] /\ l.round + GcDepth >= leader.round
    BY <1>4, <1>9, <2>1, <2>2, <2>3, TuskAssumption
  <2> QED
    BY <1>5, <2>2, <2>3, <2>4
<1> QED
  BY <1>3, <1>6, <1>11, <1>14, <1>15, LeadElsewhere DEF LeadInv

LEMMA NextLead == Inv /\ LeadInv /\ [Next]_vars => LeadInv'
<1> SUFFICES ASSUME Inv, LeadInv, [Next]_vars PROVE LeadInv'
  OBVIOUS
<1>1. ASSUME NEW v \in Validators, NEW c \in DOMAIN parents, Deliver(v, c)
      PROVE  LeadInv'
  BY <1>1, LeadProcess DEF Deliver
<1>2. ASSUME NEW v \in Validators, NEW c \in DOMAIN parents, Redeliver(v, c)
      PROVE  LeadInv'
  <2>1. parents[c] \subseteq received[v] \cup Genesis
    BY <1>2 DEF Redeliver, Inv, HistoryInv
  <2> QED
    BY <1>2, <2>1, LeadProcess DEF Redeliver
<1>3. CASE UNCHANGED vars
  BY <1>3, LeadElsewhere DEF LeadInv, vars
<1> QED
  BY <1>1, <1>2, <1>3, LeadCommit DEF Next

LEMMA AlwaysLead == Spec => [](Inv /\ LeadInv)
<1> QED
  BY InitInv, NextInv, InitLead, NextLead, PTL DEF Spec

\* The leaders that a validator committed are those of a chain up to some round.
Covers(v, C) ==
  /\ LeadersOf(v) \subseteq C
  /\ \A k \in C : \A i \in DOMAIN log[v] :
       k.round <= log[v][i].leader.round => k \in LeadersOf(v)

\* No committed leader is above the last committed round.
LEMMA BelowLast ==
  ASSUME Inv, LeadInv, NEW v \in Validators, NEW i \in DOMAIN log[v]
  PROVE  log[v][i].leader.round <= lastCommittedRound[v]
<1>1. PICK n : n = Len(log[v]) /\ n \in Nat /\ DOMAIN log[v] = 1 .. n
  BY LogTyped DEF Inv
<1>2. n \in DOMAIN log[v] /\ log[v] # <<>> /\ (i = n \/ i < n)
  BY <1>1
<1>3. lastCommittedRound[v] = log[v][n].leader.round
  BY <1>1, <1>2 DEF LeadInv, Ascending
<1>4. i = n \/ log[v][i].leader.round < log[v][n].leader.round
  BY <1>2 DEF LeadInv, Ascending
<1>5. log[v][i].leader.round \in Nat /\ log[v][n].leader.round \in Nat
  BY <1>2, LogTyped DEF Inv, Certificate
<1> QED
  BY <1>3, <1>4, <1>5

LEMMA CoversLater ==
  ASSUME Inv, LeadInv, NEW v \in Validators, NEW d, Direct(d),
         LeadersOf(v) \cup pending[v] = Chain(d), NEW m, IsLeader(m), d.round <= m.round
  PROVE  Covers(v, Chain(m))
<1>1. TypeOK /\ Chain(d) = {k \in Chain(m) : k.round <= d.round}
  BY ChainThroughDirect DEF Inv
<1>2. ASSUME NEW k \in Chain(m), NEW i \in DOMAIN log[v], k.round <= log[v][i].leader.round
      PROVE  k \in LeadersOf(v)
  <2>1. log[v][i].leader \in Chain(d)
    BY DEF LeadersOf
  <2>2. log[v][i].leader.round <= d.round /\ log[v][i].leader.round \in Nat
    BY <1>1, <2>1, ChainFacts DEF Direct
  <2>3. k.round \in Nat /\ d.round \in Nat /\ lastCommittedRound[v] \in Nat
    BY <1>1, ChainFacts, LogTyped DEF Direct
  <2>4. k \in Chain(d)
    BY <1>1, <1>2, <2>2, <2>3
  <2>5. k \notin pending[v]
    <3>1. k.round <= lastCommittedRound[v]
      BY <1>2, <2>2, <2>3, BelowLast
    <3> QED
      BY <2>3, <3>1 DEF LeadInv, Waiting
  <2> QED
    BY <2>4, <2>5
<1> QED
  BY <1>1, <1>2 DEF Covers

LEMMA CommonChain ==
  ASSUME Inv, LeadInv, NEW v \in Validators, NEW w \in Validators,
         log[v] # <<>>, log[w] # <<>>
  PROVE  \E m : IsLeader(m) /\ Covers(v, Chain(m)) /\ Covers(w, Chain(m))
<1>1. LeadersOf(v) # {} /\ LeadersOf(w) # {} /\ TypeOK
  BY LogTyped DEF LeadersOf, Inv
<1>2. PICK d \in DOMAIN parents : Direct(d) /\ LeadersOf(v) \cup pending[v] = Chain(d)
  BY <1>1 DEF LeadInv, FromDirect
<1>3. PICK e \in DOMAIN parents : Direct(e) /\ LeadersOf(w) \cup pending[w] = Chain(e)
  BY <1>1 DEF LeadInv, FromDirect
<1>4. d.round \in Nat /\ e.round \in Nat /\ IsLeader(d) /\ IsLeader(e)
  BY <1>1, <1>2, <1>3, CertifiedDag DEF Direct
<1>5. CASE d.round <= e.round
  <2>1. Covers(v, Chain(e))
    BY <1>2, <1>4, <1>5, CoversLater
  <2>2. Covers(w, Chain(e))
    BY <1>3, <1>4, CoversLater
  <2> QED
    BY <1>4, <2>1, <2>2
<1>6. CASE e.round <= d.round
  <2>1. Covers(w, Chain(d))
    BY <1>3, <1>4, <1>6, CoversLater
  <2>2. Covers(v, Chain(d))
    BY <1>2, <1>4, CoversLater
  <2> QED
    BY <1>4, <2>1, <2>2
<1> QED
  BY <1>4, <1>5, <1>6

\* Of two logs that agree so far, neither can be the first to leave one out.
LEMMA NoneLeftOut ==
  ASSUME NEW v \in Validators, NEW w \in Validators, NEW C, Covers(v, C), Covers(w, C),
         Ascending(v), Ascending(w), 
         \A k \in C : k.round \in Nat,
         NEW n \in Nat, DOMAIN log[v] \subseteq Nat, DOMAIN log[w] \subseteq Nat,
         \A j \in DOMAIN log[w] : j <= n => j \in DOMAIN log[v] /\ log[v][j].leader = log[w][j].leader,
         n + 1 \in DOMAIN log[v], n + 1 \in DOMAIN log[w],
         log[v][n + 1].leader.round < log[w][n + 1].leader.round
  PROVE  FALSE
<1>1. PICK x : x = log[v][n + 1].leader /\ x \in C
  BY DEF Covers, LeadersOf
<1>2. x.round \in Nat /\ log[w][n + 1].leader.round \in Nat
  BY <1>1 DEF Covers, LeadersOf
<1>3. PICK j \in DOMAIN log[w] : log[w][j].leader = x
  <2>1. x.round <= log[w][n + 1].leader.round
    BY <1>1, <1>2
  <2> QED
    BY <1>1, <2>1 DEF Covers, LeadersOf
<1>4. j <= n
  <2>1. j # n + 1
    BY <1>1, <1>2, <1>3
  <2>2. ~ (n + 1 < j)
    BY <1>1, <1>2, <1>3 DEF Ascending
  <2>3. j \in Nat
    OBVIOUS
  <2> QED
    BY <2>1, <2>2, <2>3
<1>5. j \in DOMAIN log[v] /\ log[v][j].leader = x
  BY <1>3, <1>4
<1>6. log[v][j].leader.round < log[v][n + 1].leader.round
  BY <1>4, <1>5 DEF Ascending
<1> QED
  BY <1>1, <1>2, <1>5, <1>6

LEMMA SameLeaders ==
  ASSUME Inv, LeadInv, NEW v \in Validators, NEW w \in Validators
  PROVE  \A i \in DOMAIN log[v] \cap DOMAIN log[w] : log[v][i].leader = log[w][i].leader
<1> DEFINE both == DOMAIN log[v] \cap DOMAIN log[w]
<1>1. SUFFICES ASSUME both # {} PROVE \A i \in both : log[v][i].leader = log[w][i].leader
  OBVIOUS
<1>2. PICK nv, nw : /\ nv \in Nat /\ nw \in Nat
                    /\ DOMAIN log[v] = 1 .. nv /\ DOMAIN log[w] = 1 .. nw
  BY LogTyped DEF Inv
<1>3. PICK C : /\ Covers(v, C) /\ Covers(w, C)
               /\ \A k \in C : k.round \in Nat /\ k = LeaderCertificate(k.round)
  <2>1. log[v] # <<>> /\ log[w] # <<>>
    <3>1. DOMAIN <<>> = {}
      OBVIOUS
    <3> QED
      BY <1>1, <3>1
  <2>2. PICK m : IsLeader(m) /\ Covers(v, Chain(m)) /\ Covers(w, Chain(m))
    BY <2>1, CommonChain
  <2>3. \A k \in Chain(m) : k.round \in Nat /\ k = LeaderCertificate(k.round)
    BY <2>2, ChainFacts DEF Inv, IsLeader
  <2> QED
    BY <2>2, <2>3
<1> DEFINE Good == {n \in Nat : \A i \in both : i <= n => log[v][i].leader = log[w][i].leader}
<1>4. 0 \in Good
  BY <1>2
<1>5. ASSUME NEW n \in Nat, n \in Good, n + 1 \in both
      PROVE  log[v][n + 1].leader = log[w][n + 1].leader
  <2>1. ASSUME NEW j \in 1 .. n PROVE j \in both /\ log[v][j].leader = log[w][j].leader
    <3>1. j \in both /\ j <= n
      BY <1>2, <1>5
    <3> QED
      BY <1>5, <3>1
  <2>2. /\ \A j \in DOMAIN log[w] : j <= n => j \in DOMAIN log[v] /\ log[v][j].leader = log[w][j].leader
        /\ \A j \in DOMAIN log[v] : j <= n => j \in DOMAIN log[w] /\ log[w][j].leader = log[v][j].leader
    BY <1>2, <2>1
  <2>3. Ascending(v) /\ Ascending(w) /\ DOMAIN log[v] \subseteq Nat /\ DOMAIN log[w] \subseteq Nat
    BY <1>2 DEF LeadInv
  <2>4. log[v][n + 1].leader \in C /\ log[w][n + 1].leader \in C
    BY <1>3, <1>5 DEF Covers, LeadersOf
  <2>5. ~ (log[v][n + 1].leader.round < log[w][n + 1].leader.round)
    BY <1>3, <1>5, <2>2, <2>3, NoneLeftOut
  <2>6. ~ (log[w][n + 1].leader.round < log[v][n + 1].leader.round)
    BY <1>3, <1>5, <2>2, <2>3, NoneLeftOut
  <2>7. log[v][n + 1].leader.round = log[w][n + 1].leader.round
    BY <1>3, <2>4, <2>5, <2>6
  <2> QED
    BY <1>3, <2>4, <2>7
<1>6. Nat \subseteq Good
  <2>1. ASSUME NEW n \in Nat, n \in Good PROVE n + 1 \in Good
    <3>1. ASSUME NEW i \in both, i <= n + 1 PROVE log[v][i].leader = log[w][i].leader
      <4>1. i <= n \/ i = n + 1
        BY <1>2, <3>1
      <4> QED
        BY <1>5, <2>1, <4>1
    <3>2. n + 1 \in Nat
      OBVIOUS
    <3> QED
      BY <3>1, <3>2
  <2> HIDE DEF Good
  <2> QED
    BY <1>4, <2>1, InductionOnNat
<1>7. ASSUME NEW i \in both PROVE log[v][i].leader = log[w][i].leader
  <2>1. i \in Nat /\ i \in Good
    BY <1>2, <1>6
  <2>2. i <= i
    BY <2>1
  <2> QED
    BY <2>1, <2>2
<1> QED
  BY <1>7

\* Whatever orders certificates arrive in, and however often some come again, the
\* validators commit the same leaders in the same order (Consensus::run and
\* order_leaders): one that did not find the support of a leader in time finds the
\* leader below the next one it commits, because f + 1 of support meets every
\* quorum of parents.
THEOREM LeadersAgree == Spec => []LeaderAgreement
<1>1. Inv /\ LeadInv => LeaderAgreement
  <2> SUFFICES ASSUME Inv, LeadInv, NEW v \in Validators, NEW w \in Validators
               PROVE  \/ IsPrefixOf(Leaders(log[v]), Leaders(log[w]))
                      \/ IsPrefixOf(Leaders(log[w]), Leaders(log[v]))
    BY DEF LeaderAgreement
  <2>1. ASSUME NEW x \in Validators
        PROVE  /\ Len(log[x]) \in Nat /\ DOMAIN log[x] = 1 .. Len(log[x])
               /\ DOMAIN Leaders(log[x]) = DOMAIN log[x]
               /\ Len(Leaders(log[x])) = Len(log[x])
               /\ \A i \in DOMAIN log[x] : Leaders(log[x])[i] = log[x][i].leader
    <3>1. Len(log[x]) \in Nat /\ DOMAIN log[x] = 1 .. Len(log[x])
      BY LogTyped DEF Inv
    <3>2. /\ DOMAIN Leaders(log[x]) = DOMAIN log[x]
          /\ \A i \in DOMAIN log[x] : Leaders(log[x])[i] = log[x][i].leader
      BY DEF Leaders
    <3>3. PICK f, n : f = Leaders(log[x]) /\ n = Len(log[x]) /\ n \in Nat
                      /\ f = [i \in 1 .. n |-> log[x][i].leader]
      BY <3>1 DEF Leaders
    <3>4. Len(f) = n
      BY <3>3
    <3> QED
      BY <3>1, <3>2, <3>3, <3>4
  <2>2. \A x, y \in Validators : Len(log[x]) <= Len(log[y]) \/ Len(log[y]) <= Len(log[x])
    BY <2>1
  <2>3. ASSUME NEW x \in Validators, NEW y \in Validators, Len(log[x]) <= Len(log[y])
        PROVE  IsPrefixOf(Leaders(log[x]), Leaders(log[y]))
    <3>1. \A i \in DOMAIN log[x] : i \in DOMAIN log[x] \cap DOMAIN log[y]
      BY <2>1, <2>3
    <3>2. \A i \in DOMAIN log[x] : log[x][i].leader = log[y][i].leader
      BY <3>1, SameLeaders
    <3> QED
      BY <2>1, <2>3, <3>1, <3>2 DEF IsPrefixOf
  <2> QED
    BY <2>2, <2>3
<1> QED
  BY <1>1, AlwaysLead, PTL

-----------------------------------------------------------------------------
(* Causality *)

\* One round of the commit loop, at the validator v.
Flattens(v, leader, last) ==
  /\ leader \in pending[v]
  /\ DOMAIN log[v] = 1 .. Len(log[v]) /\ Len(log[v]) \in Nat
  /\ DOMAIN log'[v] = 1 .. Len(log[v]) + 1 /\ Len(log'[v]) = Len(log[v]) + 1
  /\ \A i \in 1 .. Len(log[v]) : log'[v][i] = log[v][i]
  /\ log'[v][Len(log[v]) + 1] = [leader |-> leader, certificates |-> OrderDag(v, leader)]
  /\ lastCommitted'[v] = last
  /\ lastCommittedRound'[v] = leader.round
  /\ dag'[v] = {c \in dag[v] : c.round >= last[c.origin] /\ c.round + GcDepth >= leader.round}

\* What it finds of the other validators, and of last_committed.
FlattensOnly(v, leader, last) ==
  /\ \A w \in Validators \ {v} :
       /\ log'[w] = log[w] /\ dag'[w] = dag[w]
       /\ lastCommitted'[w] = lastCommitted[w]
       /\ lastCommittedRound'[w] = lastCommittedRound[w]
  /\ UNCHANGED <<parents, received, redelivered>>
  /\ last \in [Authorities -> Nat]
  /\ \A a \in Authorities :
       /\ lastCommitted[v][a] <= last[a]
       /\ \/ last[a] = lastCommitted[v][a]
          \/ \E c \in OrderDag(v, leader) : c.origin = a /\ c.round = last[a]
  /\ leader.round \in Nat /\ lastCommittedRound[v] < leader.round

LEMMA CommitLeaderFlattens ==
  ASSUME Inv, LeadInv, NEW v \in Validators, CommitLeader(v)
  PROVE  \E leader, last : Flattens(v, leader, last) /\ FlattensOnly(v, leader, last)
<1>1. PICK leader \in pending[v] :
        LET batch == OrderDag(v, leader)
            last  == LastCommittedAfter(v, batch)
            lcr   == Max({last[a] : a \in Authorities})
        IN  /\ log' = [log EXCEPT ![v] =
                         Append(@, [leader |-> leader, certificates |-> batch])]
            /\ lastCommitted' = [lastCommitted EXCEPT ![v] = last]
            /\ lastCommittedRound' = [lastCommittedRound EXCEPT ![v] = lcr]
            /\ dag' = [dag EXCEPT ![v] =
                         {c \in @ : /\ c.round >= last[c.origin]
                                    /\ c.round + GcDepth >= lcr}]
            /\ UNCHANGED <<parents, received, redelivered>>
  BY DEF CommitLeader
<1> DEFINE batch == OrderDag(v, leader)
           sub == [leader |-> leader, certificates |-> batch]
<1>2. PICK last : last = LastCommittedAfter(v, batch)
  OBVIOUS
<1>3. Max({last[a] : a \in Authorities}) = leader.round
  BY <1>2, LastIsLeader
<1>4. /\ log' = [log EXCEPT ![v] = Append(@, sub)]
      /\ lastCommitted' = [lastCommitted EXCEPT ![v] = last]
      /\ lastCommittedRound' = [lastCommittedRound EXCEPT ![v] = leader.round]
      /\ dag' = [dag EXCEPT ![v] = {c \in @ : /\ c.round >= last[c.origin]
                                              /\ c.round + GcDepth >= leader.round}]
      /\ UNCHANGED <<parents, received, redelivered>>
  BY <1>1, <1>2, <1>3
<1>5. /\ last \in [Authorities -> Nat]
      /\ \A a \in Authorities :
           /\ lastCommitted[v][a] <= last[a]
           /\ \/ last[a] = lastCommitted[v][a]
              \/ \E c \in batch : c.origin = a /\ c.round = last[a]
  BY <1>2, CommitFacts DEF Inv
<1>6. leader.round \in Nat /\ lastCommittedRound[v] < leader.round
  <2>1. leader \in Certificate /\ leader.round > lastCommittedRound[v]
    BY DEF LeadInv, Waiting, Inv, TypeOK
  <2> QED
    BY <2>1, LogTyped DEF Certificate, Inv
<1>7. /\ log'[v] = Append(log[v], sub) /\ lastCommitted'[v] = last
      /\ lastCommittedRound'[v] = leader.round
      /\ dag'[v] = {c \in dag[v] : c.round >= last[c.origin] /\ c.round + GcDepth >= leader.round}
  BY <1>4 DEF Inv, TypeOK
<1> HIDE DEF batch
<1>8. PICK s, x, T : s = log[v] /\ x = sub /\ s \in Seq(T)
  BY DEF Inv, TypeOK
<1>9. /\ DOMAIN s = 1 .. Len(s) /\ Len(s) \in Nat
      /\ DOMAIN Append(s, x) = 1 .. Len(s) + 1 /\ Len(Append(s, x)) = Len(s) + 1
      /\ \A i \in 1 .. Len(s) : Append(s, x)[i] = s[i]
      /\ Append(s, x)[Len(s) + 1] = x
  BY <1>8
<1>10. Flattens(v, leader, last)
  BY <1>7, <1>8, <1>9 DEF Flattens, batch
<1>11. FlattensOnly(v, leader, last)
  BY <1>4, <1>5, <1>6 DEF FlattensOnly, batch
<1> QED
  BY <1>10, <1>11

\* What was received and is in the dag no more was removed by State::update.
GoneInv ==
  \A v \in Validators : \A c \in received[v] :
    \/ c \in dag[v]
    \/ c.round < lastCommitted[v][c.origin]
    \/ c.round + GcDepth < lastCommittedRound[v]

\* last_committed is the round of a committed certificate, or of genesis.
LatestInv ==
  \A v \in Validators : \A a \in Authorities :
    \/ lastCommitted[v][a] = 0
    \/ \E i \in DOMAIN log[v] : \E c \in log[v][i].certificates :
         c.origin = a /\ c.round = lastCommitted[v][a]

\* Genesis leaves the dag with the first certificate of its origin.
GenesisInv ==
  \A v \in Validators : \A c \in dag[v] \cap Genesis : lastCommitted[v][c.origin] = 0

CauseInv == GoneInv /\ LatestInv /\ GenesisInv /\ CausalCommit

\* A parent of what a validator is about to output.
LEMMA ParentIsAccounted ==
  ASSUME Inv, LeadInv, CauseInv, NEW v \in Validators, NEW leader \in pending[v],
         NEW c \in OrderDag(v, leader), NEW p \in parents[c] \ Genesis
  PROVE  \/ p \in OrderDag(v, leader)
         \/ \E i \in DOMAIN log[v] : p \in log[v][i].certificates
         \/ \E i \in DOMAIN log[v] : \E q \in log[v][i].certificates :
              q.origin = p.origin /\ q.round > p.round
         \/ p.round + GcDepth < lastCommittedRound[v]
<1> DEFINE open == {x \in dag[v] : lastCommitted[v][x.origin] # x.round}
           walk == WalkDown(open, leader, 0)
<1>1. /\ c \in open /\ c.round <= leader.round /\ c \in walk[c.round]
      /\ leader \in Certificate
  BY DEF OrderDag, Inv, TypeOK
<1>2. c \in received[v] /\ c \in DOMAIN parents
  <2>1. c \notin Genesis
    BY <1>1 DEF CauseInv, GenesisInv, Genesis
  <2> QED
    BY <1>1, <2>1 DEF Inv, TypeOK
<1>3. p \in received[v] /\ p \in DOMAIN parents
  BY <1>2 DEF Inv, HistoryInv, TypeOK
<1>4. /\ p.round + 1 = c.round /\ p.round \in Nat /\ c.round \in Nat /\ leader.round \in Nat
      /\ p.round # 0 /\ p.origin \in Authorities /\ p \in Certificate
      /\ lastCommitted[v][p.origin] \in Nat
  <2>1. TypeOK /\ leader.round \in Nat /\ lastCommitted[v] \in [Authorities -> Nat]
    BY <1>1 DEF Inv, TypeOK, Certificate
  <2>2. /\ p.round \in Nat /\ c.round \in Nat /\ p.round # 0
        /\ p.origin \in Authorities /\ p \in Certificate /\ p.round + 1 = c.round
    BY <1>2, <1>3, <2>1, CertifiedDag
  <2> QED
    BY <2>1, <2>2
<1>5. CASE p.round < lastCommitted[v][p.origin]
  <2>1. PICK i \in DOMAIN log[v] : \E q \in log[v][i].certificates :
          q.origin = p.origin /\ q.round = lastCommitted[v][p.origin]
    BY <1>4, <1>5 DEF CauseInv, LatestInv
  <2> QED
    BY <1>4, <1>5, <2>1
<1>6. CASE p \in dag[v] /\ lastCommitted[v][p.origin] = p.round
  <2>1. PICK i \in DOMAIN log[v] : \E q \in log[v][i].certificates :
          q.origin = p.origin /\ q.round = p.round
    BY <1>4, <1>6 DEF CauseInv, LatestInv
  <2>2. PICK q \in log[v][i].certificates : q.origin = p.origin /\ q.round = p.round
    BY <2>1
  <2>3. q \in Certificate
    <3>1. q \in received[v] \cup Genesis
      BY DEF Inv, CommittedInv
    <3>2. received[v] \subseteq Certificate
      BY CertifiedDag DEF Inv, TypeOK
    <3> QED
      BY <3>1, <3>2 DEF Genesis, Certificate
  <2>4. q = p
    BY <1>4, <2>2, <2>3 DEF Certificate
  <2> QED
    BY <2>1, <2>4
<1>7. CASE p \in dag[v] /\ lastCommitted[v][p.origin] # p.round
  <2>1. IsWalk(walk, open, leader, 0)
    <3> HIDE DEF open
    <3>1. 0 <= leader.round
      BY <1>4
    <3> QED
      BY <1>4, <3>1, WalkDownSteps
  <2>2. p.round \in 0 .. leader.round /\ p.round < leader.round /\ p.round <= leader.round
    BY <1>1, <1>4
  <2>3. p \in open
    BY <1>7
  <2> HIDE DEF open, walk
  <2>4. walk[p.round] = CitedBy(open, p.round, walk[c.round])
    BY <1>4, <2>1, <2>2 DEF IsWalk
  <2>5. p \in walk[p.round]
    BY <1>1, <2>3, <2>4 DEF CitedBy
  <2>6. p \in OrderDag(v, leader) \/ ~ (p.round + GcDepth >= lastCommittedRound[v])
    BY <2>2, <2>3, <2>5 DEF OrderDag, open, walk
  <2>7. lastCommittedRound[v] \in Nat
    BY DEF Inv, TypeOK
  <2> QED
    BY <1>4, <2>6, <2>7, TuskAssumption
<1> QED
  BY <1>3, <1>5, <1>6, <1>7 DEF CauseInv, GoneInv

LEMMA CommittedPart ==
  ASSUME NEW s, NEW t, NEW i \in Int, \A j \in 1 .. i : t[j] = s[j]
  PROVE  Committed(t, i) = Committed(s, i)
  BY DEF Committed

LEMMA CommittedIn ==
  ASSUME NEW s, NEW n \in Nat, NEW i \in 1 .. n, NEW c \in s[i].certificates
  PROVE  c \in Committed(s, n)
  BY DEF Committed

LEMMA CauseCommit ==
  ASSUME Inv, LeadInv, CauseInv, NEW v \in Validators, CommitLeader(v)
  PROVE  CauseInv'
<1>1. PICK leader, last : Flattens(v, leader, last) /\ FlattensOnly(v, leader, last)
  BY CommitLeaderFlattens
<1>2. PICK n : n = Len(log[v])
  OBVIOUS
<1>3. /\ leader \in pending[v] /\ n \in Nat
      /\ DOMAIN log[v] = 1 .. n /\ DOMAIN log'[v] = 1 .. n + 1
      /\ \A i \in 1 .. n : log'[v][i] = log[v][i]
      /\ log'[v][n + 1] = [leader |-> leader, certificates |-> OrderDag(v, leader)]
      /\ lastCommitted'[v] = last /\ lastCommittedRound'[v] = leader.round
      /\ dag'[v] = {c \in dag[v] : c.round >= last[c.origin] /\ c.round + GcDepth >= leader.round}
  BY <1>1, <1>2 DEF Flattens
<1>4. /\ \A w \in Validators \ {v} :
           /\ log'[w] = log[w] /\ dag'[w] = dag[w]
           /\ lastCommitted'[w] = lastCommitted[w]
           /\ lastCommittedRound'[w] = lastCommittedRound[w]
      /\ UNCHANGED <<parents, received, redelivered>>
      /\ last \in [Authorities -> Nat]
      /\ \A a \in Authorities :
           /\ lastCommitted[v][a] <= last[a]
           /\ \/ last[a] = lastCommitted[v][a]
              \/ \E c \in OrderDag(v, leader) : c.origin = a /\ c.round = last[a]
      /\ leader.round \in Nat /\ lastCommittedRound[v] < leader.round
      /\ lastCommittedRound[v] \in Nat /\ lastCommitted[v] \in [Authorities -> Nat]
  BY <1>1 DEF FlattensOnly, Inv, TypeOK
<1>5. GoneInv'
  <2> SUFFICES ASSUME NEW w \in Validators, NEW c \in received[w]
               PROVE  \/ c \in dag'[w]
                      \/ c.round < lastCommitted'[w][c.origin]
                      \/ c.round + GcDepth < lastCommittedRound'[w]
    BY <1>4 DEF GoneInv
  <2>1. CASE w # v
    BY <1>4, <2>1 DEF CauseInv, GoneInv
  <2>2. CASE w = v
    <3>1. /\ c.round \in Nat /\ c.origin \in Authorities
          /\ last[c.origin] \in Nat /\ lastCommitted[v][c.origin] \in Nat /\ GcDepth \in Nat
      BY <1>4, <2>2, CertifiedDag, TuskAssumption DEF Inv, TypeOK
    <3>2. \/ c \in dag[v]
          \/ c.round < lastCommitted[v][c.origin]
          \/ c.round + GcDepth < lastCommittedRound[v]
      BY <2>2 DEF CauseInv, GoneInv
    <3>3. lastCommitted[v][c.origin] <= last[c.origin]
      BY <1>4, <3>1
    <3> QED
      <4>1. CASE c \in dag[v]
        <5>1. CASE c.round >= last[c.origin] /\ c.round + GcDepth >= leader.round
          BY <1>3, <2>2, <4>1, <5>1
        <5>2. CASE ~ (c.round >= last[c.origin] /\ c.round + GcDepth >= leader.round)
          BY <1>3, <1>4, <2>2, <3>1, <5>2
        <5> QED
          BY <5>1, <5>2
      <4>2. CASE c.round < lastCommitted[v][c.origin]
        BY <1>3, <2>2, <3>1, <3>3, <4>2
      <4>3. CASE c.round + GcDepth < lastCommittedRound[v]
        BY <1>3, <1>4, <2>2, <3>1, <4>3
      <4> QED
        BY <3>2, <4>1, <4>2, <4>3
  <2> QED
    BY <2>1, <2>2
<1>6. LatestInv'
  <2> SUFFICES ASSUME NEW w \in Validators, NEW a \in Authorities
               PROVE  \/ lastCommitted'[w][a] = 0
                      \/ \E i \in DOMAIN log'[w] : \E c \in log'[w][i].certificates :
                           c.origin = a /\ c.round = lastCommitted'[w][a]
    BY DEF LatestInv
  <2>1. CASE w # v
    BY <1>4, <2>1 DEF CauseInv, LatestInv
  <2>2. CASE w = v /\ last[a] = lastCommitted[v][a]
    <3>1. CASE lastCommitted[v][a] = 0
      BY <1>3, <2>2, <3>1
    <3>2. ASSUME NEW i \in DOMAIN log[v], NEW c \in log[v][i].certificates,
                 c.origin = a, c.round = lastCommitted[v][a]
          PROVE  \E j \in DOMAIN log'[v] : \E d \in log'[v][j].certificates :
                   d.origin = a /\ d.round = lastCommitted'[v][a]
      <4>1. i \in DOMAIN log'[v] /\ c \in log'[v][i].certificates
        BY <1>3
      <4> QED
        BY <1>3, <2>2, <3>2, <4>1
    <3> QED
      BY <2>2, <3>1, <3>2 DEF CauseInv, LatestInv
  <2>3. ASSUME w = v, NEW c \in OrderDag(v, leader), c.origin = a, c.round = last[a]
        PROVE  \E i \in DOMAIN log'[w] : \E d \in log'[w][i].certificates :
                 d.origin = a /\ d.round = lastCommitted'[w][a]
    <3>1. n + 1 \in DOMAIN log'[v] /\ c \in log'[v][n + 1].certificates
      BY <1>3
    <3> QED
      BY <1>3, <2>3, <3>1
  <2> QED
    BY <1>4, <2>1, <2>2, <2>3
<1>7. GenesisInv'
  <2> SUFFICES ASSUME NEW w \in Validators, NEW c \in dag'[w] \cap Genesis
               PROVE  lastCommitted'[w][c.origin] = 0
    BY DEF GenesisInv
  <2>1. CASE w # v
    BY <1>4, <2>1 DEF CauseInv, GenesisInv
  <2>2. CASE w = v
    <3>1. c.round = 0 /\ c.origin \in Authorities /\ c.round >= last[c.origin]
      BY <1>3, <2>2 DEF Genesis
    <3>2. last[c.origin] \in Nat
      BY <1>4, <3>1
    <3> QED
      BY <1>3, <2>2, <3>1, <3>2
  <2> QED
    BY <2>1, <2>2
<1>8. CausalCommit'
  <2> SUFFICES ASSUME NEW w \in Validators, NEW i \in DOMAIN log'[w],
                      NEW c \in log'[w][i].certificates, NEW p \in parents[c] \ Genesis
               PROVE  \/ p \in Committed(log'[w], i)
                      \/ \E q \in Committed(log'[w], i - 1) :
                           q.origin = p.origin /\ q.round > p.round
                      \/ i > 1 /\ p.round + GcDepth < log'[w][i - 1].leader.round
    BY <1>4 DEF CausalCommit, Committed
  <2>1. CASE w # v
    BY <1>4, <2>1 DEF CauseInv, CausalCommit
  <2>2. CASE w = v /\ i \in 1 .. n
    <3>1. /\ Committed(log'[v], i) = Committed(log[v], i)
          /\ Committed(log'[v], i - 1) = Committed(log[v], i - 1)
      <4>1. i \in Int /\ i - 1 \in Int
        BY <1>3, <2>2
      <4>2. \A j \in 1 .. i : log'[v][j] = log[v][j]
        BY <1>3, <2>2
      <4>3. \A j \in 1 .. i - 1 : log'[v][j] = log[v][j]
        BY <1>3, <2>2
      <4> QED
        BY <4>1, <4>2, <4>3, CommittedPart
    <3>2. log'[v][i] = log[v][i] /\ (i > 1 => log'[v][i - 1] = log[v][i - 1])
      BY <1>3, <2>2
    <3>3. i \in DOMAIN log[v] /\ c \in log[v][i].certificates
      BY <1>3, <2>2, <3>2
    <3>4. \/ p \in Committed(log[v], i)
          \/ \E q \in Committed(log[v], i - 1) : q.origin = p.origin /\ q.round > p.round
          \/ i > 1 /\ p.round + GcDepth < log[v][i - 1].leader.round
      BY <3>3 DEF CauseInv, CausalCommit
    <3> QED
      BY <2>2, <3>1, <3>2, <3>4
  <2>3. CASE w = v /\ i = n + 1
    <3>1. c \in OrderDag(v, leader)
      BY <1>3, <2>3
    <3>2. \/ p \in OrderDag(v, leader)
          \/ \E j \in DOMAIN log[v] : p \in log[v][j].certificates
          \/ \E j \in DOMAIN log[v] : \E q \in log[v][j].certificates :
               q.origin = p.origin /\ q.round > p.round
          \/ p.round + GcDepth < lastCommittedRound[v]
      BY <1>3, <3>1, ParentIsAccounted
    <3>3. CASE p \in OrderDag(v, leader)
      <4>1. n + 1 \in 1 .. n + 1 /\ n + 1 \in Nat /\ p \in log'[v][n + 1].certificates
        BY <1>3, <3>3
      <4> QED
        BY <2>3, <4>1, CommittedIn
    <3>4. ASSUME NEW j \in DOMAIN log[v], p \in log[v][j].certificates
          PROVE  p \in Committed(log'[v], i)
      <4>1. j \in 1 .. n + 1 /\ n + 1 \in Nat /\ p \in log'[v][j].certificates
        BY <1>3, <3>4
      <4> QED
        BY <2>3, <4>1, CommittedIn
    <3>5. ASSUME NEW j \in DOMAIN log[v], NEW q \in log[v][j].certificates,
                 q.origin = p.origin, q.round > p.round
          PROVE  \E x \in Committed(log'[v], i - 1) : x.origin = p.origin /\ x.round > p.round
      <4>1. j \in 1 .. n /\ i - 1 = n /\ q \in log'[v][j].certificates
        BY <1>3, <2>3
      <4>2. q \in Committed(log'[v], i - 1)
        BY <1>3, <4>1, CommittedIn
      <4> QED
        BY <3>5, <4>2
    <3>6. CASE p.round + GcDepth < lastCommittedRound[v]
      <4>1. p.round \in Nat /\ GcDepth \in Nat
        <5>1. c \in dag[v] /\ c \notin Genesis
          BY <3>1 DEF OrderDag, CauseInv, GenesisInv, Genesis
        <5>2. c \in DOMAIN parents
          BY <5>1 DEF Inv, TypeOK
        <5>3. p \in DOMAIN parents
          BY <5>2, CertifiedDag DEF Inv
        <5> QED
          BY <5>3, CertifiedDag, TuskAssumption DEF Inv
      <4>2. log[v] # <<>>
        <5>1. lastCommittedRound[v] # 0
          BY <1>4, <3>6, <4>1
        <5> QED
          BY <5>1 DEF LeadInv, Ascending
      <4>3. n # 0
        BY <1>2, <4>2, LogTyped DEF Inv
      <4>4. lastCommittedRound[v] = log[v][n].leader.round
        BY <1>2, <4>2 DEF LeadInv, Ascending
      <4>5. i > 1 /\ i - 1 = n /\ log'[v][n] = log[v][n]
        BY <1>3, <2>3, <4>3
      <4> QED
        BY <2>3, <3>6, <4>4, <4>5
    <3> QED
      BY <2>3, <3>2, <3>3, <3>4, <3>5, <3>6
  <2> QED
    BY <1>3, <2>1, <2>2, <2>3
<1> QED
  BY <1>5, <1>6, <1>7, <1>8 DEF CauseInv

\* A certificate that is sent changes the dag alone.
LEMMA CauseProcess ==
  ASSUME Inv, CauseInv, NEW v \in Validators, NEW c \in DOMAIN parents, Process(v, c),
         \/ received' = received
         \/ received' = [received EXCEPT ![v] = @ \cup {c}]
  PROVE  CauseInv'
<1>1. /\ dag' = [dag EXCEPT ![v] = @ \cup {c}]
      /\ UNCHANGED <<parents, lastCommitted, lastCommittedRound, log>>
  BY ProcessFacts DEF Inv
<1>2. c \notin Genesis
  BY CertifiedDag DEF Inv
<1>3. GoneInv'
  BY <1>1 DEF CauseInv, GoneInv, Inv, TypeOK
<1>4. LatestInv'
  BY <1>1 DEF CauseInv, LatestInv
<1>5. GenesisInv'
  BY <1>1, <1>2 DEF CauseInv, GenesisInv, Inv, TypeOK
<1>6. CausalCommit'
  BY <1>1 DEF CauseInv, CausalCommit, Committed
<1> QED
  BY <1>3, <1>4, <1>5, <1>6 DEF CauseInv

LEMMA AlwaysCause == Spec => [](Inv /\ LeadInv /\ CauseInv)
<1>1. Init => CauseInv
  <2> SUFFICES ASSUME Init PROVE CauseInv
    OBVIOUS
  <2>1. \A v \in Validators : DOMAIN log[v] = {}
    BY DEF Init
  <2> QED
    BY <2>1 DEF Init, CauseInv, GoneInv, LatestInv, GenesisInv, CausalCommit, Genesis
<1>2. Inv /\ LeadInv /\ CauseInv /\ [Next]_vars => CauseInv'
  <2> SUFFICES ASSUME Inv, LeadInv, CauseInv, [Next]_vars PROVE CauseInv'
    OBVIOUS
  <2>1. ASSUME NEW v \in Validators, NEW c \in DOMAIN parents, Deliver(v, c) \/ Redeliver(v, c)
        PROVE  CauseInv'
    BY <2>1, CauseProcess DEF Deliver, Redeliver
  <2>2. CASE UNCHANGED vars
    BY <2>2 DEF vars, CauseInv, GoneInv, LatestInv, GenesisInv, CausalCommit, Committed
  <2> QED
    BY <2>1, <2>2, CauseCommit DEF Next
<1> QED
  BY <1>1, <1>2, AlwaysLead, PTL DEF Spec

\* A committed certificate never precedes a parent in the output (order_dag and
\* State::update), whatever is passed on again: each parent was output with it or
\* before it, unless a later certificate of its origin already was, or the GC
\* horizon had passed it.
THEOREM CommitIsCausal == Spec => []CausalCommit
<1>1. CauseInv => CausalCommit
  BY DEF CauseInv
<1> QED
  BY <1>1, AlwaysCause, PTL

-----------------------------------------------------------------------------
(* Agreement on the sub-dags *)

LEMMA InDag ==
  ASSUME TypeOK, NEW c \in DOMAIN parents
  PROVE  /\ c \in Certificate /\ c \notin Genesis /\ c.origin \in Authorities
         /\ c.round \in Nat /\ c.round # 0 /\ 0 <= c.round /\ 1 <= c.round
<1>1. c \in Certificate /\ c \notin Genesis /\ c.round \in Nat /\ c.round # 0 /\ c.origin \in Authorities
  BY CertifiedDag
<1>2. 0 <= c.round /\ 1 <= c.round
  BY <1>1
<1> QED
  BY <1>1, <1>2

LEMMA ParentInDag ==
  ASSUME TypeOK, NEW c \in DOMAIN parents, NEW p \in parents[c] \cap DOMAIN parents
  PROVE  p.round + 1 = c.round /\ p.round \in Nat /\ c.round \in Nat
<1>1. c.round \in Nat /\ p.round \in Nat
  BY CertifiedDag
<1>2. p.round + 1 = c.round
  BY CertifiedDag
<1> QED
  BY <1>1, <1>2

LEMMA LastTyped ==
  ASSUME TypeOK, NEW v \in Validators
  PROVE  /\ lastCommittedRound[v] \in Nat /\ GcDepth \in Nat
         /\ \A a \in Authorities : lastCommitted[v][a] \in Nat
<1>1. lastCommittedRound[v] \in Nat /\ lastCommitted[v] \in [Authorities -> Nat]
  BY DEF TypeOK
<1> QED
  BY <1>1, TuskAssumption

\* What a certificate depends on in the whole DAG, itself included.
History(l) ==
  {c \in DOMAIN parents : c.round <= l.round /\ c \in WalkDown(DOMAIN parents, l, 0)[c.round]}

LEMMA HistoryHolds ==
  ASSUME TypeOK, NEW l \in DOMAIN parents
  PROVE  /\ l \in History(l)
         /\ \A c \in History(l) : \A p \in parents[c] \cap DOMAIN parents : p \in History(l)
<1>1. l.round \in Nat /\ 0 <= l.round
  BY InDag
<1>2. PICK w : w = WalkDown(DOMAIN parents, l, 0)
  OBVIOUS
<1>3. IsWalk(w, DOMAIN parents, l, 0)
  BY <1>1, <1>2, WalkDownSteps
<1>4. l \in History(l)
  BY <1>1, <1>2, <1>3 DEF History, IsWalk
<1>5. ASSUME NEW c \in History(l), NEW p \in parents[c] \cap DOMAIN parents
      PROVE  p \in History(l)
  <2>1. c \in DOMAIN parents /\ c.round <= l.round /\ c \in w[c.round]
    BY <1>2 DEF History
  <2>2. p.round + 1 = c.round /\ p.round \in Nat /\ c.round \in Nat
    BY <2>1, ParentInDag
  <2>3. w[p.round] = CitedBy(DOMAIN parents, p.round, w[c.round])
    <3>1. p.round \in 0 .. l.round /\ p.round < l.round
      BY <1>1, <2>1, <2>2
    <3> QED
      BY <1>3, <2>2, <3>1 DEF IsWalk
  <2>4. p \in w[p.round]
    BY <2>1, <2>3 DEF CitedBy
  <2>5. p.round <= l.round
    BY <1>1, <2>1, <2>2
  <2> QED
    BY <1>2, <2>4, <2>5 DEF History
<1> QED
  BY <1>4, <1>5

\* It is the least set that does.
LEMMA HistoryLeast ==
  ASSUME TypeOK, NEW l \in DOMAIN parents, NEW S, l \in S,
         \A c \in History(l) \cap S : \A p \in parents[c] \cap DOMAIN parents : p \in S
  PROVE  History(l) \subseteq S
<1>1. l.round \in Nat /\ 0 <= l.round
  BY InDag
<1>2. PICK w : w = WalkDown(DOMAIN parents, l, 0)
  OBVIOUS
<1>3. IsWalk(w, DOMAIN parents, l, 0)
  BY <1>1, <1>2, WalkDownSteps
<1> DEFINE Good == {r \in 0 .. l.round : \A c \in w[r] : c \in S /\ c \in DOMAIN parents /\ c.round = r}
<1>4. l.round \in Good
  BY <1>1, <1>3 DEF IsWalk
<1>5. ASSUME NEW r \in 0 .. l.round, r < l.round, r + 1 \in Good PROVE r \in Good
  <2>1. ASSUME NEW p \in w[r] PROVE p \in S /\ p \in DOMAIN parents /\ p.round = r
    <3>1. w[r] = CitedBy(DOMAIN parents, r, w[r + 1])
      BY <1>3, <1>5 DEF IsWalk
    <3>2. PICK c \in w[r + 1] : p \in DOMAIN parents /\ p.round = r /\ p \in parents[c]
      BY <2>1, <3>1 DEF CitedBy
    <3>3. c \in S /\ c \in DOMAIN parents /\ c.round = r + 1
      BY <1>5, <3>2
    <3>4. c.round <= l.round
      BY <1>1, <1>5, <3>3
    <3>5. c \in History(l)
      BY <1>2, <3>2, <3>3, <3>4 DEF History
    <3> QED
      BY <3>2, <3>3, <3>5
  <2> QED
    BY <2>1
<1>6. 0 .. l.round \subseteq Good
  <2> HIDE DEF Good
  <2>1. 0 \in Nat
    OBVIOUS
  <2> QED
    BY <1>1, <1>4, <1>5, <2>1, InductionDown
<1>7. ASSUME NEW c \in History(l) PROVE c \in S
  <2>1. c \in DOMAIN parents /\ c.round <= l.round /\ c \in w[c.round]
    BY <1>2 DEF History
  <2>2. c.round \in 0 .. l.round
    <3>1. c.round \in Nat /\ 0 <= c.round
      BY <2>1, InDag
    <3> QED
      BY <1>1, <2>1, <3>1
  <2> QED
    BY <1>6, <2>1, <2>2
<1> QED
  BY <1>7

LEMMA HistoryTransitive ==
  ASSUME TypeOK, NEW l \in DOMAIN parents, NEW y \in History(l)
  PROVE  History(y) \subseteq History(l)
<1>1. y \in DOMAIN parents
  BY DEF History
<1>2. PICK S : S = History(l)
  OBVIOUS
<1>3. \A c \in History(y) \cap S : \A p \in parents[c] \cap DOMAIN parents : p \in S
  BY <1>2, HistoryHolds
<1> QED
  BY <1>1, <1>2, <1>3, HistoryLeast

LEMMA HistoryStable ==
  ASSUME parents' = parents, NEW l
  PROVE  History(l)' = History(l) /\ (Chained' <=> Chained)
  BY DEF History, WalkDown, Chained

\* What a validator was sent came with its history.
LEMMA HistoryReceived ==
  ASSUME Inv, NEW v \in Validators, NEW z \in received[v]
  PROVE  History(z) \subseteq received[v]
<1>1. TypeOK /\ z \in DOMAIN parents
  BY DEF Inv, TypeOK
<1>2. PICK S : S = received[v]
  OBVIOUS
<1>3. ASSUME NEW c \in S, NEW p \in parents[c] \cap DOMAIN parents PROVE p \in S
  <2>1. p \notin Genesis
    BY <1>1, CertifiedDag
  <2> QED
    BY <1>2, <2>1 DEF Inv, HistoryInv
<1> QED
  BY <1>1, <1>2, <1>3, HistoryLeast

\* A certificate depends on all earlier ones of its origin, if each cites the one
\* before it.
LEMMA OwnHistory ==
  ASSUME TypeOK, Chained, NEW z \in DOMAIN parents, NEW y \in DOMAIN parents,
         y.origin = z.origin, y.round <= z.round
  PROVE  y \in History(z)
<1>1. /\ y.round \in Nat /\ z.round \in Nat /\ y.round # 0 /\ 1 <= z.round
      /\ y \in Certificate /\ z \in Certificate
  BY InDag
<1> DEFINE own(r) == [origin |-> z.origin, round |-> r]
           Good == {r \in 1 .. z.round : own(r) \in History(z)}
<1>2. y = own(y.round) /\ z = own(z.round)
  BY <1>1 DEF Certificate
<1>3. z.round \in Good
  BY <1>1, <1>2, HistoryHolds
<1>4. ASSUME NEW r \in 1 .. z.round, r < z.round, r + 1 \in Good PROVE r \in Good
  <2>1. PICK e : e = own(r + 1)
    OBVIOUS
  <2>2. /\ e \in History(z) /\ e \in DOMAIN parents
        /\ e.round = r + 1 /\ e.origin = z.origin /\ r \in Nat /\ r # 0
    BY <1>1, <1>4, <2>1 DEF History
  <2>3. own(r) \in parents[e]
    <3>1. e.round > 1 /\ e.round - 1 = r
      BY <2>2
    <3>2. [origin |-> e.origin, round |-> e.round - 1] \in parents[e]
      BY <2>2, <3>1 DEF Chained
    <3> QED
      BY <2>2, <3>1, <3>2
  <2>4. own(r) \in DOMAIN parents
    <3>1. own(r) \in DOMAIN parents \cup Genesis
      BY <2>2, <2>3, CertifiedDag
    <3>2. own(r) \notin Genesis
      BY <2>2 DEF Genesis
    <3> QED
      BY <3>1, <3>2
  <2> HIDE DEF own
  <2>5. own(r) \in History(z)
    BY <2>2, <2>3, <2>4, HistoryHolds
  <2> QED
    BY <2>5
<1>5. 1 .. z.round \subseteq Good
  <2> HIDE DEF Good
  <2>1. 1 \in Nat
    OBVIOUS
  <2> QED
    BY <1>1, <1>3, <1>4, <2>1, InductionDown
<1>6. y.round \in Good
  BY <1>1, <1>5
<1> QED
  BY <1>2, <1>6

\* What a validator outputs with its i-th leader: the history of the leader that
\* no earlier leader had, down to the GC horizon.
Fresh(v, i) ==
  {c \in History(log[v][i].leader) :
     /\ \A j \in 1 .. i - 1 : c \notin History(log[v][j].leader)
     /\ i > 1 => c.round + GcDepth >= log[v][i - 1].leader.round}

\* Of the history of its leaders, a validator has output everything, except what
\* the GC horizon has passed.
Output(v) ==
  \A i \in DOMAIN log[v] : \A c \in History(log[v][i].leader) :
    c.round <= lastCommitted[v][c.origin] \/ c.round + GcDepth < lastCommittedRound[v]

FreshOf(v) ==
  /\ \A i \in DOMAIN log[v] : /\ log[v][i].leader \in DOMAIN parents
                              /\ log[v][i].certificates = Fresh(v, i)
  /\ Output(v)
  /\ \A c \in dag[v] : c.round >= lastCommitted[v][c.origin]

FreshInv == Chained /\ redelivered = 0 => \A v \in Validators : FreshOf(v)

\* Up to its last committed certificate, an origin's certificates are in the
\* history of some committed leader.
LEMMA CommittedHistory ==
  ASSUME Inv, CauseInv, Chained, NEW v \in Validators, FreshOf(v),
         NEW y \in DOMAIN parents, y.round <= lastCommitted[v][y.origin]
  PROVE  \E i \in DOMAIN log[v] : y \in History(log[v][i].leader) /\ y \in received[v]
<1>0. TypeOK
  BY DEF Inv
<1>1. /\ TypeOK /\ y.round \in Nat /\ y.round # 0 /\ y.origin \in Authorities
      /\ lastCommitted[v][y.origin] \in Nat
  BY <1>0, InDag, LastTyped
<1>2. PICK i \in DOMAIN log[v] : \E z \in log[v][i].certificates :
        z.origin = y.origin /\ z.round = lastCommitted[v][y.origin]
  BY <1>1 DEF CauseInv, LatestInv
<1>3. PICK z \in log[v][i].certificates : z.origin = y.origin /\ y.round <= z.round
  BY <1>2
<1>4. log[v][i].leader \in DOMAIN parents /\ z \in History(log[v][i].leader)
  BY DEF FreshOf, Fresh
<1>5. z \in DOMAIN parents
  BY <1>4 DEF History
<1>6. z \in received[v]
  <2>1. z \notin Genesis
    BY <1>1, <1>5, CertifiedDag
  <2> QED
    BY <2>1 DEF Inv, CommittedInv
<1>7. y \in History(z)
  BY <1>1, <1>3, <1>5, OwnHistory
<1>8. y \in History(log[v][i].leader)
  BY <1>1, <1>4, <1>7, HistoryTransitive
<1>9. y \in received[v]
  BY <1>6, <1>7, HistoryReceived
<1> QED
  BY <1>8, <1>9

\* order_dag finds what is still to be output of the history of a leader: no
\* certificate on the way to it was output.
LEMMA StillOpen ==
  ASSUME Inv, LeadInv, CauseInv, Chained, NEW v \in Validators, FreshOf(v),
         NEW leader \in pending[v], leader \in DOMAIN parents
  PROVE  \A c \in History(leader) :
           /\ c.round > lastCommitted[v][c.origin]
           /\ c.round + GcDepth >= lastCommittedRound[v]
           => c \in OrderDag(v, leader)
<1> DEFINE open == {x \in dag[v] : lastCommitted[v][x.origin] # x.round}
           Due(c) == /\ c.round > lastCommitted[v][c.origin]
                     /\ c.round + GcDepth >= lastCommittedRound[v]
<1>0. TypeOK
  BY DEF Inv
<1>1. /\ TypeOK /\ leader.round \in Nat /\ 0 <= leader.round /\ GcDepth \in Nat
      /\ lastCommittedRound[v] \in Nat
  BY <1>0, InDag, LastTyped
<1>2. ASSUME NEW c \in DOMAIN parents
      PROVE  c.round \in Nat /\ c.origin \in Authorities /\ lastCommitted[v][c.origin] \in Nat
  BY <1>0, InDag, LastTyped
<1>3. leader \in received[v] /\ History(leader) \subseteq received[v]
  <2>1. leader \in dag[v] /\ leader \notin Genesis
    BY <1>1, CertifiedDag DEF LeadInv, Waiting
  <2>2. leader \in received[v]
    BY <2>1 DEF Inv, TypeOK
  <2> QED
    BY <2>2, HistoryReceived
<1>4. PICK walk : walk = WalkDown(open, leader, 0)
  OBVIOUS
<1>5. IsWalk(walk, open, leader, 0)
  <2> HIDE DEF open
  <2> QED
    BY <1>1, <1>4, WalkDownSteps
<1>6. ASSUME NEW c \in History(leader), Due(c) PROVE c \in open
  <2>1. c \in DOMAIN parents /\ c \in received[v]
    BY <1>3 DEF History
  <2>2. c.round \in Nat /\ lastCommitted[v][c.origin] \in Nat
    BY <1>2, <2>1
  <2>3. c \in dag[v]
    BY <1>1, <1>6, <2>1, <2>2 DEF CauseInv, GoneInv
  <2> QED
    BY <1>6, <2>2, <2>3
<1> DEFINE S == {c \in History(leader) : Due(c) => c \in walk[c.round]}
<1>7. leader \in S
  BY <1>1, <1>5, HistoryHolds DEF IsWalk
<1>8. ASSUME NEW c \in History(leader) \cap S, NEW p \in parents[c] \cap DOMAIN parents
      PROVE  p \in S
  <2>1. p \in History(leader) /\ c \in DOMAIN parents
    BY <1>1, HistoryHolds DEF History
  <2> SUFFICES ASSUME Due(p) PROVE p \in walk[p.round]
    BY <2>1
  <2>2. p.round + 1 = c.round /\ p.round \in Nat /\ c.round \in Nat /\ c.round <= leader.round
    BY <1>0, <2>1, ParentInDag DEF History
  <2>3. c.round > lastCommitted[v][c.origin]
    <3> SUFFICES ASSUME c.round <= lastCommitted[v][c.origin] PROVE FALSE
      BY <1>2, <2>1
    <3>1. PICK i \in DOMAIN log[v] : c \in History(log[v][i].leader)
      BY <2>1, CommittedHistory
    <3>2. log[v][i].leader \in DOMAIN parents
      BY DEF FreshOf
    <3>3. p \in History(log[v][i].leader)
      BY <1>1, <3>1, <3>2, HistoryHolds
    <3>4. p.round <= lastCommitted[v][p.origin] \/ p.round + GcDepth < lastCommittedRound[v]
      BY <3>3 DEF FreshOf, Output
    <3> QED
      BY <1>1, <1>2, <2>2, <3>4
  <2>4. c.round + GcDepth >= lastCommittedRound[v]
    BY <1>1, <2>2
  <2>5. c \in walk[c.round]
    BY <2>3, <2>4
  <2>6. p \in open
    BY <1>6, <2>1
  <2>7. p.round \in 0 .. leader.round /\ p.round < leader.round
    BY <1>1, <2>2
  <2> HIDE DEF open
  <2>8. walk[p.round] = CitedBy(open, p.round, walk[c.round])
    BY <1>5, <2>2, <2>7 DEF IsWalk
  <2> QED
    BY <2>5, <2>6, <2>8 DEF CitedBy
<1>9. History(leader) \subseteq S
  <2> HIDE DEF S
  <2> QED
    BY <1>1, <1>7, <1>8, HistoryLeast
<1>10. ASSUME NEW c \in History(leader), Due(c) PROVE c \in OrderDag(v, leader)
  <2>1. c \in walk[c.round] /\ c \in open /\ c.round <= leader.round
    BY <1>6, <1>9, <1>10 DEF History
  <2> QED
    BY <1>4, <1>10, <2>1 DEF OrderDag
<1> QED
  BY <1>10

\* The sub-dag that order_dag finds.
LEMMA OrderDagIsDue ==
  ASSUME Inv, LeadInv, CauseInv, Chained, NEW v \in Validators, FreshOf(v),
         NEW leader \in pending[v], leader \in DOMAIN parents
  PROVE  OrderDag(v, leader) =
           {c \in History(leader) : /\ c.round > lastCommitted[v][c.origin]
                                    /\ c.round + GcDepth >= lastCommittedRound[v]}
<1> DEFINE open == {x \in dag[v] : lastCommitted[v][x.origin] # x.round}
<1>0. TypeOK
  BY DEF Inv
<1>1. /\ TypeOK /\ leader.round \in Nat /\ 0 <= leader.round
      /\ dag[v] \subseteq DOMAIN parents \cup Genesis
  <2>1. dag[v] \subseteq DOMAIN parents \cup Genesis
    BY <1>0 DEF TypeOK
  <2> QED
    BY <1>0, <2>1, InDag
<1>2. open \subseteq DOMAIN parents
  BY <1>1 DEF CauseInv, GenesisInv, Genesis
<1>3. PICK walk, hist : walk = WalkDown(open, leader, 0) /\ hist = WalkDown(DOMAIN parents, leader, 0)
  OBVIOUS
<1>4. IsWalk(walk, open, leader, 0) /\ IsWalk(hist, DOMAIN parents, leader, 0)
  <2> HIDE DEF open
  <2> QED
    BY <1>1, <1>3, WalkDownSteps
<1> DEFINE Good == {r \in 0 .. leader.round : walk[r] \subseteq hist[r]}
<1>5. leader.round \in Good
  BY <1>1, <1>4 DEF IsWalk
<1>6. ASSUME NEW r \in 0 .. leader.round, r < leader.round, r + 1 \in Good PROVE r \in Good
  <2>1. walk[r + 1] \subseteq hist[r + 1]
    BY <1>6
  <2> HIDE DEF open
  <2>2. walk[r] = CitedBy(open, r, walk[r + 1]) /\ hist[r] = CitedBy(DOMAIN parents, r, hist[r + 1])
    BY <1>4, <1>6 DEF IsWalk
  <2>3. walk[r] \subseteq hist[r]
    BY <1>2, <2>1, <2>2 DEF CitedBy
  <2> QED
    BY <2>3
<1>7. 0 .. leader.round \subseteq Good
  <2> HIDE DEF Good, open
  <2>1. 0 \in Nat
    OBVIOUS
  <2> QED
    BY <1>1, <1>5, <1>6, <2>1, InductionDown
<1>8. ASSUME NEW c \in OrderDag(v, leader)
      PROVE  /\ c \in History(leader) /\ c.round > lastCommitted[v][c.origin]
             /\ c.round + GcDepth >= lastCommittedRound[v]
  <2>1. /\ c \in open /\ c.round <= leader.round /\ c \in walk[c.round]
        /\ c.round + GcDepth >= lastCommittedRound[v]
    BY <1>3 DEF OrderDag
  <2>2. c \in DOMAIN parents
    BY <1>2, <2>1
  <2>3. c.round \in Nat /\ c.origin \in Authorities /\ lastCommitted[v][c.origin] \in Nat
    BY <1>0, <2>2, InDag, LastTyped
  <2>4. c \in hist[c.round]
    <3>1. c.round \in 0 .. leader.round
      BY <1>1, <2>1, <2>3
    <3> QED
      BY <1>7, <2>1, <3>1
  <2>5. c \in History(leader)
    BY <1>3, <2>1, <2>2, <2>4 DEF History
  <2>6. c.round >= lastCommitted[v][c.origin] /\ c.round # lastCommitted[v][c.origin]
    BY <2>1 DEF FreshOf
  <2> QED
    BY <2>1, <2>3, <2>5, <2>6
<1> QED
  BY <1>8, StillOpen

LEMMA FreshStable ==
  ASSUME NEW v \in Validators, parents' = parents, NEW i, NEW s, s = log'[v]
  PROVE  Fresh(v, i)' =
           {c \in History(s[i].leader) :
             /\ \A j \in 1 .. i - 1 : c \notin History(s[j].leader)
             /\ i > 1 => c.round + GcDepth >= s[i - 1].leader.round}
  BY DEF Fresh, History, WalkDown

LEMMA OutputStable ==
  ASSUME NEW v \in Validators, parents' = parents, NEW s, s = log'[v],
         \A i \in DOMAIN s : \A c \in History(s[i].leader) :
           \/ c.round <= lastCommitted'[v][c.origin]
           \/ c.round + GcDepth < lastCommittedRound'[v]
  PROVE  Output(v)'
<1> SUFFICES ASSUME NEW i \in DOMAIN s, NEW c \in History(log[v][i].leader)'
             PROVE  \/ c.round <= lastCommitted'[v][c.origin]
                    \/ c.round + GcDepth < lastCommittedRound'[v]
  BY DEF Output
<1>1. History(log[v][i].leader)' = History(s[i].leader)
  BY DEF History, WalkDown
<1> QED
  BY <1>1

\* The other validators.
LEMMA FreshElsewhere ==
  ASSUME NEW w \in Validators, FreshOf(w), parents' = parents, log'[w] = log[w],
         lastCommitted'[w] = lastCommitted[w], lastCommittedRound'[w] = lastCommittedRound[w],
         \A c \in dag'[w] : c.round >= lastCommitted'[w][c.origin]
  PROVE  FreshOf(w)'
<1>1. Output(w)'
  <2>1. PICK s : s = log'[w]
    OBVIOUS
  <2> QED
    BY <2>1, OutputStable DEF FreshOf, Output
<1>2. ASSUME NEW i \in DOMAIN log'[w]
      PROVE  log'[w][i].leader \in DOMAIN parents' /\ log'[w][i].certificates = Fresh(w, i)'
  <2>1. Fresh(w, i)' = Fresh(w, i)
    BY DEF Fresh, History, WalkDown
  <2> QED
    BY <2>1 DEF FreshOf
<1> QED
  BY <1>1, <1>2 DEF FreshOf

\* The next sub-dag of a validator is again what no earlier leader had.
LEMMA FreshCommit ==
  ASSUME Inv, LeadInv, CauseInv, CommittedInv', Chained, NEW v \in Validators, FreshOf(v),
         NEW leader, NEW last, Flattens(v, leader, last), FlattensOnly(v, leader, last)
  PROVE  FreshOf(v)'
<1>0. TypeOK
  BY DEF Inv
<1>1. PICK n, s : n = Len(log[v]) /\ s = log'[v]
  OBVIOUS
<1>2. /\ leader \in pending[v] /\ n \in Nat
      /\ DOMAIN log[v] = 1 .. n /\ DOMAIN s = 1 .. n + 1
      /\ \A i \in 1 .. n : s[i] = log[v][i]
      /\ s[n + 1].leader = leader /\ s[n + 1].certificates = OrderDag(v, leader)
      /\ lastCommitted'[v] = last /\ lastCommittedRound'[v] = leader.round
      /\ dag'[v] = {c \in dag[v] : c.round >= last[c.origin] /\ c.round + GcDepth >= leader.round}
  BY <1>1 DEF Flattens
<1>3. /\ parents' = parents
      /\ \A a \in Authorities : lastCommitted[v][a] <= last[a] /\ last[a] \in Nat
      /\ leader.round \in Nat /\ lastCommittedRound[v] < leader.round
  BY DEF FlattensOnly
<1>4. /\ lastCommittedRound[v] \in Nat /\ GcDepth \in Nat
      /\ \A a \in Authorities : lastCommitted[v][a] \in Nat
  BY <1>0, LastTyped
<1>5. leader \in DOMAIN parents
  <2>1. leader \in dag[v]
    BY <1>2 DEF LeadInv, Waiting
  <2>2. leader \notin Genesis
    BY <1>3, <1>4 DEF Genesis
  <2> QED
    BY <1>0, <2>1, <2>2 DEF TypeOK
<1>6. IF n = 0 THEN lastCommittedRound[v] = 0 ELSE lastCommittedRound[v] = s[n].leader.round
  <2>1. n = 0 <=> log[v] = <<>>
    BY <1>0, <1>1, LogTyped
  <2>2. n # 0 => n \in 1 .. n
    BY <1>2
  <2> QED
    BY <1>1, <1>2, <2>1, <2>2 DEF LeadInv, Ascending
<1>7. ASSUME NEW c \in DOMAIN parents
      PROVE  c.round \in Nat /\ c.origin \in Authorities
  BY <1>0, InDag
<1>8. ASSUME NEW c \in History(leader)
      PROVE  /\ c \in DOMAIN parents
             /\ c.round <= lastCommitted[v][c.origin] =>
                  \E j \in 1 .. n : c \in History(s[j].leader)
             /\ \A j \in 1 .. n : c \in History(s[j].leader) =>
                  \/ c.round <= lastCommitted[v][c.origin]
                  \/ c.round + GcDepth < lastCommittedRound[v]
  <2>1. c \in DOMAIN parents
    BY DEF History
  <2>2. ASSUME c.round <= lastCommitted[v][c.origin]
        PROVE  \E j \in 1 .. n : c \in History(s[j].leader)
    <3>1. PICK j \in DOMAIN log[v] : c \in History(log[v][j].leader)
      BY <2>1, <2>2, CommittedHistory
    <3> QED
      BY <1>2, <3>1
  <2>3. ASSUME NEW j \in 1 .. n, c \in History(s[j].leader)
        PROVE  \/ c.round <= lastCommitted[v][c.origin]
               \/ c.round + GcDepth < lastCommittedRound[v]
    BY <1>2, <2>3 DEF FreshOf, Output
  <2> QED
    BY <2>1, <2>2, <2>3
<1>9. OrderDag(v, leader) =
        {c \in History(leader) : /\ c.round > lastCommitted[v][c.origin]
                                 /\ c.round + GcDepth >= lastCommittedRound[v]}
  BY <1>2, <1>5, OrderDagIsDue
<1>10. s[n + 1].certificates = Fresh(v, n + 1)'
  <2>1. PICK m : m = n + 1
    OBVIOUS
  <2>2. Fresh(v, m)' =
          {c \in History(s[m].leader) :
            /\ \A j \in 1 .. m - 1 : c \notin History(s[j].leader)
            /\ m > 1 => c.round + GcDepth >= s[m - 1].leader.round}
    BY <1>1, <1>3, FreshStable
  <2>3. s[m].leader = leader /\ 1 .. m - 1 = 1 .. n /\ m - 1 = n /\ (m > 1 <=> n # 0)
    BY <1>2, <2>1
  <2>4. ASSUME NEW c \in History(leader)
        PROVE  (/\ c.round > lastCommitted[v][c.origin]
                /\ c.round + GcDepth >= lastCommittedRound[v])
               <=> (/\ \A j \in 1 .. m - 1 : c \notin History(s[j].leader)
                    /\ m > 1 => c.round + GcDepth >= s[m - 1].leader.round)
    <3>1. c.round \in Nat /\ lastCommitted[v][c.origin] \in Nat
      BY <1>4, <1>7, <1>8
    <3>2. c.round + GcDepth >= lastCommittedRound[v]
            <=> (m > 1 => c.round + GcDepth >= s[m - 1].leader.round)
      BY <1>4, <1>6, <2>3, <3>1
    <3>3. CASE c.round + GcDepth >= lastCommittedRound[v]
      BY <1>4, <1>8, <2>3, <3>1, <3>2, <3>3
    <3> QED
      BY <3>2, <3>3
  <2> QED
    BY <1>2, <1>9, <2>1, <2>2, <2>3, <2>4
<1>11. ASSUME NEW i \in 1 .. n PROVE s[i].certificates = Fresh(v, i)'
  <2>1. PICK m : m = i
    OBVIOUS
  <2>2. Fresh(v, m)' =
          {c \in History(s[m].leader) :
            /\ \A j \in 1 .. m - 1 : c \notin History(s[j].leader)
            /\ m > 1 => c.round + GcDepth >= s[m - 1].leader.round}
    BY <1>1, <1>3, FreshStable
  <2>3. s[m] = log[v][m] /\ (\A j \in 1 .. m - 1 : s[j] = log[v][j]) /\ (m > 1 => s[m - 1] = log[v][m - 1])
    <3>1. m \in 1 .. n /\ (\A j \in 1 .. m - 1 : j \in 1 .. n) /\ (m > 1 => m - 1 \in 1 .. n)
      BY <1>2, <2>1
    <3> QED
      BY <1>2, <3>1
  <2>4. Fresh(v, m)' = Fresh(v, m)
    BY <2>2, <2>3 DEF Fresh
  <2>5. log[v][m].certificates = Fresh(v, m)
    BY <1>2, <2>1 DEF FreshOf
  <2> QED
    BY <2>1, <2>3, <2>4, <2>5
<1>12. ASSUME NEW i \in DOMAIN s, NEW c \in History(s[i].leader)
       PROVE  \/ c.round <= lastCommitted'[v][c.origin]
              \/ c.round + GcDepth < lastCommittedRound'[v]
  <2>1. /\ c \in DOMAIN parents /\ c.round \in Nat
        /\ lastCommitted[v][c.origin] \in Nat /\ last[c.origin] \in Nat
        /\ lastCommitted[v][c.origin] <= last[c.origin]
    BY <1>3, <1>4, <1>7 DEF History
  <2>2. CASE c.round <= lastCommitted[v][c.origin] \/ c.round + GcDepth < lastCommittedRound[v]
    BY <1>2, <1>3, <1>4, <2>1, <2>2
  <2>3. CASE i = n + 1 /\ ~ (c.round <= lastCommitted[v][c.origin] \/ c.round + GcDepth < lastCommittedRound[v])
    <3>1. c \in OrderDag(v, leader)
      BY <1>2, <1>4, <1>9, <2>1, <2>3
    <3>2. n + 1 \in DOMAIN log'[v] /\ c \in log'[v][n + 1].certificates
      BY <1>1, <1>2, <2>3, <3>1
    <3> QED
      BY <3>2 DEF CommittedInv
  <2>4. CASE i \in 1 .. n
    <3>1. c \in History(log[v][i].leader) /\ i \in DOMAIN log[v]
      BY <1>2, <2>4
    <3> QED
      BY <2>2, <3>1 DEF FreshOf, Output
  <2>5. i = n + 1 \/ i \in 1 .. n
    BY <1>2
  <2> QED
    BY <2>2, <2>3, <2>4, <2>5
<1>13. Output(v)'
  BY <1>1, <1>3, <1>12, OutputStable
<1>14. ASSUME NEW i \in DOMAIN log'[v]
       PROVE  log'[v][i].leader \in DOMAIN parents' /\ log'[v][i].certificates = Fresh(v, i)'
  <2>1. CASE i = n + 1
    BY <1>1, <1>2, <1>3, <1>5, <1>10, <2>1
  <2>2. CASE i \in 1 .. n
    BY <1>1, <1>2, <1>3, <1>11, <2>2 DEF FreshOf
  <2> QED
    BY <1>1, <1>2, <2>1, <2>2
<1>15. \A c \in dag'[v] : c.round >= lastCommitted'[v][c.origin]
  BY <1>2
<1> QED
  BY <1>13, <1>14, <1>15 DEF FreshOf

\* A certificate that arrives is not one that is covered already: what is below
\* last_committed was sent before.
LEMMA FreshProcess ==
  ASSUME Inv, CauseInv, FreshInv, NEW v \in Validators, NEW c \in DOMAIN parents,
         Deliver(v, c) \/ Redeliver(v, c)
  PROVE  FreshInv'
<1>1. /\ dag' = [dag EXCEPT ![v] = @ \cup {c}]
      /\ UNCHANGED <<parents, lastCommitted, lastCommittedRound, log>>
  BY ProcessFacts DEF Inv, Deliver, Redeliver
<1> SUFFICES ASSUME Chained', redelivered' = 0, NEW w \in Validators PROVE FreshOf(w)'
  BY DEF FreshInv
<1>2. Chained
  BY <1>1 DEF Chained
<1>3. redelivered = 0 /\ (c \in received[v] => c \in dag[v])
  <2>1. redelivered \in Nat
    BY TuskAssumption DEF Inv, TypeOK
  <2> QED
    BY <2>1 DEF Deliver, Redeliver
<1>4. FreshOf(v) /\ FreshOf(w)
  BY <1>2, <1>3 DEF FreshInv
<1>5. c.round >= lastCommitted[v][c.origin]
  <2>1. CASE c \in received[v]
    BY <1>3, <1>4, <2>1 DEF FreshOf
  <2>2. CASE c \notin received[v]
    <3>1. ~ (c.round <= lastCommitted[v][c.origin])
      BY <1>2, <1>4, <2>2, CommittedHistory
    <3>2. c.round \in Nat /\ lastCommitted[v][c.origin] \in Nat
      BY InDag, LastTyped DEF Inv
    <3> QED
      BY <3>1, <3>2
  <2> QED
    BY <2>1, <2>2
<1>6. dag'[w] \subseteq dag[w] \cup (IF w = v THEN {c} ELSE {})
  BY <1>1 DEF Inv, TypeOK
<1>7. \A d \in dag'[w] : d.round >= lastCommitted'[w][d.origin]
  BY <1>1, <1>4, <1>5, <1>6 DEF FreshOf
<1> QED
  BY <1>1, <1>4, <1>7, FreshElsewhere

LEMMA NextFresh ==
  Inv /\ Inv' /\ LeadInv /\ CauseInv /\ FreshInv /\ [Next]_vars => FreshInv'
<1> SUFFICES ASSUME Inv, Inv', LeadInv, CauseInv, FreshInv, [Next]_vars PROVE FreshInv'
  OBVIOUS
<1>1. ASSUME NEW v \in Validators, NEW c \in DOMAIN parents, Deliver(v, c) \/ Redeliver(v, c)
      PROVE  FreshInv'
  BY <1>1, FreshProcess
<1>2. ASSUME NEW v \in Validators, CommitLeader(v) PROVE FreshInv'
  <2>1. PICK leader, last : Flattens(v, leader, last) /\ FlattensOnly(v, leader, last)
    BY <1>2, CommitLeaderFlattens
  <2>2. /\ parents' = parents /\ redelivered' = redelivered
        /\ \A w \in Validators \ {v} :
             /\ log'[w] = log[w] /\ dag'[w] = dag[w]
             /\ lastCommitted'[w] = lastCommitted[w]
             /\ lastCommittedRound'[w] = lastCommittedRound[w]
    BY <2>1 DEF FlattensOnly
  <2> SUFFICES ASSUME Chained', redelivered' = 0, NEW w \in Validators PROVE FreshOf(w)'
    BY DEF FreshInv
  <2>3. Chained /\ FreshOf(w)
    BY <2>2 DEF Chained, FreshInv
  <2>4. CASE w = v
    BY <2>1, <2>3, <2>4, FreshCommit DEF Inv
  <2>5. CASE w # v
    BY <2>2, <2>3, <2>5, FreshElsewhere DEF FreshOf
  <2> QED
    BY <2>4, <2>5
<1>3. CASE UNCHANGED vars
  <2> SUFFICES ASSUME Chained', redelivered' = 0, NEW w \in Validators PROVE FreshOf(w)'
    BY DEF FreshInv
  <2>1. Chained /\ FreshOf(w)
    BY <1>3 DEF vars, Chained, FreshInv
  <2> QED
    BY <1>3, <2>1, FreshElsewhere DEF vars, FreshOf
<1> QED
  BY <1>1, <1>2, <1>3 DEF Next

LEMMA SameSubDags ==
  ASSUME Inv, LeadInv, FreshInv, Chained, redelivered = 0,
         NEW v \in Validators, NEW w \in Validators,
         NEW i \in DOMAIN log[v] \cap DOMAIN log[w]
  PROVE  log[v][i] = log[w][i]
<1>1. \A j \in 1 .. i : log[v][j].leader = log[w][j].leader
  <2>1. PICK nv, nw : /\ nv \in Nat /\ nw \in Nat
                      /\ DOMAIN log[v] = 1 .. nv /\ DOMAIN log[w] = 1 .. nw
    BY LogTyped DEF Inv
  <2>2. \A j \in 1 .. i : j \in DOMAIN log[v] \cap DOMAIN log[w]
    BY <2>1
  <2> QED
    BY <2>2, SameLeaders
<1>2. i \in Nat /\ i >= 1
  BY LogTyped DEF Inv
<1>3. log[v][i].leader = log[w][i].leader
  BY <1>1, <1>2
<1>4. Fresh(v, i) = Fresh(w, i)
  <2>1. \A j \in 1 .. i - 1 : log[v][j].leader = log[w][j].leader
    BY <1>1, <1>2
  <2>2. i > 1 => log[v][i - 1].leader = log[w][i - 1].leader
    BY <1>1, <1>2
  <2> QED
    BY <1>3, <2>1, <2>2 DEF Fresh
<1>5. log[v][i].certificates = log[w][i].certificates
  BY <1>4 DEF FreshInv, FreshOf
<1>6. /\ log[v][i] \in [leader : Certificate, certificates : SUBSET Certificate]
      /\ log[w][i] \in [leader : Certificate, certificates : SUBSET Certificate]
  <2>1. PICK T : T = [leader : Certificate, certificates : SUBSET Certificate]
    OBVIOUS
  <2>2. log[v] \in Seq(T) /\ log[w] \in Seq(T)
    BY <2>1 DEF Inv, TypeOK
  <2>3. log[v][i] \in T /\ log[w][i] \in T
    BY <2>2
  <2> QED
    BY <2>1, <2>3
<1> QED
  BY <1>3, <1>5, <1>6

\* If every authority cites its own previous certificate and none is passed on
\* again after its removal, the validators output the same certificates for the
\* same leaders, whenever each was sent them (order_dag with the last_committed
\* of State::update): a sub-dag is the history of its leader that no earlier
\* leader had, down to the GC horizon.
THEOREM SubDagsAgree == Spec => []AgreementIfChained
<1>1. Init => FreshInv
  <2> SUFFICES ASSUME Init, NEW v \in Validators PROVE FreshOf(v)
    BY DEF FreshInv
  <2>1. DOMAIN log[v] = {} /\ Output(v)
    BY DEF Init, Output
  <2>2. \A c \in dag[v] : c.round = 0 /\ lastCommitted[v][c.origin] = 0
    BY DEF Init, Genesis
  <2> QED
    BY <2>1, <2>2 DEF FreshOf
<1>2. Inv /\ LeadInv /\ FreshInv => AgreementIfChained
  <2> SUFFICES ASSUME Inv, LeadInv, FreshInv, Chained, redelivered = 0,
                      NEW v \in Validators, NEW w \in Validators
               PROVE  IsPrefixOf(log[v], log[w]) \/ IsPrefixOf(log[w], log[v])
    BY DEF AgreementIfChained
  <2>1. /\ Len(log[v]) \in Nat /\ DOMAIN log[v] = 1 .. Len(log[v])
        /\ Len(log[w]) \in Nat /\ DOMAIN log[w] = 1 .. Len(log[w])
    BY LogTyped DEF Inv
  <2>2. \A i \in DOMAIN log[v] \cap DOMAIN log[w] : log[v][i] = log[w][i]
    BY SameSubDags
  <2> QED
    BY <2>1, <2>2 DEF IsPrefixOf
<1> QED
  BY <1>1, <1>2, AlwaysCause, NextFresh, PTL DEF Spec
=============================================================================
