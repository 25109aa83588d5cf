----------------------------- MODULE MCRouting -----------------------------
(***************************************************************************)
(* Four authorities, of which A and B decide, C does neither and D is no   *)
(* correct one: it connects to the client and says what it likes.  A is    *)
(* overloaded and gives both its accounts away; then B is overloaded with  *)
(* one of them.                                                            *)
(***************************************************************************)
EXTENDS Routing, TLC

CONSTANTS A, B, C, D

Rounds == 1 .. 8

MCKeys == <<A, B, C, D>>
MCHome == 1 :> A @@ 2 :> A
MCCapacity == A :> 1 @@ B :> 2 @@ C :> 10 @@ D :> 1
MCLatency ==
  [h \in {A, B, C, D} |-> h :> 0 @@ B :> 1 @@ A :> 2 @@ C :> 3 @@ D :> 4]

\* The transactions per account in a certificate, and its queue delay.
Load(a, r) ==
  CASE a = A /\ r <= 3 -> 1 :> 4 @@ 2 :> 3
    [] a = B /\ r \in {3, 4} -> 1 :> 6 @@ 2 :> 0
    [] a = B /\ r > 4 -> 1 :> 10 @@ 2 :> 0
    [] a = C /\ r > 2 -> 1 :> 0 @@ 2 :> 3
    [] OTHER -> 1 :> 0 @@ 2 :> 0
QueueDelay(a, r) ==
  CASE a = A -> (IF r <= 3 THEN 1 ELSE 0)
    [] a = B -> (IF r > 3 THEN 2 ELSE 0)
    [] a = C -> 0
    [] a = D -> 1

Skew == A :> 1 @@ B :> 2 @@ C :> 0 @@ D :> 1

\* The DAG of certificates certs whose clocks show time[r] in round r; all but
\* D's cite everything of the round before but what is late.
DagOf(certs, time, late, resent) ==
  [c \in certs |->
     [parents |-> {p \in certs : /\ p.round = c.round - 1
                                 /\ p.origin \notin late \/ c.origin \in late},
      counts |-> Load(c.origin, c.round),
      delay |-> QueueDelay(c.origin, c.round),
      createdAt |-> time[c.round] + Skew[c.origin],
      resent |-> c \in resent]]

\* All certificates of A, B and C before round r, and the deciders' of round r.
UpTo(r) == [origin : {A, B, C}, round : 1 .. r - 1] \cup [origin : {A, B}, round : {r}]

FullDag == DagOf(UpTo(8), [r \in Rounds |-> 4 * r], {}, {})
\* The clocks of the first rounds stand still.
FrozenDag == DagOf(UpTo(6), [r \in Rounds |-> IF r < 3 THEN 8 ELSE 4 * r], {}, {})
\* D's certificate may reach a validator at any time, or never.
LateDag == DagOf(UpTo(4) \cup [origin : {D}, round : {1}], [r \in Rounds |-> 4 * r], {D}, {})
\* A is sent again the own certificate it evaluates first, and one of that window,
\* which it drops two rounds later.
ResentDag == DagOf(UpTo(6) \ {[origin |-> B, round |-> 6]}, [r \in Rounds |-> 8 * r], {},
                   {[origin |-> A, round |-> 4], [origin |-> C, round |-> 1]})

AllDags == {FullDag, FrozenDag, LateDag, ResentDag}

\* D speaks of account 1 under its own name and under A's.
MCForgeries ==
  LET n(w) == [account |-> 1, target |-> w]
  IN  {[sender |-> D, notices |-> {n(D)}], [sender |-> A, notices |-> {n(B), n(D)}]}
=============================================================================
