-------------------------------- MODULE Tusk --------------------------------
(***************************************************************************)
(* The Consensus task of consensus/src/lib.rs, run by every validator of   *)
(* Validators on one certified DAG. A certificate is the pair of its       *)
(* origin and its round: the certification protocol lets no two exist for  *)
(* one pair. Which certificates exist and which parents each one cites is  *)
(* chosen at the start from Dags; each validator then receives them in an  *)
(* order of its own, parents first, as the primary promises.               *)
(***************************************************************************)
EXTENDS Committee, FiniteSetsExt

CONSTANTS
  Validators,       \* the correct validators that run the consensus task
  GcDepth,          \* Parameters::gc_depth
  Dags,             \* the certified DAGs considered
  MaxRedeliveries   \* bound: how often a certificate no longer in a dag is
                    \* passed on again

Certificate == [origin : Authorities, round : Nat]

Genesis == [origin : Authorities, round : {0}]

\* What Header::verify, the votes and the parent check of Core::process_header
\* establish of every certificate: its parents are certificates of the round
\* before it and hold a quorum of stake.
IsCertifiedDag(d) ==
  /\ DOMAIN d \subseteq Certificate \ Genesis
  /\ IsFiniteSet(DOMAIN d)
  /\ \A c \in DOMAIN d :
       /\ d[c] \subseteq DOMAIN d \cup Genesis
       /\ \A p \in d[c] : p.round + 1 = c.round
       /\ IsQuorum({p.origin : p \in d[c]})

ASSUME TuskAssumption ==
  /\ GcDepth \in Nat
  /\ MaxRedeliveries \in Nat
  /\ \A d \in Dags : IsCertifiedDag(d)

VARIABLES
  parents,            \* the DAG: the parents cited by each certificate
  received,           \* certificates each validator's consensus was sent
  dag,                \* State::dag
  lastCommitted,      \* State::last_committed
  lastCommittedRound, \* State::last_committed_round
  pending,            \* order_leaders' result not flattened yet
  log,                \* the sub-dags output so far, one per committed leader
  redelivered         \* how many certificates came back to a dag

vars == <<parents, received, dag, lastCommitted, lastCommittedRound, pending,
          log, redelivered>>

\* Faulty variant: a restarted task finds round 1 in its dag that the restarted
\* primary has not passed on.
InitRestored ==
  /\ parents \in Dags
  /\ received = [v \in Validators |-> {}]
  /\ dag = [v \in Validators |-> Genesis \cup {c \in DOMAIN parents : c.round = 1}]
  /\ lastCommitted = [v \in Validators |-> [a \in Authorities |-> 0]]
  /\ lastCommittedRound = [v \in Validators |-> 0]
  /\ pending = [v \in Validators |-> {}]
  /\ log = [v \in Validators |-> << >>]
  /\ redelivered = 0

Init ==
  /\ parents \in Dags
  /\ received = [v \in Validators |-> {}]
  /\ dag = [v \in Validators |-> Genesis]
  /\ lastCommitted = [v \in Validators |-> [a \in Authorities |-> 0]]
  /\ lastCommittedRound = [v \in Validators |-> 0]
  /\ pending = [v \in Validators |-> {}]
  /\ log = [v \in Validators |-> << >>]
  /\ redelivered = 0

-----------------------------------------------------------------------------
\* Walking down the DAG D from a certificate, one round at a time.

\* WalkDown(D, from, to)[r] are the certificates of D at round r that a path
\* through D joins to `from`.
WalkDown(D, from, to) ==
  LET at[r \in to .. from.round] ==
        IF r = from.round
        THEN {from}
        ELSE {c \in D : c.round = r /\ \E x \in at[r + 1] : c \in parents[x]}
  IN  at

Linked(D, leader, prev) == prev \in WalkDown(D, leader, prev.round)[prev.round]

LeaderCertificate(r) == [origin |-> Leader(r), round |-> r]

\* Faulty variants: support one unit short of the threshold; support looked for
\* one round too high.
HasSupportOneShort(D, leader) ==
  StakeOf({c.origin : c \in {x \in D : /\ x.round = leader.round + 1
                                       /\ leader \in parents[x]}})
    >= ValidityThreshold - 1
HasSupportRoundTooHigh(D, leader) ==
  StakeOf({c.origin : c \in {x \in D : /\ x.round = leader.round + 2
                                       /\ leader \in parents[x]}})
    >= ValidityThreshold

\* The children of leader in D hold at least the validity threshold.
HasSupport(D, leader) ==
  StakeOf({c.origin : c \in {x \in D : /\ x.round = leader.round + 1
                                       /\ leader \in parents[x]}})
    >= ValidityThreshold

\* CurrentLeader(D, leader, lcr)[r] is the local variable `leader` of
\* order_leaders once the loop has passed round r.
CurrentLeader(D, leader, lcr) ==
  LET at[r \in lcr + 2 .. leader.round] ==
        IF r = leader.round
        THEN leader
        ELSE LET prev == LeaderCertificate(r)
             IN  IF /\ (leader.round - r) % 2 = 0
                    /\ prev \in D
                    /\ Linked(D, at[r + 1], prev)
                 THEN prev
                 ELSE at[r + 1]
  IN  at

\* Faulty variant: earlier leaders are forgotten.
OrderLeadersLast(D, leader, lcr) == {leader}

\* The leaders that order_leaders collects: leader and its linked predecessors.
OrderLeaders(D, leader, lcr) ==
  {l \in D : /\ l.round \in lcr + 2 .. leader.round
             /\ l = LeaderCertificate(l.round)
             /\ l = CurrentLeader(D, leader, lcr)[l.round]}

\* Faulty variants: certificates already committed are not skipped; everything
\* up to the last committed round is taken as committed.
OrderDagNoSkip(v, leader) ==
  LET walk == WalkDown(dag[v], leader, 0)
  IN  {c \in dag[v] \ Genesis : c.round <= leader.round /\ c \in walk[c.round]}
OrderDagAboveLast(v, leader) ==
  LET open == {c \in dag[v] : c.round > lastCommittedRound[v]}
  IN  {c \in open : /\ c.round <= leader.round
                    /\ c \in WalkDown(open, leader, 0)[c.round]}

\* order_dag: everything below leader in the dag, not through a certificate at
\* exactly the last committed round of its origin, nor below the GC horizon.
OrderDag(v, leader) ==
  LET open == {c \in dag[v] : lastCommitted[v][c.origin] # c.round}
      walk == WalkDown(open, leader, 0)
  IN  {c \in open : /\ c.round <= leader.round
                    /\ c \in walk[c.round]
                    /\ c.round + GcDepth >= lastCommittedRound[v]}

-----------------------------------------------------------------------------
\* The body of Consensus::run up to the loop over the leaders to commit.
Process(v, c) ==
  LET now         == dag[v] \cup {c}
      r           == c.round - 1
      leaderRound == r - 2
      leader      == LeaderCertificate(leaderRound)
      canCommit   == /\ r % 2 = 0
                     /\ r >= 4
                     /\ leaderRound > lastCommittedRound[v]
                     /\ leader \in now
                     /\ HasSupport(now, leader)
  IN  /\ pending[v] = {}
      /\ dag' = [dag EXCEPT ![v] = now]
      /\ pending' = [pending EXCEPT ![v] =
                       IF canCommit
                       THEN OrderLeaders(now, leader, lastCommittedRound[v])
                       ELSE {}]
      /\ UNCHANGED <<parents, lastCommitted, lastCommittedRound, log>>

\* Faulty variant: a certificate is passed on before its parents.
DeliverUnordered(v, c) ==
  /\ c \notin received[v]
  /\ Process(v, c)
  /\ received' = [received EXCEPT ![v] = @ \cup {c}]
  /\ UNCHANGED redelivered

\* The primary sends a certificate only after its whole history.
Deliver(v, c) ==
  /\ c \notin received[v]
  /\ parents[c] \subseteq received[v] \cup Genesis
  /\ Process(v, c)
  /\ received' = [received EXCEPT ![v] = @ \cup {c}]
  /\ UNCHANGED redelivered

\* Core::process_certificate passes on every certificate that reaches it again
\* (a retransmission whose acknowledgement was lost, a Helper's reply). It only
\* compares it with the GC round, which trails the consensus by the feedback
\* channel: any certificate may still pass.
Redeliver(v, c) ==
  /\ c \in received[v]
  /\ Process(v, c)
  /\ \/ /\ c \in dag[v]
        /\ UNCHANGED redelivered
     \/ /\ c \notin dag[v]
        /\ redelivered < MaxRedeliveries
        /\ redelivered' = redelivered + 1
  /\ UNCHANGED received

\* State::update for every certificate of one flattened sub-dag.
LastCommittedAfter(v, batch) ==
  [a \in Authorities |->
     Max({lastCommitted[v][a]} \cup
         {c.round : c \in {x \in batch : x.origin = a}})]

\* One round of the loop over order_leaders' result, oldest leader first.
CommitLeader(v) ==
  \E leader \in pending[v] :
    LET batch == OrderDag(v, leader)
        last  == LastCommittedAfter(v, batch)
        lcr   == Max({last[a] : a \in Authorities})
    IN  /\ \A l \in pending[v] : leader.round <= l.round
        /\ log' = [log EXCEPT ![v] =
                     Append(@, [leader |-> leader, certificates |-> batch])]
        /\ lastCommitted' = [lastCommitted EXCEPT ![v] = last]
        /\ lastCommittedRound' = [lastCommittedRound EXCEPT ![v] = lcr]
        /\ dag' = [dag EXCEPT ![v] =
                     {c \in @ : /\ c.round >= last[c.origin]
                                /\ c.round + GcDepth >= lcr}]
        /\ pending' = [pending EXCEPT ![v] = @ \ {leader}]
        /\ UNCHANGED <<parents, received, redelivered>>

Next ==
  \E v \in Validators :
    \/ \E c \in DOMAIN parents : Deliver(v, c) \/ Redeliver(v, c)
    \/ CommitLeader(v)

Spec == Init /\ [][Next]_vars

\* The task is polled as long as a certificate waits in its channel, and the
\* primary eventually delivers every certificate to every correct validator.
\* Only Deliver adds to received, and only CommitLeader takes from pending:
\* fairness is stated on what these two steps do to these two variables.
Delivers(v) ==
  \E c \in DOMAIN parents \ received[v] :
    /\ pending[v] = {}
    /\ parents[c] \subseteq received[v] \cup Genesis
    /\ received' = [received EXCEPT ![v] = @ \cup {c}]

Commits(v) ==
  \E leader \in pending[v] :
    /\ \A l \in pending[v] : leader.round <= l.round
    /\ pending' = [pending EXCEPT ![v] = @ \ {leader}]

Fairness ==
  \A v \in Validators : WF_received(Delivers(v)) /\ WF_pending(Commits(v))

FairSpec == Spec /\ Fairness
-----------------------------------------------------------------------------
\* The shape of State, and that its dag holds nothing but genesis and what the
\* primary has sent.
TypeOK ==
  /\ parents \in Dags
  /\ received \in [Validators -> SUBSET DOMAIN parents]
  /\ dag \in [Validators -> SUBSET (Certificate)]
  /\ lastCommitted \in [Validators -> [Authorities -> Nat]]
  /\ lastCommittedRound \in [Validators -> Nat]
  /\ pending \in [Validators -> SUBSET Certificate]
  /\ log \in [Validators -> Seq([leader : Certificate,
                                certificates : SUBSET Certificate])]
  /\ redelivered \in 0 .. MaxRedeliveries
  /\ \A v \in Validators : dag[v] \subseteq received[v] \cup Genesis

\* The certificates in the first n sub-dags of a log.
Committed(lg, n) == UNION {lg[i].certificates : i \in 1 .. n}

\* State::last_committed is kept "to ensure we don't commit twice the same
\* certificate": the sub-dags that one validator outputs are disjoint.
NoDoubleCommit ==
  \A v \in Validators : \A i, j \in DOMAIN log[v] :
    i # j => log[v][i].certificates \cap log[v][j].certificates = {}

\* That is so as long as no certificate comes back after its removal.
CommitOnce == redelivered = 0 => NoDoubleCommit

\* The two expect("We should have the whole history by now") of run and linked
\* cannot fire: above the last committed round, the cleanup of State::update
\* never removes a parent of a certificate that is in the dag.
WholeHistory ==
  \A v \in Validators : \A c \in dag[v] \ Genesis : \A p \in parents[c] :
    p.round > lastCommittedRound[v] => p \in dag[v]

IsPrefixOf(s, t) == Len(s) <= Len(t) /\ \A i \in DOMAIN s : s[i] = t[i]

Leaders(lg) == [i \in DOMAIN lg |-> lg[i].leader]

\* Whatever orders certificates arrive in, two validators commit the same
\* leaders in the same order: one that found a leader without enough support
\* commits it later through order_leaders, before the next one.
LeaderAgreement ==
  \A v, w \in Validators :
    \/ IsPrefixOf(Leaders(log[v]), Leaders(log[w]))
    \/ IsPrefixOf(Leaders(log[w]), Leaders(log[v]))

\* Every certificate cites the previous certificate of its own origin.
Chained ==
  \A c \in DOMAIN parents : c.round > 1 =>
    [origin |-> c.origin, round |-> c.round - 1] \in parents[c]

\* Two validators output the same certificates for the same leader, whenever
\* they were sent them, if no authority leaves its own certificate out of its
\* next one (the proposer does not enforce this: it takes the first quorum) and
\* none comes back after its removal.
AgreementIfChained ==
  Chained /\ redelivered = 0 =>
    \A v, w \in Validators :
      IsPrefixOf(log[v], log[w]) \/ IsPrefixOf(log[w], log[v])

\* A committed certificate never precedes a parent in the output: each parent
\* was output with it or before it, unless its origin already had a later
\* certificate output or the GC horizon had passed it.
CausalCommit ==
  \A v \in Validators : \A i \in DOMAIN log[v] :
    \A c \in log[v][i].certificates : \A p \in parents[c] \ Genesis :
      \/ p \in Committed(log[v], i)
      \/ \E q \in Committed(log[v], i - 1) : q.origin = p.origin /\ q.round > p.round
      \/ i > 1 /\ p.round + GcDepth < log[v][i - 1].leader.round

\* The leader of an even round that every certificate of the next round cites,
\* in a DAG that has a certificate three rounds above it.
Supported(l) ==
  /\ l = LeaderCertificate(l.round) /\ l.round % 2 = 0
  /\ \A x \in DOMAIN parents : x.round = l.round + 1 => l \in parents[x]
  /\ \E x \in DOMAIN parents : x.round = l.round + 3

\* However late its certificates arrive, a validator in the end commits every
\* leader that all the next round cites, and so the history of each of them.
SupportedLeadersCommitted ==
  []<>(\A v \in Validators : \A l \in DOMAIN parents :
         Supported(l) => \E i \in DOMAIN log[v] : log[v][i].leader = l)
=============================================================================
