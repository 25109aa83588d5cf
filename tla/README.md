# A verification project for the DAG-BFT node

TLA+ specifications of the Narwhal/Tusk node of this repository (`src/`), the
TLC configurations that check them on small instances, and TLAPS proofs of
theorems about them for every value of their constants. Names follow the code.

## 1. Inventory

A validator is one *primary* process, some *worker* processes and some
*executor* processes. Every box below is a tokio task that owns its state and
talks to the others through bounded channels; processes talk over TCP, either
through `ReliableSender` (retransmits until acknowledged or cancelled) or
through `SimpleSender` (best effort).

| Component | State | Operations | What makes it correct |
|---|---|---|---|
| `config::Committee` | authorities, stakes | `stake`, `quorum_threshold`, `validity_threshold` | two quorums share a correct authority; a quorum and a validity set meet |
| `Core` (primary) | `gc_round`, `last_voted`, `processing`, `current_header`, votes and certificates aggregators | own header, header, vote, certificate, loop-backs, GC | one vote per author and round; one certificate per author and round; a certificate reaches consensus after its history |
| `Proposer` | `round`, `last_parents`, pending digests and counts | parents arrive, digests arrive, timer | one header per round, never backwards |
| `Synchronizer`, `HeaderWaiter`, `CertificateWaiter`, `Helper`, `PayloadReceiver` | pending headers and certificates, requested parents and batches | suspend, request, retry, loop back, cancel on GC | whatever is suspended resumes when its data is stored |
| `GarbageCollector` | `consensus_round` | feedback from consensus | monotone, trails the commit |
| `Consensus` | `State {last_committed_round, last_committed, dag}` | new certificate, commit a leader, clean up | all validators output the same sequence; nothing twice; history first |
| load balancing task | trackers, assignments, baselines | record, evaluate on the own certificate of every 60th round | all correct validators decide the same; clients follow what f+1 of them say |
| worker `BatchMaker`, `QuorumWaiter`, `Processor`, `PrimaryConnector` | current batch, acknowledgements | seal, acknowledge, store and report | a reported digest is stored by a quorum |
| worker `Synchronizer`, `Helper` | pending digests, committed batches | request, retry, cleanup, committed | a committed batch is fetched in the end |
| `analyze` and worker `Router` | next sequence number | number and broadcast | executors receive the sequence without a gap |
| `BatchExecutor`, `StateHelper` | partition, account store, pending queues, transfers | schedule, execute, migrate out, migrate in | an account is in exactly one place; conflicting transactions run in sequence order on every executor |
| `network` | buffer, pending replies | connect, send, acknowledge, resend | an acknowledged handler means a delivered message |
| `store` | keys, obligations | write, read, notify_read, delete | a write wakes every waiting reader |

How they interact: workers seal batches and report their digests to the
`Proposer`; the `Proposer` makes a header for each round from digests and the
parents that `Core` collected; `Core` exchanges headers, votes and certificates
with the other primaries and hands every certificate with complete history to
`Consensus`; `Consensus` outputs committed certificates to `analyze`, which
numbers their batches for the executors, and back to the `GarbageCollector`,
whose round makes `Core`, the waiters and the workers forget old rounds.

What is hard: validators see the same certificates in different orders; old
state is collected while messages about it are still in flight; messages are
retransmitted, so handlers run twice; nothing but the store survives a restart;
several tasks wait inside their event loop. `PROJECT.json` lists each such
hazard at its line, with the property that covers it or the reason none does.

## 2. Plan

In order, most important behaviour first; what each module composes in brackets.

1. `Committee`, `Tusk`: the consensus task. Done, proved: `Tusk_proofs`.
2. `Certification` [Core, Proposer, aggregators, waiters, GarbageCollector]: at
   most one certificate per author and round, which is what `Tusk` assumes of
   `Dags` (a certificate is its origin and round). Done, proved:
   `Certification_proofs`.
3. `SmallBank`, `SerialBank`: what executors promise. `DataFusion` and
   `Writeback` implement it; `Replay` [replay driver and `DataFusion`]. Done,
   proved: `Writeback_proofs`, `Replay_proofs`.
4. `Batches` [BatchMaker, QuorumWaiter, Processor, ReliableSender, receiver]. Done,
   proved: `Batches_proofs`.
5. `Payload` [primary Synchronizer and HeaderWaiter, worker Synchronizer, Helper,
   commits]. Done, proved: `Payload_proofs`.
6. `Rerouting`, and `Routing` [Rerouting, the workers' notices, the client]. Done,
   proved: `Routing_proofs`.
7. Two validators' executors fed by `analyze` with several workers; the parents
   fetched through the primary's `Helper`.

## 3. What is modelled

### Committee
`Units`, `StakeOf`, `TotalStake`, `QuorumThreshold` and `ValidityThreshold` are
`Committee::stake`, `quorum_threshold` and `validity_threshold` of
`config/src/lib.rs`. A sum of stakes is the number of stake *units* (pairs of an
authority and a number up to its stake), so that facts about quorums are facts
about cardinalities. `Leader` is the round-robin coin of `Consensus::leader`.

### Tusk
Each of `Validators` runs the `Consensus` task on one DAG, chosen at the start
from `Dags`. A certificate is its origin and round, since the certification
protocol allows no two for one pair; `parents` maps it to the certificates it
cites. `IsCertifiedDag` is what the voters check of a header's parents.

| Model | Code |
|---|---|
| `dag`, `lastCommitted`, `lastCommittedRound` | `State` |
| `received` | what `rx_new_certificates` has delivered |
| `pending` | the leaders `order_leaders` returned, not flattened yet |
| `log` | the output, one record per committed leader |
| `Deliver` | a certificate of which the primary has sent the history, and the body of `run` up to the loop over leaders |
| `Redeliver` | the same for a certificate that was sent before: `Core::process_certificate` does not remember what it passed on |
| `CommitLeader` | one iteration of that loop: `order_dag`, then `State::update` for each certificate |
| `HasSupport`, `OrderLeaders`, `CurrentLeader`, `Linked`, `WalkDown`, `OrderDag` | the support test, `order_leaders`, `linked`, `order_dag` |

The loop over leaders is one action per leader although the task does not yield
between them: the task's state is its own, and a certificate is taken only when
`pending` is empty, so no other behaviour is added. Digests, payloads and
signatures are left out; the order of certificates inside one leader's output
(a depth-first search, then a stable sort by round) is left out too, and a
sub-dag is a set. `OrderDag` takes the search's result as the certificates that
a path through certificates not skipped joins to the leader.

### Certification
Every authority outside `Byzantine` runs `Core`, `Proposer`, the two aggregators,
the waiters and `GarbageCollector`; one action is one turn of one task's loop,
with the nested calls (`process_own_header` into `process_header` into
`process_vote` into `process_certificate`) in the same action, as in the code.

| Model | Code |
|---|---|
| `headers`, `votes`, `certificates` | everything broadcast so far; any of it may be received at any time, again, or never |
| `gcRound`, `lastVoted`, `processing`, `currentHeader`, `votesAggregator`, `aggregators` | the fields of `Core`; `down`: an `expect` of `Core` failed |
| `proposer`, `toProposer`, `toCore` | `Proposer` (`round`, `last_parents`) and the two channels between it and `Core` |
| `waitingHeaders`, `waitingCertificates`, `consensusRound` | the waiters' pending futures, the atomic of `GarbageCollector` |
| `stored`, `payloads` | certificates and batch digests in the store |
| `ReceiveHeader`, `ReceiveCertificate`, `ReceiveVote`, `OwnHeader`, `ResumeHeader`, `ResumeCertificate` | the branches of `Core::run`, with the sanitize functions as guards |
| `RefuseMessage` | a message that is refused; the turn still ends with the clean-up |
| `Cleanup` | the end of every turn of `Core::run` |
| `MakeHeader`, `AdvanceRound` | `Proposer::run` |
| `Commit`, `PayloadArrives`, `CancelHeader` | `GarbageCollector`, `PayloadReceiver`, the clean-up of `HeaderWaiter` |
| `Restart` | a new process on the old store: all else is in memory |
| `ForgeHeader`, `CertifyForged` | what faulty authorities can sign; a certificate needs a quorum of signatures |

`Accepts`, `Suspends` and `Rejects` are the three ends of `process_header`: the
vote, a hand-over to the `HeaderWaiter`, an error. A parent is named by its
digest (author, round, payload), where the payload stands for all else that is
hashed: `created_at` makes the headers of a slot differ after a restart, hence
the two `Contents` of an authority. A certificate stands for its header, since
neither its digest nor its equality looks at the votes. `sound` says that
`account_counts` are those of the batches. What consensus commits is any
stored certificate that trails the last round by `CommitLag`.

Left out: headers, votes and certificates of a node's own that others send back
to it (a reply to a restarted node's sync requests); a crash in the middle of a
turn; the cancel handlers, which only stop retransmissions; overfull channels.
Batches that the proposer waits for only delay `MakeHeader`, which may always be late.

### SmallBank and SerialBank
`SmallBank` is `worker/src/workload.rs`: the account operations and the effect of
a transaction on a bank. `SerialBank` is the abstract specification of the
executors of one validator: the committed transactions take effect one at a
time, each after every earlier one that shares an account with it. Both
executors are shown to implement it (`SerialExecution` is `Bank!Spec` of the
instance `Bank`), under a refinement mapping from distributed stores, transfers
in flight and lost messages to one bank. Since conflicting transactions keep
the order of the log, validators that execute the same log hold the same balances.

### DataFusion
The executors of one validator. Each receives every batch and schedules all its
transactions on its own copy of the partition; the state of an account moves to
the executor that its next transaction was scheduled on.

| Model | Code |
|---|---|
| `inbox`, `next`, `buffer`; `StartBatch`, `ProcessExecute`, `ProcessBuffered` | `BatchExecutor::run`, `process_execute`, the reorder buffer |
| `owners`, `loads`, `plan`; `ScheduleTransaction`, `NewTarget`, `NewTargetVoted` | the scheduling loop and the two schedulers; `Orders` is the order of a hash map, chosen anew each time |
| `queues`; `HandleTransaction` (`HandleLocal`, `HandleMigrateOut`) | the execution loop, `pending_queues`, `is_ready_to_execute` |
| `store`, `net`, `incoming`, `drained`; `MigrateOut`, `MigrateIn`, `DeliverTransfer` | `execute_migrate_out`, `StateHelper`, `process_incoming_transfers` |
| `work`; `DrainHead` | `drain_pending_queues` |
| `QuietBatch` | a later batch on other accounts: transfers are looked at only when some batch comes |
| `LoseTransfer`, `LoseExecute` | `SimpleSender` on a broken connection |

A turn of the task is split where it looks at what others share with it, or
iterates over a hash map; `phase` is the program counter. Amounts are small, so
saturation of `i64` does not occur. Replies to clients, the feedback counter
(which no executor reads) and statistics are left out.

### Replay
Replay mode of `executor-replay`, with `DataFusion` as its executors (that tree's
`batch_executor.rs` is a copy). `Generate` stores and reports a worker's share of
the recorded batches, `Collect` and `SendExecute` are the two phases of
`ReplaySequencer`, `Route` the worker's router, `RestartWorker` a worker that
starts again with an empty store. `source = "dispatcher"` is normal operation,
so one specification serves both. Pacing only delays, so it is left to the scheduler.

### Writeback
The write-back executors: accounts never change owner. `Enqueue` and the lock table are
`lock_and_enqueue_transaction`; a payment between two executors sends the source
account's state (`StateTransfer`), runs at the destination and comes back as a
writeback while the account stays locked. `outgoing` is `outgoing_states_buffer`,
`work` the worklist of `drain_pending_queues`; the router's rule for who receives
which transaction is in `StartBatch`. Statistics of locks are left out.

### Batches
A worker and its peers. The connection of `ReliableSender` is modelled with its
`buffer` and `pending_replies`, because an acknowledgement carries no name and is
matched *by position*; when a connection breaks what is pending goes back in
front of the buffer, and frames of the old connection may still be read by the peer
(`stale`). A peer's receiver acknowledges before its `Processor` stores, and
`Restart` may fall in between. Back-off times are left out.

### Payload
How a validator gets batches it lacks. Primary side: `Synchronizer::missing_payload`,
the `HeaderWaiter` (`waiting`, `batchRequests`, `Tick` its clean-up) and
`PayloadReceiver`; worker side: `Synchronize`, `Cleanup`, `CommittedBatches`,
the retry timer (`Retry`, `Broadcast`), the peers' `Helper` and the `Processor`. The worker's loop
does nothing else while `awaiting` is not empty (`handle_committed_batches` awaits
inside the `select!`). `Lose` drops a message of a `SimpleSender`.

### Rerouting and Routing
`Rerouting` is the load balancing task: `tracked` are the certificates its trackers
hold, `Balance` is one certificate in its loop: recorded only (`Record`), or evaluated
on, without (`Skip`) or with a decision (`Evaluate`). `Inputs` is what
`compute_rerouting` is given and `Reassigned` what it makes of that: the loop over the
donors (`ShedBy`), in it the loop over a donor's accounts (`Visit`), and the
choice of the receiver (`Best`). The loops are recursive functions over the
places (`Nth`) of the sorted lists. What the trackers say is a function of what
the certificates hold (`With`), so a decision depends on nothing but its arguments. Loads are integers,
so the code's floating-point comparisons are exact; the latency tracker only logs.
A validator gets every certificate first after its parents, and its own in the order of their
rounds, because `Core` assembles one only for its current header. It may get each again at any
time (`Receive`): `Core` has no check for duplicates and passes on what a peer sends back, its own
certificates too, and the task handles each as new: it records it, which changes nothing while it
is tracked, and evaluates once more if it is its own of an evaluated round. `again` remembers the own ones that
came again. `WindowAssumption` says that an evaluated round has no window or a whole one, as with
the code's 60 and 30.

`Routing` sends the notices through workers to a client that counts votes per
account and target (`Count`) and writes its routing table afterwards (`Route`): the
code releases the lock of the votes before it takes that of the table, hence two
actions. A vote counts for the sender that the *message* names: `MigrationMessage` is not
signed and the client takes connections from anyone. So besides the validators, whose
messages name themselves (`Vote`), there are `Peers` that send what they like under any
name, a correct validator's too (`Forge`, out of `Forgeries`), and `claims` remembers what they
sent; a peer has one connection. Messages of validators may be lost (`Lose`).

## 4. Runs

| Run | Question | Result |
|---|---|---|
| `tusk_commit` | two validators, four DAGs, every causal order, GC depth 1, a certificate passed on again: same leaders, complete histories, nothing twice, every supported leader in the end | passes |
| `cert_byzantine` | one equivocating authority, one round: no two certificates of a slot, certified data available and sound | passes |
| `cert_recovery` | an authority restarts at any moment and rounds are collected: who may sign twice, are parents there, does the proposer ever repeat itself? | passes |
| `cert_rounds` | a silent authority, fairness: do the rounds go on? | passes |
| `cert_slow` | can a node's vote for its own header fail? | violated |
| `fusion` | two executors, both schedulers, live and replayed logs, losses, a restarting worker: is an account ever in two places or none, is execution serial? | passes |
| `writeback` | two executors, losses: is execution serial, is every state sent back exactly once, does everything execute? | passes |
| `writeback_locks` | is a transaction first in all its queues ready to execute? | violated |
| `batches` | two batches, a connection that breaks, a peer that crashes: has a quorum received what a quorum acknowledged, is every batch processed? | passes |
| `payload` | two headers that cite one batch, one of them of a silent author, a lost message, clean-ups: is what is voted for available, do suspended headers resume? | passes |
| `payload_blocked` | does a committed batch arrive in the end? | violated |
| `rerouting` | two validators decide at three rounds, certificates come again, a client follows while a peer forges: same decisions, no panic, moves within capacity, routes backed by a correct validator or more than f forged names, moves followed | passes |

### Bounds

*Tusk.* All DAGs are over four authorities of stake one (quorum three, validity two).
`AllDags` (in `MCTusk`) holds four DAGs of seven rounds, built so that the
interesting cases happen: a complete DAG (`FullDag`); an authority whose second
certificate leaves out its own first one (`LateDag`); a leader whose
support depends on one late certificate, so that one validator commits it at
once and another through its successor (`SplitDag`); the same leader with f
supporters only and no path from its successor (`OrphanDag`). A leader is
committed three rounds above its own, so seven rounds hold the leaders of rounds
2 and 4: enough for two commits in a row, a leader skipped and a leader
committed through the next. Two validators are enough for disagreement (it is a
property of pairs). `GcDepth = 1` makes the horizon bite at every commit. A
finite DAG ends, so deadlock is not checked.

*Certification.* The committees have four units of stake: a quorum is three
units, one unit may be faulty. With stakes 2, 1, 1 two correct authorities and
a Byzantine one play all the roles: neither the 2 alone nor the two 1s are a quorum.
With 3 and 1 one authority goes on alone and the other may be as late as it
likes, which is what garbage collection and restarts need. `MaxForged = 2` lets
two headers of one slot compete; `Forms` gives them contents, wrong counts, or
too few parents; `Late` makes a batch arrive after the header that names it.
`cert_byzantine` needs one round (a slot is one round), `cert_recovery` two, with
`GcDepth = 0` so that round 1 is collected while its headers are in flight;
`cert_rounds` two, so that parents of a second round exist.
`cert_slow` (`MaxRound = 7`, `CommitLag = 3`) looks for one long behaviour, and its
constraint `InOrder` keeps the search on those in which the slow authority makes
one header; a behaviour it finds is one of the specification. Deadlock is checked.

*Executors.* Two executors and three accounts, two of which start together, are
the least with local payments, payments between executors, and an account that
must leave and come back. Logs have three to five transactions in two batches:
the second batch finds queues, locks and transfers of the first. Payments exceed
some balances, so a wrong order shows in the balances. The log of five makes one
executor take more than its share, which is when the schedulers move
an account for balance. `MaxLost = 1`: one lost message is one too many.
In replay mode two workers share two batches and one report or command is lost,
or one worker restarts. Executors stop when no more batches come: no deadlock check.

*Batches.* Stakes 1, 2, 1: the acknowledgement of `B` is needed and that of `C` is not, so
a batch leaves the waiter while `C`'s copy is still on its way. Two batches in
flight on one connection, broken once, are the least for a mismatch by position.

*Payload.* Two headers of rounds 1 and 3 citing one batch: committing the second collects
the first (GC depth 1), and a request made for one is taken for the other's.

*Rerouting.* Four authorities, so f + 1 = 2 and the client needs both deciders or one and
a forged name. A peer sends up to two messages (`MCForgeries`), one under its own name and one under a
correct validator's, and `MaxFaults = 2` bounds forged and lost messages together: two
forged names alone confirm a move, one joins a true vote, and a forged vote under a
validator's name hides the true one. Eight rounds with an evaluation every second one give three decisions, in
the second of which an account that already moved moves on. `FrozenDag` has
clocks that stand still, `LateDag` certificates that come at any time or never. In `ResentDag` two
certificates may come again, any number of times (`resent`, the bound): the own certificate of
`A`'s first evaluation, so that it evaluates again right away or after its next one, and one of
that window, which it has evicted by then. The run has 172151 distinct states.
The window is 1 and the interval 2 where the code has 30 and 60.

### Fairness
`Tusk`: `Deliver` and `CommitLeader` are weakly fair: the task is polled
while its channel holds a certificate, and the primary of a correct validator
receives every certificate in the end (reliable broadcast, then sync). Nothing
is assumed of `Redeliver`. `Certification`: every task's step is weakly fair
because tokio polls it while it has something to do, and the receipt of what
correct authorities sent is because `ReliableSender` retransmits until it is
acknowledged. The Byzantine authorities, `Commit`, `PayloadArrives`,
`CancelHeader` and `Restart` have none: the rounds do not wait for them.
Executors: each task's step, and the delivery of messages that are not lost. The
tasks of a replay are weakly fair together: between two failures they take
finitely many steps. `Batches`: the tasks, and reconnecting (`ReliableSender`
retries for ever); breaks are finitely many (`MaxBreaks`). `Payload`: tasks that share the worker's
loop are strongly fair, for they are disabled while the loop awaits (tokio's `select!` is fair
among ready branches); `Retry` is strongly fair per peer: the timer recurs and
`lucky_broadcast` draws peers at random, so each is drawn again and again. Nothing is assumed of `Broadcast`,
commits or losses. `Routing`: only the client's handlers are fair.

### What the liveness properties leave out, and why
`EveryTransactionExecuted` excepts logs with a payment between two accounts of
one executor: `writeback_locks` shows why. `SuspendedResumes` excepts a loop that stands still
(`payload_blocked`), a request the worker cancelled and a lost message that nobody repeats.
`EveryBatchExecuted` of a replay asks only that every batch be scheduled:
transfers that arrive after the last batch are looked at by no one.
`MoveFollowed` excepts lost messages and an account that peers spoke of under a
correct validator's name or under more than f names.

### What the safety properties leave out, and why
`SameDecisions` assumes `Settled` DAGs and validators that evaluated no round twice
(`EvaluatedOnce`); `NeverStops` excepts an own certificate that comes again after the task
evaluated a later round; `RoutedByCorrect` a move that peers named more than f senders for;
`AgreementIfChained` assumes chained DAGs. In each case the code does otherwise outside
(see the observations below).

### Findings
* `cert_slow`: `core.rs:224` expects that a node's own vote never fails, and the
  comment at 287 that a header voted for is in `processing`. When the round of a
  node's *current* header has been collected (it is late, the others went on),
  the clean-up drops both `processing` and `last_voted` of that round, but a vote
  for the header is still taken: `sanitize_vote` does not look at `gc_round`. The
  certificate is assembled, `process_certificate` processes the header afresh,
  votes again, the aggregator answers `AuthorityReuse`, and the `expect` panics.
* `writeback_locks`: `lock_and_enqueue_transaction` gives the lock of an account to
  the newest transaction queued on it. A local payment that waits in two queues
  then reaches the head of both with one lock held by a transaction behind it,
  is never ready, and both queues stop for good.
* `payload_blocked`: the worker's `handle_committed_batches` awaits batches inside the
  loop that alone can request them. A batch committed before it was asked for,
  or whose single request failed, never arrives, and the worker stands still.

Further observations, from earlier or temporary runs, that no run keeps:

* `order_dag` skips only the certificate at *exactly* the last committed round of its
  origin; one of an earlier round that comes again after its clean-up is
  committed again (the TODO at `consensus/src/lib.rs:533` knows the danger).
  `CommitOnce` is what does hold.
* `State::update` drops certificates of an origin older than its last committed
  one, ordered or not. Two validators can output different certificates for one
  leader when an authority's certificate does not cite its own previous one;
  `AgreementIfChained` shows that this is the only way in these DAGs.
* In a DAG that is not `Settled`, validators may decide differently about
  accounts: they look two rounds back, and a certificate can be in one's past
  only. The assertion `REROUTE_INTERVAL >= TRACKING_WINDOW` alone does not keep
  an evaluation's rounds apart; an interval of at least the window plus three does (60 and 30).
  The doc of `compute_rerouting` (a 5 % floor, a factor 1.5) is not what its code does.
* A validator that never certifies a header of its own in an evaluation round takes no
  part in that decision, and its later ones differ: `SameDecisions` is about validators
  that evaluated in the same rounds.
* A peer that sends a validator its own certificate of an evaluated round back makes it
  evaluate again (`consensus/src/lib.rs:788-886`): no time has passed since the last evaluation, so the estimated
  excess is 0, the baseline is smoothed again, and accounts may move that the others
  do not move. From then on its decisions differ: without `EvaluatedOnce`, `SameDecisions` fails.
* The own certificate of an evaluation that is long past finds its window
  evicted, which `get_tps` answers with `None`; but if the peer sends one certificate
  of that window first, the rounds behind it are missing, an `expect` fails and the
  load-balancing task ends (consensus goes on).
* The client counts a vote for the sender a message names (`benchmark_client.rs:674`) and knows no
  one's key: one peer that names f + 1 senders routes any account anywhere, and one
  that speaks under a validator's name completes a count early, so that the true vote that comes later
  stays alone.
* A restarted validator lacks the first tracked round an evaluation expects.
* A stalled connection task of the client overwrites a newer route with its
  older one (votes and table have separate locks).
* Executors that survive a restart of primary and workers see sequence 0 again
  and reach `unreachable!` in `process_execute`.

## 5. Proofs

`Tusk_proofs` proves for every committee, set of DAGs, GC depth, number of
validators and of redeliveries, from `CommitteeAssumption` and `TuskAssumption`:

* `TypeCorrect`: `Spec => []TypeOK`.
* `CommittedOnce`: `Spec => []CommitOnce`. Disjointness of the output is not
  inductive. The proof adds that every certificate output is at or below the
  last committed round of its origin (`CommittedInv`), that each one still in
  the dag is exactly at it, so that `order_dag` skips it (`SkippedInv`), and
  that a certificate is delivered once.
* `HistoryKept`: `Spec => []WholeHistory`, the two `expect`s of `run` and
  `linked`. It rests on `RecentInv` (everything received above the last
  committed round is in the dag: the clean-up never reaches above it) and
  `HistoryInv` (what was received was received after its parents).
* `LeadersAgree`: `Spec => []LeaderAgreement`. The walk of `order_leaders`,
  which sees only the validator's own dag, is first shown to be the walk through
  the whole DAG (`WalkIsGlobal`, `OrderLeadersIsGlobal`). The supporters of a leader meet
  every quorum of parents, so every leader of a later even round that is walked
  from a supported one links to it (`LinkedToDirect`) and the chain of a supported leader is a part of the
  chain of every later one (`ChainThroughDirect`). The invariant `LeadInv` says that what a
  validator has committed (`Ascending`), with what it has still to flatten (`Waiting`),
  is the whole chain of one supported leader (`FromDirect`).
* `CommitIsCausal`: `Spec => []CausalCommit`, from `CauseInv`: what was received and
  is in the dag no more, `State::update` removed (`GoneInv`), and every entry of
  `last_committed` is the round of a certificate that was output (`LatestInv`).
* `SubDagsAgree`: `Spec => []AgreementIfChained`. The invariant `FreshInv` names what a
  validator outputs without naming the validator: with its i-th leader the
  history of that leader that no earlier leader had, down to the GC horizon of the leader before.
  It needs every authority to cite its own last certificate and none to be passed on twice.

`Committee_proofs` proves from `CommitteeAssumption` alone, for every distribution
of stake, that two quorums share f + 1 of stake (`QuorumIntersection`), that a
quorum meets every set of f + 1 (`SupportMeetsQuorum`) and keeps f + 1 without
the faulty (`QuorumWithoutFaulty`). A sum of stakes is a cardinality, so they
follow from the library's facts about unions of finite sets.

`Certification_proofs` proves for every committee, fault set, GC depth, number of
rounds and restarts, from `CommitteeAssumption` and `CertificationAssumption`
(`FaultAssumption` only for `CertifiedIsAvailable`: the other properties name who may be faulty):

* `TypeCorrect`: `Spec => []TypeOK`.
* `UniqueCertificates`: `Spec => []CertificateUniqueness`. Uniqueness is not
  inductive: nothing in it says why a quorum has signed. The proof adds
  `VoteInv`: the collected round never falls (`GcBehind`), `last_voted` holds
  every vote of a round that is not collected (`VotesRemembered`), so a node has
  one vote per slot until then (`OneVoteEach`); and `QuorumInv`: who is counted in
  an aggregator has signed its header, and the weight is no more than theirs
  (`VotesCounted`), so what is broadcast is certified (`CertificatesCertified`).
  Two certificates of one slot share f + 1 of stake by `QuorumIntersection`; were
  they different, all of that stake would be faulty, restarted or have collected
  the round.
* `OneHeaderEach`: `Spec => []NoEquivocation`. A header passes
  through a channel between its making and its broadcast, so the invariant is about both:
  the headers in the channel are the authority's own (`OwnHeaders`) and, while it has not restarted,
  everything queued or broadcast is of a round the proposer has left behind, in
  order, and nothing queued has been broadcast (`RoundsInOrder`).
* `CertifiedIsAvailable`: `Spec => []CertifiedAvailable`. Whoever voted had the
  parents and the batches and still has them, for the store only grows here
  (`VotesInformed`); a node vouches for its own header unseen, so the counts of
  every own header in its hands are right (`OwnSound`). By `QuorumWithoutFaulty`
  and `FaultAssumption` the signers who are not faulty hold f + 1 of stake.
* `ParentsAreReady`: `Spec => []ParentsReady`. The invariant `ParentsInv` follows
  parents along their way: what an aggregator holds is stored, of its round, one
  certificate of each author, and weighs no less than its counter (`Collecting`); so
  what it hands over is a stored quorum, and stays one in the channel
  (`Sending`), in the Proposer (`Proposing`) and in its headers (`Proposed`). A
  counter reset at a quorum must come with an emptied collection, or the next weight
  would be of certificates that are not there.

`Batches_proofs` proves, for every number of batches and broken connections:

* `AcknowledgedIsReceived`: `Spec => []QuorumReceived`. That matching by position is right is
  the invariant `InStep`: the pending replies are the acknowledgements under way
  followed by the frames not read yet. With it `Honest` (whatever is acknowledged
  was received) is inductive, and `Counted` ties the waiter's quorum to it.
* `TypeCorrect` and `NeitherLostNorDoubled` (`Spec => []KeptUntilAcked`): for every batch
  and peer, the message is in the buffer or among the pending replies
  exactly once until the handler is resolved, and in neither afterwards (`InOnePlace`). What
  the resending loop keeps is written as the recursive function `OpenOf`, whose
  step and effect on each message are lemmas.

`Payload_proofs` proves, for every set of headers and holders, GC depth and number of
losses, from `PayloadAssumption`: `TypeCorrect`; `RequestIsKept` (`Spec => []RequestKept`), from the invariant
`Fetching`: a batch asked for is in the hands of exactly the task that acts next (on its way to the
worker, asked of the peers, or stored and being reported) unless a loss or a clean-up
was about it, also when no header waits for it any more, for nobody would ask
again; and `AcceptedIsAvailable` (`Spec => []AcceptedAvailable`). A header is accepted when all of its batches were reported (`Complete`), and a
report is made of what is in the worker's store. A reported batch leaves it only
when a header that cites it is two GC depths behind the worker's round (`Kept`):
the worker's record of committed batches is of committed headers (`Truthful`), and
the rounds it is told of never fall (`Rising`), without which a late message would
make a deletion premature in hindsight.

`Routing_proofs` proves, for every committee, set of DAGs, number of accounts and
order and number of deliveries, from `ReroutingAssumption`, `WindowAssumption` and
`RoutingAssumption` (finitely many messages that peers may send, of any content and under any name):

* `TypeCorrect`: `RoutingSpec => []TypeOK`, which needs that every decision ends in an assignment.
* `NeverPanics`: `RoutingSpec => []NeverStops`, what `get_tps` leaves as a TODO to prove.
* `DecisionsAgree`: `RoutingSpec => []SameDecisions`.
* `MovesAreCovered`: `RoutingSpec => MovesFit`.
* `RoutesAreDecided`: `RoutingSpec => []RoutedByCorrect`.

The invariant `Prepared` of a validator: it has the parents of what it has received
(`ParentsReceived`), hence a certificate of every round below (`RoundsReceived`), its own in
order (`OwnInOrder`), and what it no longer tracks is before the window of an
evaluation (`TrackedEnough`). An own certificate that comes for the first time is of a later round than all that were evaluated
(`FirstIsLatest`); one that is not `Latest` came again (`LateIsAgain`). For a `Latest` one nothing of the window was
evicted and its rounds are not empty (`WindowIsReceived`), so only the others stop the task, and what excepts it
then does so for good (`StopsKept`): that is `NeverStops`. In
a settled DAG all certificates of the window have arrived, too (`WindowIsTracked`), so the inputs are
those of a validator that tracks the whole DAG (`DueAlike`), and the decisions of a validator that evaluated each
round once follow one function of the evaluated rounds (`Followed`, `Course`), which `CoursesAgree` shows to
be the only one; other certificates that come again change nothing (`PastStays`). `MovesFit` is an invariant of the two loops (`Fair`: what moved
left an overloaded donor that had its turn for a receiver, and the receivers' spare
capacity is charged with exactly what they gained): receivers are no donors and each donor
and account has one turn (`NthIs`), so what a donor holds at its turn is what it held before
the decision. Sums are cardinalities (`Total`), to which one account adds its load
(`TotalAdded`). Last, behind a
route stand f + 1 voters for one notice (`ConfirmedBacked`, `VotesBacked`), each of which decided it (`MessagesBacked`)
or was named for it by a peer (`Voters`). If no correct validator decided it, all of them were named by peers,
who then gave more than f names (`EnoughAreNamed`, `CountBacked`); decisions and claims only grow (`BackedStays`).

`Replay_proofs` proves of the data-fusion executors, dispatched or replayed, for every log, either
scheduler, any number of executors and workers, losses and restarts, from
`DataFusionAssumption` and `ReplayAssumption`:

* `TypeCorrect`, `AccountsAreOnce` (`ReplaySpec => []AccountOnce`), `PartitionsAgree`
  (`ReplaySpec => []PartitionAgreement`) and `ExecutesSerially`: `ReplaySpec => SerialExecution`, the refinement of
  `SerialBank`, step by step.
* `ReplayTypeCorrect`, and `ReplaysInOrder`: `ReplaySpec => []ReplayInOrder`. By `ReplayInv` everything that
  is said of a batch anywhere follows from its index.

The argument: what an executor knows after k transactions of the log is the value at
k of one function, `Schedule`, whatever order its hash maps were iterated
in (`NewTargetIs`: votes, loads and the least executor decide, not the order). Its progress is two
numbers, how much it has scheduled and how much it has handled (`PlanInv`).
A queue holds in the order of the log what was handled on an account and not
finished (`QueueInv`). The state of an account is where the schedule has it before the next
transaction on it, in a store or in the one message to where that runs
(`AccountInv`), and a message is in one place (`PlaceInv`). So a transaction that is ready
is the first unfinished one on each of its accounts, which is `SerialBank`'s guard.

`Writeback_proofs` proves the same of the write-back executors from `WritebackAssumption`: `TypeCorrect`,
`AwaitedIsOnce` (`Spec => []AwaitedOnce`) and `ExecutesSerially` (`Spec => SerialExecution`). Its
invariant is like the other one, but that an account stays with its owner:
`AwayInv` says that a state that was sent out belongs to the payment at the
head of its queue and that one message, perhaps lost, stands for it, first the
transfer and then the writeback. That the lock table is wrong (`writeback_locks`) does
not enter: it only keeps transactions from being ready.

Induction in these proofs is on numbers, for sets given by a property
(`InductionOnNat`, `InductionDown`), from the well-foundedness of the natural
numbers, and a recursive function on `0 .. n` exists and is
unique by `UpwardRecursion`: the library's theorems for both
take an operator as a parameter, which the provers cannot instantiate.

The inductive invariants of `Certification`, `Batches`, `Payload`, `Rerouting` and `Routing` hold in TLC's
small instances too (but for the conjuncts that only say what is a sequence, and
`Followed`, which is about a function on the natural numbers). Only model-checked is every
liveness property, since that needs fairness and `ENABLED`.

## 6. Not modelled

* Cryptography (signatures are unforgeable, digests collision free),
  serialisation, logging, metrics, TCP and RocksDB.
* The load generator of the benchmark client, replies to clients and the feedback
  they give; of that binary only the migration listener and its routing table are modelled.
* Several workers per validator in normal operation, and with them the hash-map order in
  which `analyze` numbers their batches (`main.rs:221`).
* Channel capacities: every queue is unbounded, so a full pair of channels
  (`synchronizer.rs:79`) and the buffer limit of 5000 batches are out of reach.
* Requests for parents and the primary's `Helper`: they only deliver certificates
  again, which `Certification` allows at any time. Headers, votes and
  certificates of a node's own that others send back to it after a restart.
* A crash in the middle of a turn of `Core`.
* In `Rerouting` the GC horizon: `Core` drops a certificate that comes again from below it, the
  model takes it (for the safety properties a superset of what happens). In `Routing` connections of peers beyond one each, and
  notices that name no authority as target.
* Transactions are named by their place in the log, not by `TxID`; logs have no payment of an
  account to itself, no malformed transaction and no empty batch (clients make none).
* The copies of the main crates in `executor-replay` (the main tree is the
  reference); `executor-replay/worker/src/stratus.rs`, which no module tree
  contains and which is therefore never compiled; `executor-sim` and the scripts.
