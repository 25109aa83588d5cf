----------------------------- MODULE DataFusion -----------------------------
(***************************************************************************)
(* The data-fusion executors of one validator (worker/src/batch_executor.rs*)
(* and state_helper.rs).  Every executor receives every committed batch,   *)
(* schedules its transactions on a copy of the account partition, runs     *)
(* those scheduled on itself, and moves the state of an account to the     *)
(* executor the next transaction on it was scheduled on.                   *)
(*                                                                         *)
(* Sequence numbers start at 1 here (0 in the code); a transaction is its  *)
(* position in the committed log.  A hash map is a function or a set, and  *)
(* the order it is iterated in is chosen anew each time.                   *)
(***************************************************************************)
EXTENDS SmallBank, FiniteSets, SequencesExt

CONSTANTS
  Executors,          \* the executors of the validator, numbers (ExecutorId)
  Accounts,           \* the accounts of the workload
  NotHere,            \* an account absent from an executor's store
  InitialBank,        \* create_account_with_seed: their states at boot
  InitialPartition,   \* create_initial_partition: their first owners
  Logs,               \* the committed logs considered
  Schedulers,         \* the values of use_new_scheduler considered
  MaxLost             \* bound: messages the network loses

\* A log: the transactions in their global order, and the position of the last
\* transaction of each batch.  No batch is empty: BatchMaker seals none.  What the
\* executors would parse and the clients never send is left out: payments of an
\* account to itself, and transactions that are too short.
IsLog(l) ==
  /\ l.txs \in Seq(Transaction(Accounts))
  /\ l.ends \in Seq(1 .. Len(l.txs)) /\ l.ends # << >>
  /\ \A i \in 1 .. Len(l.txs) : IsTransaction(l.txs[i], Accounts)
  /\ \A s \in 1 .. Len(l.ends) : l.ends[s] > (IF s = 1 THEN 0 ELSE l.ends[s - 1])
  /\ l.ends[Len(l.ends)] = Len(l.txs)

ASSUME DataFusionAssumption ==
  /\ Executors \subseteq Nat /\ IsFiniteSet(Executors)
  /\ InitialPartition \in [Accounts -> Executors]
  /\ InitialBank \in [Accounts -> AccountState] /\ NotHere \notin AccountState
  /\ \A l \in Logs : IsLog(l)
  /\ Schedulers \subseteq BOOLEAN
  /\ MaxLost \in Nat

VARIABLES
  log,           \* the committed log
  newScheduler,  \* Parameters::use_new_scheduler
  inbox,         \* batches sent to each executor and not received yet
  next,          \* next_sequence
  buffer,        \* buffer: sequence numbers received too early
  phase,         \* what the executor's task does: idle, schedule,
                 \* execute, incoming
  batch,         \* the transactions of the batch not scheduled yet
  owners,        \* who owns each account as the scheduler sees it in the batch
  loads,         \* current_loads of the batch
  plan,          \* the scheduled transactions of the batch still to handle
  partition,     \* states_schedule_partition
  queues,        \* pending_queues
  store,         \* account_store
  net,           \* StateTransfers sent and not received
  incoming,      \* incoming_transfers, shared with the StateHelper
  drained,       \* drained_incoming_transfers
  todo,          \* transactions process_incoming_transfers has still to look at
  work,          \* unlocked accounts, then the worklist of drain_pending_queues
  done,          \* the transactions executed so far, by any executor
  lost,          \* StateTransfers the network lost
  gaps           \* Execute messages the network lost

batchVars    == <<inbox, next, buffer>>
schedulerVars == <<batch, owners, loads>>
transferVars == <<net, incoming, drained, todo>>
lossVars     == <<lost, gaps>>
vars == <<log, newScheduler, inbox, next, buffer, phase, batch, owners, loads, plan,
          partition, queues, store, net, incoming, drained, todo, work, done, lost, gaps>>

\* A transaction is named by its position where the code uses its TxID, which is
\* unique if the clients' counters are.
Tx(t) == log.txs[t]
NumBatches == Len(log.ends)

\* The position before the first transaction of a batch, and the transactions of
\* the batch: their order is that of the positions.
Start(s) == IF s = 1 THEN 0 ELSE log.ends[s - 1]
Batch(s) == Start(s) + 1 .. log.ends[s]

\* analyze numbers the batches of the committed certificates, and the Router
\* broadcasts each to all executors.
Dispatched == 1 .. NumBatches

\* The executors at boot, some batches on their way to each of them.
StartWith(batches) ==
  /\ log \in Logs
  /\ newScheduler \in Schedulers
  /\ inbox = [e \in Executors |-> batches]
  /\ next = [e \in Executors |-> 1]
  /\ buffer = [e \in Executors |-> {}]
  /\ phase = [e \in Executors |-> "idle"]
  /\ batch = [e \in Executors |-> {}]
  /\ owners = [e \in Executors |-> InitialPartition]
  /\ loads = [e \in Executors |-> [f \in Executors |-> 0]]
  /\ plan = [e \in Executors |-> {}]
  /\ partition = [e \in Executors |-> InitialPartition]
  /\ queues = [e \in Executors |-> [a \in Accounts |-> << >>]]
  /\ store = [e \in Executors |-> [a \in Accounts |->
                 IF InitialPartition[a] = e THEN InitialBank[a] ELSE NotHere]]
  /\ net = {}
  /\ incoming = [e \in Executors |-> {}]
  /\ drained = [e \in Executors |-> {}]
  /\ todo = [e \in Executors |-> {}]
  /\ work = [e \in Executors |-> {}]
  /\ done = {}
  /\ lost = {}
  /\ gaps = {}

Init == StartWith(Dispatched)

-----------------------------------------------------------------------------
(* Scheduling: which executor each transaction of a batch runs on.         *)

\* The order in which a hash map keyed by executors may be iterated.
Orders == {o \in [1 .. Cardinality(Executors) -> Executors] :
              \A e \in Executors : \E i \in DOMAIN o : o[i] = e}

NoExecutor == -1

\* The load one executor may reach in a batch: half again its even share,
\* rounded up.
MaxAllowed(size) ==
  LET n == Cardinality(Executors) IN (3 * size + 2 * n - 1) \div (2 * n)

\* Faulty variant: of two executors with as many votes, the one met first.
BetterByScore(e, best, votes, load) == best = NoExecutor \/ votes[e] > votes[best]

\* A vote beats the best one so far by score, then load, then executor id.
Better(e, best, votes, load) ==
  \/ best = NoExecutor
  \/ votes[e] > votes[best]
  \/ votes[e] = votes[best] /\ load[e] < load[best]
  \/ votes[e] = votes[best] /\ load[e] = load[best] /\ e < best

\* The loop over the votes: the best executor among the first i in the order.
BestAmong(order, votes, load, max) ==
  LET best[i \in 0 .. Len(order)] ==
        IF i = 0 THEN NoExecutor
        ELSE LET e == order[i]
             IN  IF votes[e] > 0 /\ load[e] < max /\ Better(e, best[i - 1], votes, load)
                 THEN e ELSE best[i - 1]
  IN  best

BestVoted(order, votes, load, max) == BestAmong(order, votes, load, max)[Len(order)]

LeastLoaded(load) ==
  CHOOSE e \in Executors : \A f \in Executors :
    load[e] < load[f] \/ (load[e] = load[f] /\ e <= f)

\* Faulty variant: nobody takes what the voted executors have no room for.
NewTargetVoted(accts, owner, load, max, order) ==
  BestVoted(order, [e \in Executors |-> Cardinality({a \in accts : owner[a] = e})], load, max)

\* The new scheduler: a transaction follows the owners of its accounts, unless
\* they all had their share of the batch; then it goes where the load is least.
NewTarget(accts, owner, load, max, order) ==
  LET votes == [e \in Executors |-> Cardinality({a \in accts : owner[a] = e})]
      voted == BestVoted(order, votes, load, max)
  IN  IF voted # NoExecutor THEN voted ELSE LeastLoaded(load)

\* determine_locality: what a transaction is to executor e, and the accounts
\* that move because of it.
Locality(e, owner, accts, target) ==
  LET mine  == {a \in accts : owner[a] = e}
      kind  == IF target = e THEN IF mine = accts THEN "local" ELSE "in"
               ELSE IF mine = {} THEN "others" ELSE "out"
      moved == CASE kind = "in" -> accts \ mine [] kind = "out" -> mine [] OTHER -> {}
  IN  [kind |-> kind, moved |-> moved, dest |-> target]

\* update_partition_for_locality.
PartitionAfter(owner, accts, locality) ==
  LET changed == CASE locality.kind = "local" -> {}
                   [] locality.kind = "in"    -> locality.moved
                   [] OTHER                   -> accts
  IN  [a \in Accounts |-> IF a \in changed THEN locality.dest ELSE owner[a]]

-----------------------------------------------------------------------------
(* Queues and readiness.                                                   *)

AtHead(e, a, t) == queues[e][a] # << >> /\ Head(queues[e][a]).tx = t

\* Faulty variant: whoever finds the accounts here runs, in front of the queue.
IsReadyOutOfTurn(e, t, accts) == \A a \in accts : store[e][a] # NotHere

\* is_ready_to_execute: the accounts are here, and t waits behind nobody.
IsReadyToExecute(e, t, accts) ==
  \A a \in accts : /\ store[e][a] # NotHere
                   /\ queues[e][a] = << >> \/ AtHead(e, a, t)

\* lock_and_enqueue_transaction.
Enqueue(e, accts, pending) ==
  queues' = [queues EXCEPT ![e] = [a \in Accounts |->
               IF a \in accts THEN Append(@[a], pending) ELSE @[a]]]

\* pop_transaction_from_accounts.
Pop(e, accts) ==
  queues' = [queues EXCEPT ![e] = [a \in Accounts |->
               IF a \in accts THEN Tail(@[a]) ELSE @[a]]]

\* execute_single_local_transaction, on the accounts the executor holds after
\* it took over those of `arrived`.
ExecuteWith(e, t, arrived) ==
  LET held == [a \in Accounts |->
                 IF \E m \in arrived : m.account = a
                 THEN (CHOOSE m \in arrived : m.account = a).state
                 ELSE store[e][a]]
  IN  /\ store' = [store EXCEPT ![e] = Executed(held, Tx(t))]
      /\ done' = done \cup {t}

\* What the StateHelper sends for them.
StateTransfers(e, t, accts, dest) ==
  {[tx |-> t, account |-> a, state |-> store[e][a], to |-> dest] : a \in accts}

\* Faulty variant: the accounts are sent but stay in the store.
MigrateOutCopy(e, t, accts, dest) ==
  /\ net' = net \cup StateTransfers(e, t, accts, dest)
  /\ UNCHANGED store

\* execute_migrate_out: the accounts leave the store, one StateTransfer each.
MigrateOut(e, t, accts, dest) ==
  /\ store' = [store EXCEPT ![e] = [a \in Accounts |->
                 IF a \in accts THEN NotHere ELSE @[a]]]
  /\ net' = net \cup StateTransfers(e, t, accts, dest)

-----------------------------------------------------------------------------
(* Receiving batches.                                                      *)

NoLoad == [e \in Executors |-> 0]

\* What the scheduler starts a batch from; local_updates is empty, so the owner
\* of an account is the partition's.
StartBatch(e, s) ==
  /\ phase' = [phase EXCEPT ![e] = "schedule"]
  /\ batch' = [batch EXCEPT ![e] = Batch(s)]
  /\ owners' = [owners EXCEPT ![e] = partition[e]]
  /\ loads' = [loads EXCEPT ![e] = NoLoad]

\* A batch arrives: the next one runs, a later one is buffered.  The router
\* sends each executor every batch once, so none is ever older.
ProcessExecute(e, s) ==
  /\ phase[e] = "idle" /\ next[e] \notin buffer[e]
  /\ s \in inbox[e]
  /\ inbox' = [inbox EXCEPT ![e] = @ \ {s}]
  /\ \/ /\ s = next[e]
        /\ StartBatch(e, s)
        /\ UNCHANGED buffer
     \/ /\ s > next[e]
        /\ buffer' = [buffer EXCEPT ![e] = @ \cup {s}]
        /\ UNCHANGED <<phase, batch, owners, loads>>
  /\ UNCHANGED <<log, newScheduler, next, plan, partition, queues, store, transferVars,
                 work, done, lossVars>>

\* The loop over consecutive buffered batches.
ProcessBuffered(e) ==
  /\ phase[e] = "idle" /\ next[e] \in buffer[e]
  /\ buffer' = [buffer EXCEPT ![e] = @ \ {next[e]}]
  /\ StartBatch(e, next[e])
  /\ UNCHANGED <<log, newScheduler, inbox, next, plan, partition, queues, store,
                 transferVars, work, done, lossVars>>

\* parse_and_schedule_batch_transactions and the first loop of execute_batch,
\* one transaction at a time: its target, what it is to this executor, and the
\* partition after it.  Nothing here awaits.
ScheduleTransaction(e) ==
  /\ phase[e] = "schedule"
  /\ \E t \in batch[e], order \in Orders :
       LET accts    == RequiredAccounts(Tx(t))
           size     == log.ends[next[e]] - Start(next[e])
           target   == IF newScheduler
                       THEN NewTarget(accts, owners[e], loads[e], MaxAllowed(size), order)
                       ELSE owners[e][Tx(t).src]
           locality == Locality(e, partition[e], accts, target)
       IN  /\ \A u \in batch[e] : t <= u
           /\ batch' = [batch EXCEPT ![e] = @ \ {t}]
           /\ plan' = [plan EXCEPT ![e] = @ \cup {[tx |-> t, locality |-> locality]}]
           /\ partition' = [partition EXCEPT ![e] = PartitionAfter(@, accts, locality)]
           /\ \/ /\ newScheduler
                 /\ owners' = [owners EXCEPT ![e] = [a \in Accounts |->
                                IF a \in accts THEN target ELSE @[a]]]
                 /\ loads' = [loads EXCEPT ![e][target] = @ + 1]
              \/ /\ ~newScheduler
                 /\ UNCHANGED <<owners, loads>>
  /\ phase' = [phase EXCEPT ![e] = IF batch'[e] = {} THEN "execute" ELSE @]
  /\ UNCHANGED <<log, newScheduler, batchVars, queues, store, transferVars, work, done,
                 lossVars>>

-----------------------------------------------------------------------------
(* The second loop of execute_batch: handle_transaction_by_locality.       *)

HandleLocal(e, p) ==
  LET t     == p.tx
      accts == RequiredAccounts(Tx(t))
  IN
  \/ /\ IsReadyToExecute(e, t, accts)
     /\ ExecuteWith(e, t, {})
     /\ UNCHANGED <<queues, net>>
  \/ /\ ~IsReadyToExecute(e, t, accts)
     /\ Enqueue(e, accts, p)
     /\ UNCHANGED <<store, done, net>>

HandleMigrateOut(e, p) ==
  LET moved == p.locality.moved
  IN
  \/ /\ IsReadyToExecute(e, p.tx, moved)
     /\ MigrateOut(e, p.tx, moved, p.locality.dest)
     /\ UNCHANGED <<queues, done>>
  \/ /\ ~IsReadyToExecute(e, p.tx, moved)
     /\ Enqueue(e, moved, p)
     /\ UNCHANGED <<store, done, net>>

HandleTransaction(e) ==
  /\ phase[e] = "execute"
  /\ \E p \in plan[e] :
       /\ \A q \in plan[e] : p.tx <= q.tx
       /\ plan' = [plan EXCEPT ![e] = @ \ {p}]
       /\ \/ /\ p.locality.kind = "local"
             /\ HandleLocal(e, p)
          \/ /\ p.locality.kind = "out"
             /\ HandleMigrateOut(e, p)
          \/ /\ p.locality.kind = "in"
             /\ Enqueue(e, RequiredAccounts(Tx(p.tx)), p)
             /\ UNCHANGED <<store, done, net>>
          \/ /\ p.locality.kind = "others"
             /\ UNCHANGED <<queues, store, done, net>>
  /\ UNCHANGED <<log, newScheduler, batchVars, schedulerVars, phase, partition, incoming, drained,
                 todo, work, lossVars>>

-----------------------------------------------------------------------------
(* process_incoming_transfers, at the end of every batch.                  *)

\* The shared buffer is emptied once; its transactions are looked at one by one.
DrainIncoming(e) ==
  /\ drained' = [drained EXCEPT ![e] = @ \cup incoming[e]]
  /\ incoming' = [incoming EXCEPT ![e] = {}]
  /\ todo' = [todo EXCEPT ![e] = {m.tx : m \in drained'[e]}]
  /\ phase' = [phase EXCEPT ![e] = "incoming"]
  /\ UNCHANGED <<log, newScheduler, batchVars, schedulerVars, plan, partition, queues, store, net,
                 work, done, lossVars>>

EndOfTransactions(e) ==
  /\ phase[e] = "execute" /\ plan[e] = {}
  /\ DrainIncoming(e)

\* Batches keep coming after the log ends: one that names none of its accounts
\* still makes the executor look at the transfers that arrived.
QuietBatch(e) ==
  /\ phase[e] = "idle" /\ next[e] > NumBatches
  /\ incoming[e] \cup drained[e] # {}
  /\ DrainIncoming(e)

Arrived(e, t) == {m \in drained[e] : m.tx = t}

\* Faulty variant: a transfer is expected for every account, local ones too.
CanMigrateInWhole(e, t) ==
  LET accts == RequiredAccounts(Tx(t))
  IN  /\ \A a \in accts : AtHead(e, a, t)
      /\ Cardinality(Arrived(e, t)) = Cardinality(accts)

\* Every transfer t waits for is here, and t is first in line everywhere.
CanMigrateIn(e, t) ==
  LET accts == RequiredAccounts(Tx(t))
      moved == Head(queues[e][Tx(t).src]).locality.moved
  IN  /\ \A a \in accts : AtHead(e, a, t)
      /\ Cardinality(Arrived(e, t)) = Cardinality(moved)
      /\ \A a \in accts : a \in moved \/ store[e][a] # NotHere

MigrateIn(e, t) ==
  /\ phase[e] = "incoming" /\ t \in todo[e]
  /\ todo' = [todo EXCEPT ![e] = @ \ {t}]
  /\ \/ /\ CanMigrateIn(e, t)
        /\ Pop(e, RequiredAccounts(Tx(t)))
        /\ ExecuteWith(e, t, Arrived(e, t))
        /\ drained' = [drained EXCEPT ![e] = @ \ Arrived(e, t)]
        /\ work' = [work EXCEPT ![e] = @ \cup RequiredAccounts(Tx(t))]
     \/ /\ ~CanMigrateIn(e, t)
        /\ UNCHANGED <<queues, store, done, drained, work>>
  /\ UNCHANGED <<log, newScheduler, batchVars, schedulerVars, phase, plan, partition, net, incoming, lossVars>>

\* get_executable_queue_head: the first transaction of an account's queue can run
\* here, or leave.
CanRun(e, a) ==
  /\ queues[e][a] # << >>
  /\ LET head == Head(queues[e][a])
     IN  head.locality.kind = "local" /\ IsReadyToExecute(e, head.tx, RequiredAccounts(Tx(head.tx)))

CanLeave(e, a) ==
  /\ queues[e][a] # << >>
  /\ LET head == Head(queues[e][a])
     IN  head.locality.kind = "out" /\ IsReadyToExecute(e, head.tx, head.locality.moved)

\* One turn of drain_pending_queues on an unlocked account: its first
\* transaction runs or leaves, or the account is dropped from the worklist.
DrainHead(e, a) ==
  /\ phase[e] = "incoming" /\ todo[e] = {} /\ a \in work[e]
  /\ LET pending == Head(queues[e][a])
         accts   == RequiredAccounts(Tx(pending.tx))
         locality == pending.locality
     IN  \/ /\ CanRun(e, a)
            /\ Pop(e, accts)
            /\ ExecuteWith(e, pending.tx, {})
            /\ work' = [work EXCEPT ![e] = @ \cup accts]
            /\ UNCHANGED net
         \/ /\ CanLeave(e, a)
            /\ Pop(e, locality.moved)
            /\ MigrateOut(e, pending.tx, locality.moved, locality.dest)
            /\ UNCHANGED <<work, done>>
         \/ /\ ~CanRun(e, a) /\ ~CanLeave(e, a)
            /\ work' = [work EXCEPT ![e] = @ \ {a}]
            /\ UNCHANGED <<queues, store, net, done>>
  /\ UNCHANGED <<log, newScheduler, batchVars, schedulerVars, phase, plan, partition, incoming, drained,
                 todo, lossVars>>

FinishBatch(e) ==
  /\ phase[e] = "incoming" /\ todo[e] = {} /\ work[e] = {}
  /\ next' = [next EXCEPT ![e] = IF @ > NumBatches THEN @ ELSE @ + 1]
  /\ phase' = [phase EXCEPT ![e] = "idle"]
  /\ UNCHANGED <<log, newScheduler, inbox, buffer, schedulerVars, plan, partition, queues, store,
                 transferVars, work, done, lossVars>>

-----------------------------------------------------------------------------
(* The network: best effort (SimpleSender), and the StateHelper behind it. *)

\* handle_executor_message.
DeliverTransfer(m) ==
  /\ m \in net
  /\ net' = net \ {m}
  /\ incoming' = [incoming EXCEPT ![m.to] = @ \cup {m}]
  /\ UNCHANGED <<log, newScheduler, batchVars, schedulerVars, phase, plan, partition, queues, store,
                 drained, todo, work, done, lossVars>>

NotAllLost == Cardinality(lost) + Cardinality(gaps) < MaxLost

LoseTransfer(m) ==
  /\ m \in net /\ NotAllLost
  /\ net' = net \ {m}
  /\ lost' = lost \cup {m}
  /\ UNCHANGED <<log, newScheduler, batchVars, schedulerVars, phase, plan, partition, queues, store,
                 incoming, drained, todo, work, done, gaps>>

\* An executor that misses a batch buffers all the later ones.
LoseExecute(e, s) ==
  /\ s \in inbox[e] /\ NotAllLost
  /\ inbox' = [inbox EXCEPT ![e] = @ \ {s}]
  /\ gaps' = gaps \cup {<<e, s>>}
  /\ UNCHANGED <<log, newScheduler, next, buffer, schedulerVars, phase, plan, partition, queues,
                 store, transferVars, work, done, lost>>

BatchStep(e) ==
  \/ \E s \in inbox[e] : ProcessExecute(e, s)
  \/ ProcessBuffered(e)
  \/ ScheduleTransaction(e)
  \/ HandleTransaction(e)
  \/ EndOfTransactions(e)
  \/ \E t \in todo[e] : MigrateIn(e, t)
  \/ \E a \in work[e] : DrainHead(e, a)
  \/ FinishBatch(e)

Step(e) == BatchStep(e) \/ QuietBatch(e)

NetworkStep ==
  \/ \E m \in net : DeliverTransfer(m)
  \/ \E m \in net : LoseTransfer(m)
  \/ \E e \in Executors : \E s \in inbox[e] : LoseExecute(e, s)

Next == (\E e \in Executors : Step(e)) \/ NetworkStep

\* The executors are tasks the runtime keeps scheduling, and the network
\* delivers what it does not lose.
Fairness ==
  /\ \A e \in Executors : WF_vars(Step(e))
  /\ WF_vars(\E m \in net : DeliverTransfer(m))

Spec == Init /\ [][Next]_vars /\ Fairness

-----------------------------------------------------------------------------
InFlight == net \cup lost \cup UNION {incoming[e] \cup drained[e] : e \in Executors}

Transfers == [tx : 1 .. Len(log.txs), account : Accounts,
              state : AccountState, to : Executors]

\* Type correctness of the executors' state.
TypeOK ==
  /\ log \in Logs /\ newScheduler \in Schedulers
  /\ \A e \in Executors :
       /\ inbox[e] \subseteq 1 .. NumBatches /\ buffer[e] \subseteq 1 .. NumBatches
       /\ next[e] \in 1 .. NumBatches + 1
       /\ phase[e] \in {"idle", "schedule", "execute", "incoming"}
       /\ partition[e] \in [Accounts -> Executors]
       /\ \A a \in Accounts : store[e][a] = NotHere \/
                              store[e][a] \in AccountState
       /\ todo[e] \subseteq 1 .. Len(log.txs) /\ work[e] \subseteq Accounts
  /\ InFlight \subseteq Transfers /\ gaps \subseteq Executors \X Dispatched
  /\ done \subseteq 1 .. Len(log.txs)

\* Migration neither duplicates an account nor drops one: it is in one store or
\* in one transfer, which may be the one the network lost.  (execute_migrate_out,
\* process_incoming_transfers, handle_executor_message)
AccountOnce ==
  \A a \in Accounts :
    Cardinality({e \in Executors : store[e][a] # NotHere})
      + Cardinality({m \in InFlight : m.account = a}) = 1

\* The scheduler is a function of the log alone: executors that scheduled the
\* same batches agree on who owns what, in whatever order they iterated their
\* hash maps ("this has to be same across all executors, otherwise the behavior
\* is undefined", batch_executor.rs:303).
PartitionAgreement ==
  LET scheduled(e) == IF phase[e] = "idle" \/ next[e] > NumBatches THEN next[e] ELSE next[e] + 1
      settled == {e \in Executors : phase[e] # "schedule"}
  IN  \A e, f \in settled : scheduled(e) = scheduled(f) => partition[e] = partition[f]

\* Where the state of an account is now.
CurrentState(a) ==
  LET here == ({store[e][a] : e \in Executors} \ {NotHere})
              \cup {m.state : m \in {n \in InFlight : n.account = a}}
  IN  CHOOSE s \in here : TRUE

\* The executors implement serial execution in the committed order: every
\* transaction sees exactly the earlier transactions on its accounts, whichever
\* executors ran them.
Bank == INSTANCE SerialBank WITH
          Initial <- InitialBank,
          txs  <- log.txs,
          done <- done,
          bank <- [a \in Accounts |-> CurrentState(a)]

SerialExecution == Bank!Init /\ [][Bank!Next]_(Bank!bankVars)
=============================================================================
