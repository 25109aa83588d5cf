------------------------------ MODULE Writeback ------------------------------
(***************************************************************************)
(* The write-back executors of one validator (writeback_batch_executor.rs, *)
(* writeback_state_helper.rs, writeback_router.rs).  Accounts never change *)
(* owner.  The router sends an executor the transactions on its accounts;  *)
(* a payment between two executors goes to both: the source sends its      *)
(* account's state, the destination applies the payment and sends the      *)
(* debited state back, and meanwhile the account is locked at the source.  *)
(*                                                                         *)
(* Sequence numbers start at 1 here (0 in the code); a transaction is its  *)
(* position in the committed log.                                          *)
(***************************************************************************)
EXTENDS SmallBank, FiniteSets, SequencesExt

CONSTANTS
  Executors,      \* the executors of the validator
  Accounts,       \* the accounts of the workload
  InitialBank,    \* create_account_with_seed: their states at boot
  Partition,      \* the owner of each account, "static during runtime"
  Logs,           \* the committed logs considered
  NoTx,           \* no transaction holds the lock
  MaxLost         \* bound: messages the network loses

\* As in DataFusion: payments between different accounts, no empty batch.
IsLog(l) ==
  /\ l.txs \in Seq(Transaction(Accounts))
  /\ l.ends \in Seq(1 .. Len(l.txs)) /\ l.ends # << >>
  /\ \A i \in 1 .. Len(l.txs) : IsTransaction(l.txs[i], Accounts)
  /\ \A s \in 1 .. Len(l.ends) : l.ends[s] > (IF s = 1 THEN 0 ELSE l.ends[s - 1])
  /\ l.ends[Len(l.ends)] = Len(l.txs)

ASSUME WritebackAssumption ==
  /\ Partition \in [Accounts -> Executors]
  /\ InitialBank \in [Accounts -> AccountState]
  /\ \A l \in Logs : IsLog(l)
  /\ NoTx \notin Nat
  /\ MaxLost \in Nat

VARIABLES
  log,          \* the committed log
  inbox,        \* batches sent to each executor and not received yet
  next,         \* next_sequence
  buffer,       \* buffer: sequence numbers received too early
  phase,        \* what the task does: idle, execute, writebacks, transfers
  plan,         \* the transactions of the batch still to handle
  queues,       \* pending_queues
  locks,        \* account_locks
  store,        \* account_store, of all executors: accounts stay where they are
  outgoing,     \* outgoing_states_buffer: transactions awaiting their writeback
  net,          \* StateTransfers and StateWritebacks sent and not received
  incoming,     \* incoming_transfers and incoming_writebacks
  local,        \* local_transfers and local_writebacks
  todo,         \* transactions whose message has still to be looked at
  work,         \* unlocked accounts, then the worklist of drain_pending_queues
  done,         \* the transactions that took effect so far
  lost,         \* StateTransfers and StateWritebacks the network lost
  gaps          \* Execute messages the network lost

batchVars   == <<inbox, next, buffer>>
messageVars == <<net, incoming, local>>
lossVars    == <<lost, gaps>>
vars == <<log, inbox, next, buffer, phase, plan, queues, locks, store, outgoing, net,
          incoming, local, todo, work, done, lost, gaps>>

\* A transaction is named by its position where the code uses its TxID.
Tx(t) == log.txs[t]
NumBatches == Len(log.ends)

Source(t) == Partition[Tx(t).src]
Dest(t)   == Partition[Tx(t).dest]

\* determine_locality, which the router agrees with: the partition is the same.
IsLocal(t) == Source(t) = Dest(t)

\* The accounts of t that executor e queues it on.
LocalAccounts(e, t) == {a \in RequiredAccounts(Tx(t)) : Partition[a] = e}

\* The position before the first transaction of a batch.
Start(s) == IF s = 1 THEN 0 ELSE log.ends[s - 1]

\* route_execution: an executor's part of a batch, possibly empty (SequenceSync).
\* It keeps the committed order, which is that of the positions.
Routed(e, s) ==
  {t \in Start(s) + 1 .. log.ends[s] : e \in {Source(t), Dest(t)}}

Init ==
  /\ log \in Logs
  /\ inbox = [e \in Executors |-> 1 .. NumBatches]
  /\ next = [e \in Executors |-> 1]
  /\ buffer = [e \in Executors |-> {}]
  /\ phase = [e \in Executors |-> "idle"]
  /\ plan = [e \in Executors |-> {}]
  /\ queues = [a \in Accounts |-> << >>]
  /\ locks = [a \in Accounts |-> NoTx]
  /\ store = InitialBank
  /\ outgoing = {}
  /\ net = {}
  /\ incoming = [e \in Executors |-> {}]
  /\ local = [e \in Executors |-> {}]
  /\ todo = [e \in Executors |-> {}]
  /\ work = [e \in Executors |-> {}]
  /\ done = {}
  /\ lost = {}
  /\ gaps = {}

-----------------------------------------------------------------------------
(* Queues, locks and readiness. An account has one owner, so its queue and *)
(* its lock are indexed by the account alone.                              *)

AtHead(a, t) == queues[a] # << >> /\ Head(queues[a]) = t

\* Faulty variant: a free account is taken, whoever waits for it.
IsReadyIfFree(t, accts) == \A a \in accts : locks[a] \in {NoTx, t}

\* is_ready_to_execute: nobody else holds a lock, and t waits behind nobody.
IsReadyToExecute(t, accts) ==
  \A a \in accts : /\ locks[a] \in {NoTx, t}
                   /\ queues[a] = << >> \/ AtHead(a, t)

\* lock_and_enqueue_transaction: the lock goes to the last one to arrive.
LockAndEnqueue(t, accts) ==
  /\ queues' = [a \in Accounts |-> IF a \in accts THEN Append(queues[a], t) ELSE queues[a]]
  /\ locks' = [a \in Accounts |-> IF a \in accts THEN t ELSE locks[a]]

\* Faulty variant: the account stays locked.
PopOnly(accts) ==
  /\ queues' = [a \in Accounts |-> IF a \in accts THEN Tail(queues[a]) ELSE queues[a]]
  /\ UNCHANGED locks

\* remove_from_all_queues, and the unlocking after the transaction.
PopAndUnlock(accts) ==
  /\ queues' = [a \in Accounts |-> IF a \in accts THEN Tail(queues[a]) ELSE queues[a]]
  /\ locks' = [a \in Accounts |-> IF a \in accts THEN NoTx ELSE locks[a]]

\* execute_single_local_transaction.
Execute(t) ==
  /\ store' = Executed(store, Tx(t))
  /\ done' = done \cup {t}

Transfer(t) == [kind |-> "transfer", tx |-> t, state |-> store[Tx(t).src], to |-> Dest(t)]

\* send_state_transfer_for_tx.
SendStateTransfer(t) ==
  /\ outgoing' = outgoing \cup {t}
  /\ net' = net \cup {Transfer(t)}

-----------------------------------------------------------------------------
(* Receiving batches.                                                      *)

StartBatch(e, s) ==
  /\ phase' = [phase EXCEPT ![e] = "execute"]
  /\ plan' = [plan EXCEPT ![e] = Routed(e, s)]

ProcessExecute(e, s) ==
  /\ phase[e] = "idle" /\ next[e] \notin buffer[e]
  /\ s \in inbox[e]
  /\ inbox' = [inbox EXCEPT ![e] = @ \ {s}]
  /\ \/ /\ s = next[e]
        /\ StartBatch(e, s)
        /\ UNCHANGED buffer
     \/ /\ s > next[e]
        /\ buffer' = [buffer EXCEPT ![e] = @ \cup {s}]
        /\ UNCHANGED <<phase, plan>>
  /\ UNCHANGED <<log, next, queues, locks, store, outgoing, messageVars, todo, work, done, lossVars>>

ProcessBuffered(e) ==
  /\ phase[e] = "idle" /\ next[e] \in buffer[e]
  /\ buffer' = [buffer EXCEPT ![e] = @ \ {next[e]}]
  /\ StartBatch(e, next[e])
  /\ UNCHANGED <<log, inbox, next, queues, locks, store, outgoing, messageVars, todo, work,
                 done, lossVars>>

\* One turn of execute_batch's loop. A payment to another executor is always
\* queued, and its state sent at once if it is first in line.
HandleTransaction(e) ==
  /\ phase[e] = "execute"
  /\ \E t \in plan[e] :
       LET accts == LocalAccounts(e, t)
       IN  /\ \A u \in plan[e] : t <= u
           /\ plan' = [plan EXCEPT ![e] = @ \ {t}]
           /\ \/ /\ IsLocal(t) /\ IsReadyToExecute(t, accts)
                 /\ Execute(t)
                 /\ UNCHANGED <<queues, locks, outgoing, net>>
              \/ /\ IsLocal(t) /\ ~IsReadyToExecute(t, accts)
                 /\ LockAndEnqueue(t, accts)
                 /\ UNCHANGED <<store, done, outgoing, net>>
              \/ /\ ~IsLocal(t)
                 /\ LockAndEnqueue(t, accts)
                 /\ IF e = Source(t) /\ queues[Tx(t).src] = << >>
                    THEN SendStateTransfer(t)
                    ELSE UNCHANGED <<outgoing, net>>
                 /\ UNCHANGED <<store, done>>
  /\ UNCHANGED <<log, batchVars, phase, incoming, local, todo, work, lossVars>>

-----------------------------------------------------------------------------
(* process_incoming_writebacks, then process_incoming_transfers, at the end *)
(* of every batch.                                                         *)

Arrived(e, kind) == {m \in incoming[e] : m.kind = kind}

\* Each shared buffer is emptied once; its transactions are looked at one by one.
Drain(e, kind) ==
  /\ phase' = [phase EXCEPT ![e] = kind]
  /\ local' = [local EXCEPT ![e] = @ \cup Arrived(e, kind)]
  /\ incoming' = [incoming EXCEPT ![e] = @ \ Arrived(e, kind)]
  /\ todo' = [todo EXCEPT ![e] = {m.tx : m \in {n \in local'[e] : n.kind = kind}}]
  /\ UNCHANGED <<log, batchVars, plan, queues, locks, store, outgoing, net, work, done, lossVars>>

EndOfTransactions(e) ==
  /\ phase[e] = "execute" /\ plan[e] = {}
  /\ Drain(e, "writeback")

\* Batches keep coming after the log ends, if only as sequence markers.
QuietBatch(e) ==
  /\ phase[e] = "idle" /\ next[e] > NumBatches
  /\ incoming[e] \cup local[e] # {}
  /\ Drain(e, "writeback")

EndOfWritebacks(e) ==
  /\ phase[e] = "writeback" /\ todo[e] = {} /\ work[e] = {}
  /\ Drain(e, "transfer")

Message(e, t, kind) == CHOOSE m \in local[e] : m.tx = t /\ m.kind = kind

\* A writeback whose transaction is first in line: the account takes the state
\* the destination left it in, and is unlocked.
TakeWriteback(e, t) ==
  /\ phase[e] = "writeback" /\ t \in todo[e]
  /\ todo' = [todo EXCEPT ![e] = @ \ {t}]
  /\ LET m == Message(e, t, "writeback")
         a == Tx(t).src
     IN  \/ /\ AtHead(a, t)
            /\ PopAndUnlock({a})
            /\ store' = [store EXCEPT ![a] = m.state]
            /\ local' = [local EXCEPT ![e] = @ \ {m}]
            /\ outgoing' = outgoing \ {t}
            /\ work' = [work EXCEPT ![e] = @ \cup {a}]
         \/ /\ ~AtHead(a, t)
            /\ UNCHANGED <<queues, locks, store, local, outgoing, work>>
  /\ UNCHANGED <<log, batchVars, phase, plan, net, incoming, done, lossVars>>

Writeback(t, state) == [kind |-> "writeback", tx |-> t, state |-> state, to |-> Source(t)]

\* A transfer whose transaction is first in line: the payment is made if the
\* source's balance covers it, and the source's state goes back.
TakeTransfer(e, t) ==
  /\ phase[e] = "transfer" /\ t \in todo[e]
  /\ todo' = [todo EXCEPT ![e] = @ \ {t}]
  /\ LET m == Message(e, t, "transfer")
         a == Tx(t).dest
     IN  \/ /\ AtHead(a, t)
            /\ PopAndUnlock({a})
            /\ LET after == Executed([store EXCEPT ![Tx(t).src] = m.state], Tx(t))
               IN  /\ store' = [store EXCEPT ![a] = after[a]]
                   /\ net' = net \cup {Writeback(t, after[Tx(t).src])}
            /\ done' = done \cup {t}
            /\ local' = [local EXCEPT ![e] = @ \ {m}]
            /\ work' = [work EXCEPT ![e] = @ \cup {a}]
         \/ /\ ~AtHead(a, t)
            /\ UNCHANGED <<queues, locks, store, net, done, local, work>>
  /\ UNCHANGED <<log, batchVars, phase, plan, outgoing, incoming, lossVars>>

\* Faulty variant: a state is sent again if its account is looked at again.
MustSendAlways(a, t) == ~IsLocal(t) /\ Tx(t).src = a

MustSend(a, t) == ~IsLocal(t) /\ Tx(t).src = a /\ t \notin outgoing

\* One turn of drain_pending_queues on an unlocked account: its first
\* transaction runs, or its state is sent, or the account is dropped from the
\* worklist. A transaction here as a destination waits for its transfer.
DrainHead(e, a) ==
  /\ todo[e] = {} /\ a \in work[e]
  /\ LET t     == Head(queues[a])
         accts == RequiredAccounts(Tx(t))
         runs  == queues[a] # << >> /\ IsLocal(t) /\ IsReadyToExecute(t, accts)
         sends == queues[a] # << >> /\ MustSend(a, t)
     IN  \/ /\ runs
            /\ PopAndUnlock(accts)
            /\ Execute(t)
            /\ work' = [work EXCEPT ![e] = @ \cup accts]
            /\ UNCHANGED <<outgoing, net>>
         \/ /\ sends
            /\ SendStateTransfer(t)
            /\ UNCHANGED <<queues, locks, store, done, work>>
         \/ /\ ~runs /\ ~sends
            /\ work' = [work EXCEPT ![e] = @ \ {a}]
            /\ UNCHANGED <<queues, locks, store, done, outgoing, net>>
  /\ UNCHANGED <<log, batchVars, phase, plan, incoming, local, todo, lossVars>>

\* Faulty variant: the accounts just unlocked are left for later.
FinishBatchAtOnce(e) ==
  /\ phase[e] = "transfer" /\ todo[e] = {}
  /\ next' = [next EXCEPT ![e] = IF @ > NumBatches THEN @ ELSE @ + 1]
  /\ phase' = [phase EXCEPT ![e] = "idle"]
  /\ UNCHANGED <<log, inbox, buffer, plan, queues, locks, store, outgoing, messageVars, todo,
                 work, done, lossVars>>

FinishBatch(e) ==
  /\ phase[e] = "transfer" /\ todo[e] = {} /\ work[e] = {}
  /\ next' = [next EXCEPT ![e] = IF @ > NumBatches THEN @ ELSE @ + 1]
  /\ phase' = [phase EXCEPT ![e] = "idle"]
  /\ UNCHANGED <<log, inbox, buffer, plan, queues, locks, store, outgoing, messageVars, todo,
                 work, done, lossVars>>

-----------------------------------------------------------------------------
(* The network: best effort (SimpleSender), and the StateHelper behind it. *)

Deliver(m) ==
  /\ m \in net
  /\ net' = net \ {m}
  /\ incoming' = [incoming EXCEPT ![m.to] = @ \cup {m}]
  /\ UNCHANGED <<log, batchVars, phase, plan, queues, locks, store, outgoing, local, todo,
                 work, done, lossVars>>

NotAllLost == Cardinality(lost) + Cardinality(gaps) < MaxLost

Lose(m) ==
  /\ m \in net /\ NotAllLost
  /\ net' = net \ {m}
  /\ lost' = lost \cup {m}
  /\ UNCHANGED <<log, batchVars, phase, plan, queues, locks, store, outgoing, incoming, local,
                 todo, work, done, gaps>>

\* An executor that misses its part of a batch, or a sequence marker, buffers
\* all the later ones.
LoseExecute(e, s) ==
  /\ s \in inbox[e] /\ NotAllLost
  /\ inbox' = [inbox EXCEPT ![e] = @ \ {s}]
  /\ gaps' = gaps \cup {<<e, s>>}
  /\ UNCHANGED <<log, next, buffer, phase, plan, queues, locks, store, outgoing, messageVars,
                 todo, work, done, lost>>

Step(e) ==
  \/ \E s \in inbox[e] : ProcessExecute(e, s)
  \/ ProcessBuffered(e)
  \/ HandleTransaction(e)
  \/ EndOfTransactions(e)
  \/ QuietBatch(e)
  \/ \E t \in todo[e] : TakeWriteback(e, t)
  \/ EndOfWritebacks(e)
  \/ \E t \in todo[e] : TakeTransfer(e, t)
  \/ \E a \in work[e] : DrainHead(e, a)
  \/ FinishBatch(e)

Next ==
  \/ \E e \in Executors : Step(e)
  \/ \E m \in net : Deliver(m)
  \/ \E m \in net : Lose(m)
  \/ \E e \in Executors : \E s \in inbox[e] : LoseExecute(e, s)

\* The executors are tasks the runtime keeps scheduling, and the network
\* delivers what it does not lose.
Fairness ==
  /\ \A e \in Executors : WF_vars(Step(e))
  /\ WF_vars(\E m \in net : Deliver(m))

Spec == Init /\ [][Next]_vars /\ Fairness

-----------------------------------------------------------------------------
InFlight == net \cup lost \cup UNION {incoming[e] \cup local[e] : e \in Executors}

Messages == [kind : {"transfer", "writeback"}, tx : 1 .. Len(log.txs),
             state : AccountState, to : Executors]

\* Type correctness of the executors' state; an idle task left nothing to do.
TypeOK ==
  /\ log \in Logs
  /\ \A e \in Executors :
       /\ inbox[e] \subseteq 1 .. NumBatches /\ buffer[e] \subseteq 1 .. NumBatches
       /\ next[e] \in 1 .. NumBatches + 1
       /\ phase[e] \in {"idle", "execute", "writeback", "transfer"}
       /\ todo[e] \subseteq 1 .. Len(log.txs) /\ work[e] \subseteq Accounts
       /\ phase[e] = "idle" => plan[e] = {} /\ todo[e] = {} /\ work[e] = {}
  /\ store \in [Accounts -> AccountState]
  /\ \A a \in Accounts : locks[a] = NoTx \/ locks[a] \in 1 .. Len(log.txs)
  /\ InFlight \subseteq Messages
  /\ outgoing \cup done \subseteq 1 .. Len(log.txs)

\* An account that is away is away for one transaction, the first in its queue,
\* and one message stands for it: no state is sent twice, none comes back to a
\* queue that moved on, and an account whose message is lost stays locked.
\* (send_state_transfer_for_tx, process_incoming_writebacks)
AwaitedOnce ==
  \A t \in 1 .. Len(log.txs) :
    LET messages == {m \in InFlight : m.tx = t}
    IN  IF t \in outgoing
        THEN /\ Cardinality(messages) = 1
             /\ AtHead(Tx(t).src, t)
             /\ \A m \in messages : m.kind = "writeback" <=> t \in done
        ELSE messages = {}

\* The state of an account: what a writeback brings back, or its owner's copy.
CurrentState(a) ==
  LET back == {m \in InFlight : m.kind = "writeback" /\ Tx(m.tx).src = a}
  IN  IF back = {} THEN store[a] ELSE (CHOOSE m \in back : TRUE).state

\* The executors implement serial execution in the committed order: a payment
\* between two of them takes effect at once, at the destination, on the state
\* the earlier transactions left both accounts in.
Bank == INSTANCE SerialBank WITH
          Initial <- InitialBank,
          txs  <- log.txs,
          done <- done,
          bank <- [a \in Accounts |-> CurrentState(a)]

SerialExecution == Bank!Init /\ [][Bank!Next]_(Bank!bankVars)

\* Every committed transaction is executed if the network loses nothing and the
\* log has no payment between two accounts of one executor (ReadyAtHeads is why).
HasLocalPayment == \E t \in 1 .. Len(log.txs) : IsLocal(t) /\ Tx(t).kind = "pay"

EveryTransactionExecuted ==
  <>(HasLocalPayment \/ lost # {} \/ gaps # {} \/ done = 1 .. Len(log.txs))

\* What is_ready_to_execute documents: "Not currently locked by another executing
\* transaction", "Not blocked by another pending transaction in the queue".
\* Between batches nothing executes, so a transaction first in all its queues is
\* ready. It is not: lock_and_enqueue_transaction gave its lock to a later one.
ReadyAtHeads ==
  \A e \in Executors : phase[e] = "idle" =>
    \A t \in 1 .. Len(log.txs) :
      LET accts == RequiredAccounts(Tx(t))
      IN  IsLocal(t) /\ Source(t) = e /\ (\A a \in accts : AtHead(a, t))
            => IsReadyToExecute(t, accts)
=============================================================================
