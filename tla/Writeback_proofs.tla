-------------------------- MODULE Writeback_proofs --------------------------
(***************************************************************************)
(* The write-back executors implement serial execution, for every log,     *)
(* partition of the accounts, number of executors and of losses.  The      *)
(* invariant Inv says where every transaction is: still ahead of an        *)
(* executor, in the queues of its accounts in the committed order, or      *)
(* done; and that the message of an account that is away has its state.    *)
(***************************************************************************)
EXTENDS Writeback, FiniteSetTheorems, TLAPS

-----------------------------------------------------------------------------
(* The bank *)

\* A transaction changes its own accounts only, by their states only.
LEMMA ExecutedTyped ==
  ASSUME NEW bank \in [Accounts -> AccountState], NEW tx, IsTransaction(tx, Accounts)
  PROVE  Executed(bank, tx) \in [Accounts -> AccountState]
<1>1. tx.kind \in Kinds /\ tx.src \in Accounts /\ tx.dest \in Accounts /\ tx.amount \in Int
  BY DEF Transaction, IsTransaction
<1>2. ASSUME NEW x \in AccountState, NEW n \in Int
      PROVE  /\ Deposit(x, n) \in AccountState /\ TransactSavings(x, n) \in AccountState
             /\ WriteCheck(x, n) \in AccountState /\ Debit(x, n) \in AccountState
             /\ Credit(x, n) \in AccountState
  BY DEF AccountState, Deposit, TransactSavings, WriteCheck, Debit, Credit
<1>3. CASE tx.kind = "balance"
  BY <1>3 DEF Executed
<1>4. CASE tx.kind = "deposit"
  BY <1>1, <1>2, <1>4 DEF Executed
<1>5. CASE tx.kind = "savings"
  BY <1>1, <1>2, <1>5 DEF Executed
<1>6. CASE tx.kind = "check"
  BY <1>1, <1>2, <1>6 DEF Executed
<1>7. CASE tx.kind = "pay"
  <2>1. tx.src # tx.dest
    BY <1>7 DEF IsTransaction
  <2>2. [bank EXCEPT ![tx.src] = Debit(@, tx.amount), ![tx.dest] = Credit(@, tx.amount)]
          = [a \in Accounts |-> IF a = tx.src THEN Debit(bank[a], tx.amount)
                                ELSE IF a = tx.dest THEN Credit(bank[a], tx.amount) ELSE bank[a]]
    BY <1>1, <2>1
  <2>3. [bank EXCEPT ![tx.src] = Debit(@, tx.amount), ![tx.dest] = Credit(@, tx.amount)]
          \in [Accounts -> AccountState]
    BY <1>1, <1>2, <2>2
  <2> QED
    BY <1>7, <2>3 DEF Executed
<1> QED
  BY <1>1, <1>3, <1>4, <1>5, <1>6, <1>7 DEF Kinds

LEMMA ExecutedOthers ==
  ASSUME NEW bank \in [Accounts -> AccountState], NEW tx, IsTransaction(tx, Accounts),
         NEW a \in Accounts, a \notin RequiredAccounts(tx)
  PROVE  Executed(bank, tx)[a] = bank[a]
<1>1. tx.kind \in Kinds /\ a # tx.src /\ (tx.kind = "pay" => a # tx.dest)
  BY DEF Transaction, IsTransaction, RequiredAccounts
<1>2. CASE tx.kind = "pay"
  BY <1>1, <1>2 DEF Executed
<1>3. CASE tx.kind # "pay"
  BY <1>1, <1>3 DEF Executed, Kinds
<1> QED
  BY <1>2, <1>3

LEMMA ExecutedAgrees ==
  ASSUME NEW bank \in [Accounts -> AccountState], NEW other \in [Accounts -> AccountState],
         NEW tx, IsTransaction(tx, Accounts),
         \A a \in RequiredAccounts(tx) : bank[a] = other[a],
         NEW a \in RequiredAccounts(tx)
  PROVE  Executed(bank, tx)[a] = Executed(other, tx)[a]
<1>1. /\ tx.kind \in Kinds /\ tx.src \in Accounts /\ tx.dest \in Accounts
      /\ tx.kind = "pay" <=> tx.src # tx.dest
  BY DEF Transaction, IsTransaction
<1>2. CASE tx.kind = "pay"
  BY <1>1, <1>2 DEF Executed, RequiredAccounts
<1>3. CASE tx.kind # "pay"
  BY <1>1, <1>3 DEF Executed, Kinds, RequiredAccounts
<1> QED
  BY <1>2, <1>3

-----------------------------------------------------------------------------
Positions == 1 .. Len(log.txs)
On(t) == RequiredAccounts(Tx(t))
Parties(t) == {Source(t), Dest(t)}

\* The position of the last transaction of a batch, or of the log after the last
\* batch.
End(s) == IF s <= NumBatches THEN log.ends[s] ELSE Len(log.txs)

\* The transactions of an executor that it has not handled yet.
Ahead(e) ==
  IF phase[e] = "idle"
  THEN {t \in Positions : t > Start(next[e]) /\ e \in Parties(t)}
  ELSE plan[e] \cup {t \in Positions : t > End(next[e]) /\ e \in Parties(t)}

\* They are the last ones, and the plan has the current batch's.
AheadLast(e) ==
  \A t \in Ahead(e) : \A u \in Positions : t < u /\ e \in Parties(u) => u \in Ahead(e)

Planned(e) ==
  /\ phase[e] = "execute" => next[e] <= NumBatches /\ plan[e] \subseteq Routed(e, next[e])
  /\ phase[e] # "execute" => plan[e] = {}

\* What is looked at has a message here.
Looked(e) ==
  /\ todo[e] # {} => phase[e] \in {"writeback", "transfer"}
  /\ \A t \in todo[e] : \E m \in local[e] : m.tx = t /\ m.kind = phase[e]
  /\ phase[e] = "idle" => work[e] = {}

PlanInv == \A e \in Executors : AheadLast(e) /\ Planned(e) /\ Looked(e)

\* The queue of an account has, in order, the transactions on it that its owner
\* has handled and that have not taken effect, behind one that awaits its
\* writeback.
InLine(a) ==
  /\ \A i \in DOMAIN queues[a] :
       /\ a \in On(queues[a][i])
       /\ queues[a][i] \notin Ahead(Partition[a])
       /\ queues[a][i] \in done => queues[a][i] \in outgoing /\ Tx(queues[a][i]).src = a
  /\ \A i, j \in DOMAIN queues[a] : i < j => queues[a][i] < queues[a][j]

Waits(a, t) == \E i \in DOMAIN queues[a] : queues[a][i] = t

Accounted(a) ==
  \A t \in Positions : a \in On(t) =>
    IF t \in Ahead(Partition[a]) THEN t \notin done ELSE t \in done \/ Waits(a, t)

QueueInv == \A a \in Accounts : InLine(a) /\ Accounted(a)

\* A message is in one place, on the way to its executor.
PlaceInv ==
  /\ net \cap lost = {}
  /\ \A e \in Executors :
       /\ \A m \in incoming[e] \cup local[e] : m.to = e /\ m \notin net \cup lost
       /\ incoming[e] \cap local[e] = {}

\* The state of an account that is away: its owner's copy is as it was sent, and
\* one message stands for it.
StandsFor(m, t) ==
  /\ m \in InFlight /\ m.tx = t
  /\ \A n \in InFlight : n.tx = t => n = m
  /\ m = IF t \in done THEN Writeback(t, m.state) ELSE Transfer(t)

AwayInv ==
  /\ \A t \in outgoing : ~IsLocal(t) /\ AtHead(Tx(t).src, t) /\ \E m \in InFlight : StandsFor(m, t)
  /\ \A m \in InFlight : m.tx \in outgoing

\* The shape of the executors' state.
Shape ==
  /\ log \in Logs
  /\ inbox \in [Executors -> SUBSET (1 .. NumBatches)]
  /\ buffer \in [Executors -> SUBSET (1 .. NumBatches)]
  /\ next \in [Executors -> 1 .. NumBatches + 1]
  /\ phase \in [Executors -> {"idle", "execute", "writeback", "transfer"}]
  /\ plan \in [Executors -> SUBSET Positions]
  /\ todo \in [Executors -> SUBSET Positions]
  /\ work \in [Executors -> SUBSET Accounts]
  /\ queues \in [Accounts -> Seq(Positions)]
  /\ locks \in [Accounts -> Positions \cup {NoTx}]
  /\ store \in [Accounts -> AccountState]
  /\ outgoing \subseteq Positions /\ done \subseteq Positions
  /\ net \subseteq Messages /\ lost \subseteq Messages
  /\ incoming \in [Executors -> SUBSET Messages]
  /\ local \in [Executors -> SUBSET Messages]

Inv == Shape /\ PlanInv /\ QueueInv /\ PlaceInv /\ AwayInv

-----------------------------------------------------------------------------
(* The log *)

LEMMA LogFacts ==
  ASSUME log \in Logs
  PROVE  /\ NumBatches \in Nat /\ 1 <= NumBatches /\ Len(log.txs) \in Nat
         /\ \A s \in 1 .. NumBatches :
              /\ log.ends[s] \in 1 .. Len(log.txs)
              /\ Start(s) \in Nat /\ Start(s) < log.ends[s]
              /\ End(s) = log.ends[s] /\ Start(s + 1) = End(s)
         /\ Start(NumBatches + 1) = Len(log.txs) /\ End(NumBatches + 1) = Len(log.txs)
         /\ \A s \in 1 .. NumBatches + 1 : Start(s) \in Nat /\ End(s) \in Nat /\ Start(s) <= End(s)
<1>1. PICK n, k : n = Len(log.txs) /\ k = NumBatches
  OBVIOUS
<1>2. /\ log.txs \in Seq(Transaction(Accounts)) /\ log.ends \in Seq(1 .. n) /\ log.ends # << >>
      /\ \A s \in 1 .. k : log.ends[s] > (IF s = 1 THEN 0 ELSE log.ends[s - 1])
      /\ log.ends[k] = n
  BY <1>1, WritebackAssumption DEF IsLog, NumBatches
<1>3. n \in Nat /\ k \in Nat
  BY <1>1, <1>2 DEF NumBatches
<1>4. k # 0
  BY <1>1, <1>2 DEF NumBatches
<1>5. \A s \in 1 .. k : log.ends[s] \in 1 .. n
  BY <1>1, <1>2 DEF NumBatches
<1>6. ASSUME NEW s \in 1 .. k
      PROVE  /\ Start(s) \in Nat /\ Start(s) < log.ends[s]
             /\ End(s) = log.ends[s] /\ Start(s + 1) = End(s)
  <2>1. s = 1 \/ s - 1 \in 1 .. k
    BY <1>3
  <2>2. End(s) = log.ends[s] /\ Start(s + 1) = log.ends[s]
    BY <1>1, <1>3 DEF End, Start
  <2>3. Start(s) \in Nat
    BY <1>3, <1>5, <2>1 DEF Start
  <2>4. Start(s) < log.ends[s]
    BY <1>2, <1>5, <2>3 DEF Start
  <2> QED
    BY <2>2, <2>3, <2>4
<1>7. Start(k + 1) = n /\ End(k + 1) = n
  <2>1. k + 1 # 1 /\ (k + 1) - 1 = k /\ ~ (k + 1 <= k)
    BY <1>3, <1>4
  <2> QED
    BY <1>1, <1>2, <2>1 DEF Start, End
<1>8. ASSUME NEW s \in 1 .. k + 1 PROVE Start(s) \in Nat /\ End(s) \in Nat /\ Start(s) <= End(s)
  <2>1. s \in 1 .. k \/ s = k + 1
    BY <1>3
  <2> QED
    BY <1>3, <1>5, <1>6, <1>7, <2>1
<1> QED
  BY <1>1, <1>3, <1>4, <1>5, <1>6, <1>7, <1>8

LEMMA TxFacts ==
  ASSUME log \in Logs, NEW t \in Positions
  PROVE  /\ Tx(t) \in Transaction(Accounts) /\ IsTransaction(Tx(t), Accounts)
         /\ Tx(t).src \in Accounts /\ Tx(t).dest \in Accounts
         /\ On(t) = {Tx(t).src, Tx(t).dest} /\ On(t) \subseteq Accounts
         /\ \A a \in On(t) : Partition[a] \in Parties(t)
         /\ \A a \in Accounts : Partition[a] \in Executors
         /\ Source(t) \in Executors /\ Dest(t) \in Executors
         /\ IsLocal(t) => \A a \in On(t) : Partition[a] = Source(t)
         /\ ~IsLocal(t) => Tx(t).src # Tx(t).dest
         /\ t \in Nat
<1>1. IsLog(log)
  BY WritebackAssumption
<1>2. IsTransaction(Tx(t), Accounts)
  BY <1>1 DEF IsLog, Positions, Tx
<1>3. Tx(t) \in Transaction(Accounts) /\ (Tx(t).kind = "pay" <=> Tx(t).src # Tx(t).dest)
  BY <1>2 DEF IsTransaction
<1>4. Tx(t).src \in Accounts /\ Tx(t).dest \in Accounts
  BY <1>3 DEF Transaction
<1>5. On(t) = {Tx(t).src, Tx(t).dest}
  BY <1>3 DEF On, RequiredAccounts
<1>6. \A a \in Accounts : Partition[a] \in Executors
  BY WritebackAssumption
<1>7. t \in Nat
  BY LogFacts DEF Positions
<1> QED
  BY <1>2, <1>3, <1>4, <1>5, <1>6, <1>7 DEF Parties, IsLocal, Source, Dest

-----------------------------------------------------------------------------
(* What an executor has still to handle *)

LEMMA AheadSame ==
  ASSUME NEW f, log' = log, phase'[f] = phase[f], next'[f] = next[f], plan'[f] = plan[f]
  PROVE  Ahead(f)' = Ahead(f)
  BY DEF Ahead, Positions, Parties, Source, Dest, Tx, Start, End, NumBatches

LEMMA PlannedSame ==
  ASSUME NEW f, Planned(f), log' = log, phase'[f] = phase[f], next'[f] = next[f], plan'[f] = plan[f]
  PROVE  Planned(f)'
  BY DEF Planned, Routed, Parties, Source, Dest, Tx, Start, NumBatches

LEMMA AheadLastSame ==
  ASSUME NEW f, AheadLast(f), log' = log, Ahead(f)' = Ahead(f)
  PROVE  AheadLast(f)'
<1>1. Positions' = Positions /\ \A u : Parties(u)' = Parties(u)
  BY DEF Positions, Parties, Source, Dest, Tx
<1>2. PICK A : A = Ahead(f)
  OBVIOUS
<1>3. \A t \in A : \A u \in Positions : t < u /\ f \in Parties(u) => u \in A
  BY <1>2 DEF AheadLast
<1>4. \A t \in A : \A u \in Positions' : t < u /\ f \in Parties(u)' => u \in A
  BY <1>1, <1>3
<1> QED
  BY <1>2, <1>4 DEF AheadLast

\* The plan of the next batch is what it holds of the transactions ahead.
LEMMA AheadStart ==
  ASSUME Shape, NEW e \in Executors, phase[e] = "idle", next[e] \in 1 .. NumBatches,
         log' = log, next' = next, StartBatch(e, next[e])
  PROVE  /\ Ahead(e)' = Ahead(e) /\ Planned(e)'
         /\ plan' \in [Executors -> SUBSET Positions]
         /\ phase' \in [Executors -> {"idle", "execute", "writeback", "transfer"}]
         /\ \A f \in Executors \ {e} : phase'[f] = phase[f] /\ plan'[f] = plan[f]
<1>1. PICK s, start, end, len : /\ s = next[e] /\ start = Start(s) /\ end = End(s)
                                /\ len = Len(log.txs)
  OBVIOUS
<1>2. /\ start \in Nat /\ start < end /\ end = log.ends[s] /\ end \in 1 .. len /\ len \in Nat
      /\ s <= NumBatches /\ s \in Nat
  BY <1>1, LogFacts DEF Shape
<1>3. Routed(e, s) = {t \in start + 1 .. end : e \in Parties(t)}
  BY <1>1, <1>2 DEF Routed, Parties
<1>4. Routed(e, s) \subseteq Positions
  BY <1>1, <1>2, <1>3 DEF Positions
<1>5. /\ phase' = [phase EXCEPT ![e] = "execute"] /\ plan' = [plan EXCEPT ![e] = Routed(e, s)]
  BY <1>1 DEF StartBatch
<1>6. phase'[e] = "execute" /\ plan'[e] = Routed(e, s) /\ next'[e] = s
  BY <1>1, <1>5 DEF Shape
<1>7. /\ plan' \in [Executors -> SUBSET Positions]
      /\ phase' \in [Executors -> {"idle", "execute", "writeback", "transfer"}]
      /\ \A f \in Executors \ {e} : phase'[f] = phase[f] /\ plan'[f] = plan[f]
  BY <1>4, <1>5 DEF Shape
<1>8. Routed(e, s)' = Routed(e, s) /\ NumBatches' = NumBatches
  BY DEF Routed, Parties, Source, Dest, Tx, Start, NumBatches
<1>9. Planned(e)'
  <2>1. Routed(e, next[e])' = Routed(e, s)
    BY <1>1, <1>6 DEF Routed, Parties, Source, Dest, Tx, Start
  <2> QED
    BY <1>2, <1>6, <1>8, <2>1 DEF Planned
<1>10. Ahead(e) = {t \in Positions : t > start /\ e \in Parties(t)}
  BY <1>1 DEF Ahead
<1>11. Ahead(e)' = Routed(e, s) \cup {t \in Positions : t > end /\ e \in Parties(t)}
  BY <1>1, <1>2, <1>6 DEF Ahead, Positions, Parties, Source, Dest, Tx, End, NumBatches
<1>12. \A t \in Positions : t > start <=> t \in start + 1 .. end \/ t > end
  BY <1>1, <1>2 DEF Positions
<1>13. \A t : t \in start + 1 .. end => t \in Positions
  BY <1>1, <1>2 DEF Positions
<1>14. Ahead(e)' = Ahead(e)
  BY <1>3, <1>10, <1>11, <1>12, <1>13
<1> QED
  BY <1>7, <1>9, <1>14

\* What does not change the queues, the stores or the messages.
Stays ==
  /\ UNCHANGED <<log, queues, locks, store, outgoing, done>>
  /\ InFlight' = InFlight
  /\ \A f \in Executors : Ahead(f)' = Ahead(f)

LEMMA Staying ==
  ASSUME log \in Logs, QueueInv, AwayInv, Stays
  PROVE  QueueInv' /\ AwayInv'
<1>1. /\ UNCHANGED <<log, queues, locks, store, outgoing, done>>
      /\ InFlight' = InFlight
      /\ \A a \in Accounts : Ahead(Partition[a])' = Ahead(Partition[a])
  BY WritebackAssumption DEF Stays
<1>2. \A t : On(t)' = On(t)
  BY <1>1 DEF On, Tx
<1>3. ASSUME NEW a \in Accounts PROVE InLine(a)'
  BY <1>1, <1>2, <1>3 DEF QueueInv, InLine, Tx
<1>4. ASSUME NEW a \in Accounts PROVE Accounted(a)'
  BY <1>1, <1>2 DEF QueueInv, Accounted, Positions, Waits
<1>5. \A m, t : StandsFor(m, t) => StandsFor(m, t)'
  BY <1>1 DEF StandsFor, Writeback, Transfer, Source, Dest, Tx
<1>6. AwayInv'
  BY <1>1, <1>5 DEF AwayInv, IsLocal, Source, Dest, Tx, AtHead
<1> QED
  BY <1>3, <1>4, <1>6 DEF QueueInv

-----------------------------------------------------------------------------
(* The steps of the batches *)

Kept == Shape' /\ PlanInv' /\ PlaceInv' /\ Stays

LEMMA KeepsReceiving ==
  ASSUME Inv, NEW e \in Executors,
         (\E s \in inbox[e] : ProcessExecute(e, s)) \/ ProcessBuffered(e)
  PROVE  Kept
<1>1. /\ phase[e] = "idle"
      /\ \/ UNCHANGED <<phase, plan>>
         \/ next[e] \in 1 .. NumBatches /\ StartBatch(e, next[e])
      /\ UNCHANGED <<log, next, queues, locks, store, outgoing, net, incoming, local, todo, work,
                     done, lost>>
      /\ inbox' \in [Executors -> SUBSET (1 .. NumBatches)]
      /\ buffer' \in [Executors -> SUBSET (1 .. NumBatches)]
  <2>0. Shape
    BY DEF Inv
  <2>1. ASSUME NEW s \in inbox[e], ProcessExecute(e, s)
        PROVE  /\ phase[e] = "idle"
               /\ \/ UNCHANGED <<phase, plan>>
                  \/ next[e] \in 1 .. NumBatches /\ StartBatch(e, next[e])
               /\ UNCHANGED <<log, next, queues, locks, store, outgoing, net, incoming, local, todo,
                              work, done, lost>>
               /\ inbox' \in [Executors -> SUBSET (1 .. NumBatches)]
               /\ buffer' \in [Executors -> SUBSET (1 .. NumBatches)]
    <3>1. /\ phase[e] = "idle" /\ inbox' = [inbox EXCEPT ![e] = @ \ {s}]
          /\ \/ s = next[e] /\ StartBatch(e, s) /\ buffer' = buffer
             \/ buffer' = [buffer EXCEPT ![e] = @ \cup {s}] /\ UNCHANGED <<phase, plan>>
          /\ UNCHANGED <<log, next, queues, locks, store, outgoing, net, incoming, local, todo,
                         work, done, lost>>
      BY <2>1 DEF ProcessExecute, messageVars, lossVars
    <3>2. s \in 1 .. NumBatches
      BY <2>0 DEF Shape
    <3>3. inbox' \in [Executors -> SUBSET (1 .. NumBatches)]
      BY <2>0, <3>1 DEF Shape
    <3>4. buffer' \in [Executors -> SUBSET (1 .. NumBatches)]
      <4>1. buffer \in [Executors -> SUBSET (1 .. NumBatches)]
        BY <2>0 DEF Shape
      <4>2. [buffer EXCEPT ![e] = @ \cup {s}] \in [Executors -> SUBSET (1 .. NumBatches)]
        BY <3>2, <4>1
      <4>3. buffer' \in {buffer, [buffer EXCEPT ![e] = @ \cup {s}]}
        BY <3>1
      <4> QED
        BY <4>1, <4>2, <4>3
    <3> QED
      BY <3>1, <3>2, <3>3, <3>4
  <2>2. CASE ProcessBuffered(e)
    <3>1. /\ phase[e] = "idle" /\ buffer' = [buffer EXCEPT ![e] = @ \ {next[e]}]
          /\ next[e] \in buffer[e] /\ StartBatch(e, next[e])
          /\ UNCHANGED <<log, inbox, next, queues, locks, store, outgoing, net, incoming, local,
                         todo, work, done, lost>>
      BY <2>2 DEF ProcessBuffered, messageVars, lossVars
    <3> QED
      BY <2>0, <3>1 DEF Shape
  <2> QED
    BY <2>1, <2>2
<1>2. /\ plan' \in [Executors -> SUBSET Positions]
      /\ phase' \in [Executors -> {"idle", "execute", "writeback", "transfer"}]
      /\ \A f \in Executors \ {e} : phase'[f] = phase[f] /\ plan'[f] = plan[f]
  BY <1>1, AheadStart DEF Inv, Shape
<1>3. \A f \in Executors : Ahead(f)' = Ahead(f) /\ Planned(f)'
  <2>1. ASSUME NEW f \in Executors, f # e \/ UNCHANGED <<phase, plan>>
        PROVE  Ahead(f)' = Ahead(f) /\ Planned(f)'
    BY <1>1, <1>2, <2>1, AheadSame, PlannedSame DEF Inv, PlanInv
  <2> QED
    BY <1>1, <2>1, AheadStart DEF Inv
<1>4. Shape'
  BY <1>1, <1>2 DEF Inv, Shape, Positions, Messages, NumBatches
<1>5. \A f \in Executors : Looked(f)'
  <2> SUFFICES ASSUME NEW f \in Executors PROVE Looked(f)'
    OBVIOUS
  <2>1. CASE f = e
    BY <1>1, <2>1 DEF Inv, PlanInv, Looked
  <2>2. CASE f # e
    BY <1>1, <1>2, <2>2 DEF Inv, PlanInv, Looked
  <2> QED
    BY <2>1, <2>2
<1>6. PlanInv'
  BY <1>1, <1>3, <1>5, AheadLastSame DEF Inv, PlanInv
<1>7. PlaceInv' /\ InFlight' = InFlight
  BY <1>1 DEF Inv, PlaceInv, InFlight
<1> QED
  BY <1>1, <1>3, <1>4, <1>6, <1>7 DEF Kept, Stays

\* A shared buffer is emptied, and its messages are to be looked at.
LEMMA KeepsDraining ==
  ASSUME Inv, NEW e \in Executors, NEW kind \in {"writeback", "transfer"}, Drain(e, kind),
         plan[e] = {}, phase[e] = "idle" => next[e] = NumBatches + 1
  PROVE  Kept
<1>1. /\ phase' = [phase EXCEPT ![e] = kind]
      /\ local' = [local EXCEPT ![e] = @ \cup Arrived(e, kind)]
      /\ incoming' = [incoming EXCEPT ![e] = @ \ Arrived(e, kind)]
      /\ todo' = [todo EXCEPT ![e] = {m.tx : m \in {n \in local'[e] : n.kind = kind}}]
      /\ UNCHANGED <<log, inbox, next, buffer, plan, queues, locks, store, outgoing, net, work,
                     done, lost, gaps>>
  BY DEF Drain, batchVars, lossVars
<1>2. /\ Shape /\ PlanInv /\ PlaceInv /\ Arrived(e, kind) \subseteq incoming[e]
  BY DEF Inv, Arrived
<1>3. /\ local' \in [Executors -> SUBSET Messages]
      /\ incoming' \in [Executors -> SUBSET Messages]
      /\ phase' \in [Executors -> {"idle", "execute", "writeback", "transfer"}]
      /\ phase'[e] = kind /\ local'[e] = local[e] \cup Arrived(e, kind)
      /\ incoming'[e] = incoming[e] \ Arrived(e, kind)
      /\ \A f \in Executors \ {e} : /\ phase'[f] = phase[f] /\ local'[f] = local[f]
                                    /\ incoming'[f] = incoming[f]
  BY <1>1, <1>2 DEF Shape
<1>4. \A m \in Messages : m.tx \in Positions
  BY DEF Messages, Positions
<1>5. todo' \in [Executors -> SUBSET Positions]
  BY <1>1, <1>2, <1>3, <1>4 DEF Shape
<1>6. Shape'
  BY <1>1, <1>2, <1>3, <1>5 DEF Shape, Positions, Messages, NumBatches
<1>7. Ahead(e)' = Ahead(e)
  <2>1. CASE phase[e] # "idle"
    BY <1>1, <1>2, <1>3, <2>1 DEF Shape, Ahead, Positions, Parties, Source, Dest, Tx, Start, End, NumBatches
  <2>2. CASE phase[e] = "idle"
    <3>1. Start(next[e]) = End(next[e])
      BY <1>2, <2>2, LogFacts DEF Shape
    <3> QED
      BY <1>1, <1>3, <2>2, <3>1 DEF Ahead, Positions, Parties, Source, Dest, Tx, Start, End, NumBatches
  <2> QED
    BY <2>1, <2>2
<1>8. \A f \in Executors : Ahead(f)' = Ahead(f)
  <2>1. ASSUME NEW f \in Executors, f # e PROVE Ahead(f)' = Ahead(f)
    BY <1>1, <1>3, <2>1, AheadSame
  <2> QED
    BY <1>7, <2>1
<1>9. \A f \in Executors : Planned(f)'
  <2>1. ASSUME NEW f \in Executors, f # e PROVE Planned(f)'
    BY <1>1, <1>2, <1>3, <2>1, PlannedSame DEF PlanInv
  <2>2. Planned(e)'
    BY <1>1, <1>3 DEF Planned
  <2> QED
    BY <2>1, <2>2
<1>10. \A f \in Executors : Looked(f)'
  <2>1. ASSUME NEW f \in Executors, f # e PROVE Looked(f)'
    BY <1>1, <1>2, <1>3, <2>1 DEF PlanInv, Looked, Shape
  <2>2. Looked(e)'
    <3>1. todo'[e] = {m.tx : m \in {n \in local'[e] : n.kind = kind}}
      BY <1>1, <1>2 DEF Shape
    <3>2. \A t \in todo'[e] : \E m \in local'[e] : m.tx = t /\ m.kind = phase'[e]
      BY <1>3, <3>1
    <3> QED
      BY <1>3, <3>2 DEF Looked
  <2> QED
    BY <2>1, <2>2
<1>11. PlanInv'
  BY <1>1, <1>2, <1>8, <1>9, <1>10, AheadLastSame DEF PlanInv
<1>12. PlaceInv'
  <2> SUFFICES ASSUME NEW f \in Executors
               PROVE  /\ \A m \in incoming'[f] \cup local'[f] : m.to = f /\ m \notin net \cup lost
                      /\ incoming'[f] \cap local'[f] = {}
    BY <1>1, <1>2 DEF PlaceInv
  <2>1. CASE f = e
    BY <1>2, <1>3, <2>1 DEF PlaceInv
  <2>2. CASE f # e
    BY <1>2, <1>3, <2>2 DEF PlaceInv
  <2> QED
    BY <2>1, <2>2
<1>13. InFlight' = InFlight
  <2>1. \A f \in Executors : incoming'[f] \cup local'[f] = incoming[f] \cup local[f]
    BY <1>2, <1>3
  <2> QED
    BY <1>1, <2>1 DEF InFlight
<1> QED
  BY <1>1, <1>6, <1>8, <1>11, <1>12, <1>13 DEF Kept, Stays

LEMMA KeepsTurning ==
  ASSUME Inv, NEW e \in Executors,
         EndOfTransactions(e) \/ QuietBatch(e) \/ EndOfWritebacks(e)
  PROVE  Kept
<1>1. NumBatches \in Nat /\ next[e] \in 1 .. NumBatches + 1
  BY LogFacts DEF Inv, Shape
<1>2. CASE EndOfTransactions(e)
  BY <1>2, KeepsDraining DEF EndOfTransactions
<1>3. CASE QuietBatch(e)
  <2>1. plan[e] = {} /\ next[e] = NumBatches + 1
    BY <1>1, <1>3 DEF QuietBatch, Inv, PlanInv, Planned
  <2> QED
    BY <1>3, <2>1, KeepsDraining DEF QuietBatch
<1>4. CASE EndOfWritebacks(e)
  <2>1. plan[e] = {}
    BY <1>4 DEF EndOfWritebacks, Inv, PlanInv, Planned
  <2> QED
    BY <1>4, <2>1, KeepsDraining DEF EndOfWritebacks
<1> QED
  BY <1>2, <1>3, <1>4

LEMMA KeepsFinishing ==
  ASSUME Inv, NEW e \in Executors, FinishBatch(e)
  PROVE  Kept
<1>1. /\ phase[e] = "transfer" /\ todo[e] = {} /\ work[e] = {}
      /\ next' = [next EXCEPT ![e] = IF @ > NumBatches THEN @ ELSE @ + 1]
      /\ phase' = [phase EXCEPT ![e] = "idle"]
      /\ UNCHANGED <<log, inbox, buffer, plan, queues, locks, store, outgoing, net, incoming, local,
                     todo, work, done, lost, gaps>>
  BY DEF FinishBatch, messageVars, lossVars
<1>2. Shape /\ PlanInv /\ PlaceInv
  BY DEF Inv
<1>3. NumBatches \in Nat /\ next[e] \in 1 .. NumBatches + 1 /\ plan[e] = {}
  BY <1>1, <1>2, LogFacts DEF Shape, PlanInv, Planned
<1>4. PICK n : n = IF next[e] > NumBatches THEN next[e] ELSE next[e] + 1
  OBVIOUS
<1>5. n \in 1 .. NumBatches + 1 /\ End(next[e]) = Start(n)
  <2>1. CASE next[e] > NumBatches
    BY <1>2, <1>3, <1>4, <2>1, LogFacts DEF Shape
  <2>2. CASE ~ (next[e] > NumBatches)
    <3>1. next[e] \in 1 .. NumBatches
      BY <1>3, <2>2
    <3> QED
      BY <1>2, <1>3, <1>4, <2>2, <3>1, LogFacts DEF Shape
  <2> QED
    BY <2>1, <2>2
<1>6. /\ next' \in [Executors -> 1 .. NumBatches + 1]
      /\ phase' \in [Executors -> {"idle", "execute", "writeback", "transfer"}]
      /\ next'[e] = n /\ phase'[e] = "idle"
      /\ \A f \in Executors \ {e} : next'[f] = next[f] /\ phase'[f] = phase[f]
  BY <1>1, <1>2, <1>4, <1>5 DEF Shape
<1>7. Shape'
  BY <1>1, <1>2, <1>6 DEF Shape, Positions, Messages, NumBatches
<1>8. Ahead(e)' = Ahead(e)
  <2>1. Ahead(e) = {t \in Positions : t > End(next[e]) /\ e \in Parties(t)}
    BY <1>1, <1>3 DEF Ahead
  <2>2. Ahead(e)' = {t \in Positions : t > Start(n) /\ e \in Parties(t)}
    BY <1>1, <1>6 DEF Ahead, Positions, Parties, Source, Dest, Tx, Start
  <2> QED
    BY <1>5, <2>1, <2>2
<1>9. \A f \in Executors : Ahead(f)' = Ahead(f) /\ Planned(f)'
  <2>1. ASSUME NEW f \in Executors, f # e PROVE Ahead(f)' = Ahead(f) /\ Planned(f)'
    BY <1>1, <1>2, <1>6, <2>1, AheadSame, PlannedSame DEF PlanInv
  <2>2. Planned(e)'
    BY <1>1, <1>3, <1>6 DEF Planned
  <2> QED
    BY <1>8, <2>1, <2>2
<1>10. \A f \in Executors : Looked(f)'
  BY <1>1, <1>2, <1>6 DEF PlanInv, Looked
<1>11. PlanInv'
  BY <1>1, <1>2, <1>9, <1>10, AheadLastSame DEF PlanInv
<1>12. PlaceInv' /\ InFlight' = InFlight
  BY <1>1, <1>2 DEF PlaceInv, InFlight
<1> QED
  BY <1>1, <1>7, <1>9, <1>11, <1>12 DEF Kept, Stays

\* The network and the StateHelper.
LEMMA KeepsNetwork ==
  ASSUME Inv,
         \/ \E m \in net : Deliver(m) \/ Lose(m)
         \/ \E e \in Executors : \E s \in inbox[e] : LoseExecute(e, s)
  PROVE  Kept
<1>1. /\ UNCHANGED <<log, next, buffer, phase, plan, queues, locks, store, outgoing, local, todo, work,
                     done>>
      /\ inbox' \in [Executors -> SUBSET (1 .. NumBatches)]
  BY DEF Deliver, Lose, LoseExecute, Inv, Shape, batchVars, messageVars
<1>2. Shape /\ PlanInv /\ PlaceInv
  BY DEF Inv
<1>3. /\ net' \subseteq Messages /\ lost' \subseteq Messages
      /\ incoming' \in [Executors -> SUBSET Messages]
      /\ PlaceInv' /\ InFlight' = InFlight
  <2>1. ASSUME NEW m \in net, Deliver(m)
        PROVE  /\ net' \subseteq Messages /\ lost' \subseteq Messages
               /\ incoming' \in [Executors -> SUBSET Messages]
               /\ PlaceInv' /\ InFlight' = InFlight
    <3>1. /\ net' = net \ {m} /\ incoming' = [incoming EXCEPT ![m.to] = @ \cup {m}]
          /\ local' = local /\ lost' = lost
      BY <2>1 DEF Deliver, lossVars
    <3>2. m \in Messages /\ m.to \in Executors
      BY <1>2 DEF Shape, Messages
    <3>3. /\ incoming' \in [Executors -> SUBSET Messages]
          /\ incoming'[m.to] = incoming[m.to] \cup {m}
          /\ \A f \in Executors \ {m.to} : incoming'[f] = incoming[f]
      BY <1>2, <3>1, <3>2 DEF Shape
    <3>4. PlaceInv'
      <4> SUFFICES ASSUME NEW f \in Executors
                   PROVE  /\ \A n \in incoming'[f] \cup local[f] : n.to = f /\ n \notin net' \cup lost
                          /\ incoming'[f] \cap local[f] = {}
        BY <1>2, <3>1 DEF PlaceInv
      <4>1. CASE f = m.to
        BY <1>2, <3>1, <3>3, <4>1 DEF PlaceInv
      <4>2. CASE f # m.to
        BY <1>2, <3>1, <3>3, <4>2 DEF PlaceInv
      <4> QED
        BY <4>1, <4>2
    <3>5. InFlight' = InFlight
      <4> SUFFICES ASSUME NEW n PROVE n \in InFlight' <=> n \in InFlight
        OBVIOUS
      <4>1. n \in InFlight <=> n \in net \cup lost \/ \E f \in Executors : n \in incoming[f] \cup local[f]
        BY DEF InFlight
      <4>2. n \in InFlight' <=> n \in net' \cup lost \/ \E f \in Executors : n \in incoming'[f] \cup local[f]
        BY <3>1 DEF InFlight
      <4>3. CASE n = m
        BY <3>2, <3>3, <4>1, <4>2, <4>3
      <4>4. CASE n # m
        BY <3>1, <3>2, <3>3, <4>1, <4>2, <4>4
      <4> QED
        BY <4>3, <4>4
    <3> QED
      BY <1>2, <3>1, <3>3, <3>4, <3>5 DEF Shape
  <2>2. ASSUME NEW m \in net, Lose(m)
        PROVE  /\ net' \subseteq Messages /\ lost' \subseteq Messages
               /\ incoming' \in [Executors -> SUBSET Messages]
               /\ PlaceInv' /\ InFlight' = InFlight
    <3>1. net' = net \ {m} /\ lost' = lost \cup {m} /\ incoming' = incoming /\ local' = local
      BY <2>2 DEF Lose
    <3>2. PlaceInv' /\ InFlight' = InFlight
      BY <1>2, <3>1 DEF PlaceInv, InFlight
    <3> QED
      BY <1>2, <3>1, <3>2 DEF Shape
  <2>3. CASE \E e \in Executors : \E s \in inbox[e] : LoseExecute(e, s)
    <3>1. UNCHANGED <<net, lost, incoming, local>>
      BY <2>3 DEF LoseExecute, messageVars
    <3> QED
      BY <1>2, <3>1 DEF Shape, PlaceInv, InFlight
  <2> QED
    BY <2>1, <2>2, <2>3
<1>4. Shape'
  BY <1>1, <1>2, <1>3 DEF Shape, Positions, Messages, NumBatches
<1>5. \A f \in Executors : Ahead(f)' = Ahead(f) /\ Planned(f)' /\ Looked(f)'
  BY <1>1, <1>2, AheadSame, PlannedSame DEF PlanInv, Looked
<1>6. PlanInv'
  BY <1>1, <1>2, <1>5, AheadLastSame DEF PlanInv
<1> QED
  BY <1>1, <1>3, <1>4, <1>5, <1>6 DEF Kept, Stays

-----------------------------------------------------------------------------
(* The queues *)

LEMMA QueueFacts ==
  ASSUME Shape, NEW a \in Accounts
  PROVE  /\ queues[a] \in Seq(Positions) /\ Len(queues[a]) \in Nat
         /\ DOMAIN queues[a] = 1 .. Len(queues[a])
         /\ \A i \in DOMAIN queues[a] : queues[a][i] \in Positions /\ queues[a][i] \in Nat
         /\ \A t : AtHead(a, t) => 1 \in DOMAIN queues[a] /\ queues[a][1] = t
<1>1. queues[a] \in Seq(Positions)
  BY DEF Shape
<1>2. \A p \in Positions : p \in Nat
  BY LogFacts DEF Shape, Positions
<1> QED
  BY <1>1, <1>2 DEF AtHead

\* The first transaction of a queue is there once, and before all the others.
LEMMA HeadFacts ==
  ASSUME Shape, NEW a \in Accounts, InLine(a), NEW t, AtHead(a, t)
  PROVE  /\ t \in Positions /\ a \in On(t) /\ t \notin Ahead(Partition[a])
         /\ t \in done => t \in outgoing /\ Tx(t).src = a
         /\ \A i \in DOMAIN queues[a] : i = 1 \/ t < queues[a][i]
         /\ \A u : Waits(a, u) => t = u \/ t < u
         /\ Waits(a, t)
<1>1. PICK q : q = queues[a]
  OBVIOUS
<1>2. /\ q \in Seq(Positions) /\ Len(q) \in Nat /\ DOMAIN q = 1 .. Len(q)
      /\ \A i \in DOMAIN q : q[i] \in Positions /\ q[i] \in Nat
      /\ 1 \in DOMAIN q /\ q[1] = t
  BY <1>1, QueueFacts
<1>3. \A i \in DOMAIN q : i = 1 \/ t < q[i]
  BY <1>1, <1>2 DEF InLine
<1> QED
  BY <1>1, <1>2, <1>3 DEF InLine, Waits

\* The first transaction leaves queues, and has taken effect by then.
LEMMA PopKeeps ==
  ASSUME Shape, QueueInv, NEW t \in Positions, NEW accts \in SUBSET On(t),
         \A a \in accts : AtHead(a, t),
         queues' = [a \in Accounts |-> IF a \in accts THEN Tail(queues[a]) ELSE queues[a]],
         log' = log, \A f \in Executors : Ahead(f)' = Ahead(f),
         done \subseteq done', done' \subseteq done \cup {t}, t \in done',
         outgoing \ {t} \subseteq outgoing',
         \A a \in On(t) : t \notin Ahead(Partition[a]),
         \A a \in On(t) \ accts : Waits(a, t) => t \in outgoing' /\ Tx(t).src = a
  PROVE  QueueInv'
<1>1. /\ \A u : On(u)' = On(u) /\ Tx(u)' = Tx(u)
      /\ Positions' = Positions
      /\ \A a \in Accounts : Partition[a] \in Executors
      /\ On(t) \subseteq Accounts
  BY TxFacts DEF On, Tx, Positions, Shape
<1>2. ASSUME NEW a \in Accounts PROVE InLine(a)' /\ Accounted(a)'
  <2>1. PICK A : A = Ahead(Partition[a]) /\ A = Ahead(Partition[a])'
    BY <1>1
  <2>2. PICK q, r : q = queues[a] /\ r = queues'[a]
    OBVIOUS
  <2>3. /\ q \in Seq(Positions) /\ Len(q) \in Nat /\ DOMAIN q = 1 .. Len(q)
        /\ \A i \in DOMAIN q : q[i] \in Nat
    BY <2>2, QueueFacts
  <2>4. /\ \A i \in DOMAIN q : /\ a \in On(q[i]) /\ q[i] \notin A
                               /\ q[i] \in done => q[i] \in outgoing /\ Tx(q[i]).src = a
        /\ \A i, j \in DOMAIN q : i < j => q[i] < q[j]
    BY <2>1, <2>2 DEF QueueInv, InLine
  <2>5. \A u \in Positions : a \in On(u) =>
          IF u \in A THEN u \notin done ELSE u \in done \/ \E i \in DOMAIN q : q[i] = u
    BY <2>1, <2>2 DEF QueueInv, Accounted, Waits
  <2>6. a \in On(t) => t \notin A
    BY <2>1
  <2>7. CASE a \in accts
    <3>1. r = Tail(q) /\ 1 \in DOMAIN q /\ q[1] = t
      BY <2>2, <2>7, QueueFacts
    <3>2. /\ Len(r) = Len(q) - 1 /\ DOMAIN r = 1 .. Len(q) - 1
          /\ \A i \in DOMAIN r : i + 1 \in DOMAIN q /\ r[i] = q[i + 1]
      BY <2>3, <3>1
    <3>3. \A i \in DOMAIN r : r[i] # t
      BY <2>3, <2>4, <3>1, <3>2
    <3>4. \A i \in DOMAIN r : /\ a \in On(r[i]) /\ r[i] \notin A
                              /\ r[i] \in done' => r[i] \in outgoing' /\ Tx(r[i]).src = a
      BY <2>4, <3>2, <3>3
    <3>5. \A i, j \in DOMAIN r : i < j => r[i] < r[j]
      <4> SUFFICES ASSUME NEW i \in DOMAIN r, NEW j \in DOMAIN r, i < j PROVE r[i] < r[j]
        OBVIOUS
      <4>1. i + 1 \in DOMAIN q /\ j + 1 \in DOMAIN q /\ i + 1 < j + 1
        BY <2>3, <3>2
      <4> QED
        BY <2>4, <3>2, <4>1
    <3>6. ASSUME NEW u \in Positions, a \in On(u), u \notin A, u \notin done'
          PROVE  \E i \in DOMAIN r : r[i] = u
      <4>1. PICK i \in DOMAIN q : q[i] = u
        BY <2>5, <3>6
      <4>2. i # 1
        BY <3>1, <3>6, <4>1
      <4>3. i - 1 \in DOMAIN r /\ r[i - 1] = q[(i - 1) + 1] /\ (i - 1) + 1 = i
        BY <2>3, <3>2, <4>2
      <4> QED
        BY <4>1, <4>3
    <3>7. \A u \in Positions : a \in On(u) =>
            IF u \in A THEN u \notin done' ELSE u \in done' \/ \E i \in DOMAIN r : r[i] = u
      BY <2>5, <2>6, <3>6
    <3> QED
      BY <1>1, <2>1, <2>2, <3>4, <3>5, <3>7 DEF InLine, Accounted, Waits
  <2>8. CASE a \notin accts
    <3>1. r = q
      BY <2>2, <2>8
    <3>2. \A i \in DOMAIN q : q[i] \in done' => q[i] \in outgoing' /\ Tx(q[i]).src = a
      <4> SUFFICES ASSUME NEW i \in DOMAIN q, q[i] \in done'
                   PROVE  q[i] \in outgoing' /\ Tx(q[i]).src = a
        OBVIOUS
      <4>1. CASE q[i] = t
        <5>1. a \in On(t) /\ Waits(a, t)
          BY <2>2, <2>4, <4>1 DEF Waits
        <5> QED
          BY <2>8, <4>1, <5>1
      <4>2. CASE q[i] # t
        BY <2>4, <4>2
      <4> QED
        BY <4>1, <4>2
    <3>3. \A u \in Positions : a \in On(u) =>
            IF u \in A THEN u \notin done' ELSE u \in done' \/ \E i \in DOMAIN q : q[i] = u
      BY <2>5, <2>6
    <3> QED
      BY <1>1, <2>1, <2>2, <2>4, <3>1, <3>2, <3>3 DEF InLine, Accounted, Waits
  <2> QED
    BY <2>7, <2>8
<1> QED
  BY <1>2 DEF QueueInv

-----------------------------------------------------------------------------
(* One transaction of a batch *)

\* The first of the plan is the first of what is ahead, and leaves it.
LEMMA LeastAhead ==
  ASSUME Shape, PlanInv, NEW e \in Executors, phase[e] = "execute", NEW t \in plan[e],
         \A u \in plan[e] : t <= u,
         plan' = [plan EXCEPT ![e] = @ \ {t}], UNCHANGED <<log, phase, next>>
  PROVE  /\ t \in Positions /\ e \in Parties(t) /\ t \in Ahead(e)
         /\ \A u \in Ahead(e) : t <= u
         /\ Ahead(e)' = Ahead(e) \ {t}
         /\ \A f \in Executors \ {e} : Ahead(f)' = Ahead(f)
         /\ plan' \in [Executors -> SUBSET Positions]
         /\ \A f \in Executors : AheadLast(f)' /\ Planned(f)'
<1>1. PICK s, end : s = next[e] /\ end = End(s)
  OBVIOUS
<1>2. /\ s \in 1 .. NumBatches /\ plan[e] \subseteq Routed(e, s)
      /\ NumBatches \in Nat /\ Len(log.txs) \in Nat
  BY <1>1, LogFacts DEF Shape, PlanInv, Planned
<1>3. Start(s) \in Nat /\ end \in 1 .. Len(log.txs) /\ end = log.ends[s]
  BY <1>1, <1>2, LogFacts DEF Shape
<1>4. \A u \in plan[e] : u \in Positions /\ u <= end /\ e \in Parties(u)
  BY <1>2, <1>3 DEF Routed, Positions, Parties
<1>5. Ahead(e) = plan[e] \cup {u \in Positions : u > end /\ e \in Parties(u)}
  BY <1>1 DEF Ahead
<1>6. t \in Positions /\ e \in Parties(t) /\ t \in Ahead(e) /\ t <= end
  BY <1>4, <1>5
<1>7. \A u \in Ahead(e) : t <= u
  BY <1>3, <1>5, <1>6 DEF Positions
<1>8. plan'[e] = plan[e] \ {t} /\ plan' \in [Executors -> SUBSET Positions]
  BY DEF Shape
<1>9. \A f \in Executors \ {e} : plan'[f] = plan[f]
  BY DEF Shape
<1>10. Ahead(e)' = Ahead(e) \ {t}
  <2>1. Ahead(e)' = plan'[e] \cup {u \in Positions : u > end /\ e \in Parties(u)}
    BY <1>1 DEF Ahead, Positions, Parties, Source, Dest, Tx, Start, End, NumBatches
  <2>2. t \notin {u \in Positions : u > end /\ e \in Parties(u)}
    BY <1>3, <1>6 DEF Positions
  <2> QED
    BY <1>5, <1>8, <2>1, <2>2
<1>11. \A f \in Executors \ {e} : Ahead(f)' = Ahead(f)
  BY <1>9, AheadSame
<1>12. \A f \in Executors \ {e} : AheadLast(f)' /\ Planned(f)'
  BY <1>9, <1>11, AheadLastSame, PlannedSame DEF PlanInv
<1>13. AheadLast(e)'
  <2>1. PICK A : A = Ahead(e)
    OBVIOUS
  <2>2. \A x \in A : \A u \in Positions : x < u /\ e \in Parties(u) => u \in A
    BY <2>1 DEF PlanInv, AheadLast
  <2>3. Positions' = Positions /\ \A u : Parties(u)' = Parties(u)
    BY DEF Positions, Parties, Source, Dest, Tx
  <2>4. \A x \in A : x \in Positions
    BY <1>4, <1>5, <2>1
  <2>5. ASSUME NEW x \in A \ {t}, NEW u \in Positions, x < u, e \in Parties(u)
        PROVE  u \in A \ {t}
    <3>1. t <= x
      BY <1>7, <2>1
    <3> QED
      BY <1>2, <1>6, <2>2, <2>4, <2>5, <3>1 DEF Positions
  <2>6. Ahead(e)' = A \ {t}
    BY <1>10, <2>1
  <2> QED
    BY <2>3, <2>5, <2>6 DEF AheadLast
<1>14. Planned(e)'
  <2>1. Routed(e, next[e])' = Routed(e, s) /\ NumBatches' = NumBatches
    BY <1>1 DEF Routed, Parties, Source, Dest, Tx, Start, NumBatches
  <2> QED
    BY <1>1, <1>2, <1>8, <2>1 DEF Planned
<1> QED
  BY <1>6, <1>7, <1>8, <1>10, <1>11, <1>12, <1>13, <1>14

\* A transaction an executor has not handled has not taken effect, is in no queue
\* of its accounts there and has no message from there.
LEMMA AheadFacts ==
  ASSUME Shape, QueueInv, AwayInv, NEW t \in Positions, NEW a \in On(t), t \in Ahead(Partition[a])
  PROVE  /\ t \notin done /\ ~Waits(a, t)
         /\ a = Tx(t).src => t \notin outgoing /\ \A m \in InFlight : m.tx # t
<1>1. a \in Accounts
  BY TxFacts DEF Shape
<1>2. t \notin done /\ ~Waits(a, t)
  BY <1>1 DEF QueueInv, Accounted, InLine, Waits
<1>3. ASSUME a = Tx(t).src, t \in outgoing PROVE FALSE
  BY <1>1, <1>2, <1>3, HeadFacts DEF AwayInv, QueueInv
<1> QED
  BY <1>2, <1>3 DEF AwayInv

\* A transaction joins the queues of its accounts at an executor.
LEMMA AppendKeeps ==
  ASSUME Shape, QueueInv, NEW e \in Executors, NEW t \in Positions, e \in Parties(t),
         t \in Ahead(e), AheadLast(e), \A u \in Ahead(e) : t <= u,
         queues' = [a \in Accounts |-> IF a \in LocalAccounts(e, t) THEN Append(queues[a], t)
                                       ELSE queues[a]],
         log' = log, Ahead(e)' = Ahead(e) \ {t},
         \A f \in Executors \ {e} : Ahead(f)' = Ahead(f),
         done' = done, outgoing \subseteq outgoing'
  PROVE  QueueInv'
<1>1. /\ \A u : On(u)' = On(u) /\ Tx(u)' = Tx(u)
      /\ Positions' = Positions
      /\ \A a \in Accounts : Partition[a] \in Executors
      /\ \A u \in Positions : u \in Nat /\ \A a \in On(u) : Partition[a] \in Parties(u)
      /\ LocalAccounts(e, t) = {a \in On(t) : Partition[a] = e}
  BY TxFacts DEF On, Tx, Positions, Shape, LocalAccounts
<1>2. ASSUME NEW a \in Accounts PROVE InLine(a)' /\ Accounted(a)'
  <2>1. PICK A, B : A = Ahead(Partition[a]) /\ B = Ahead(Partition[a])'
    OBVIOUS
  <2>2. PICK q, r : q = queues[a] /\ r = queues'[a]
    OBVIOUS
  <2>3. /\ q \in Seq(Positions) /\ Len(q) \in Nat /\ DOMAIN q = 1 .. Len(q)
        /\ \A i \in DOMAIN q : q[i] \in Nat /\ q[i] \in Positions
    BY <2>2, QueueFacts
  <2>4. /\ \A i \in DOMAIN q : /\ a \in On(q[i]) /\ q[i] \notin A
                               /\ q[i] \in done => q[i] \in outgoing /\ Tx(q[i]).src = a
        /\ \A i, j \in DOMAIN q : i < j => q[i] < q[j]
    BY <2>1, <2>2 DEF QueueInv, InLine
  <2>5. \A u \in Positions : a \in On(u) =>
          IF u \in A THEN u \notin done ELSE u \in done \/ \E i \in DOMAIN q : q[i] = u
    BY <2>1, <2>2 DEF QueueInv, Accounted, Waits
  <2>6. CASE a \in LocalAccounts(e, t)
    <3>1. /\ a \in On(t) /\ A = Ahead(e) /\ B = A \ {t} /\ t \in A
      BY <1>1, <2>1, <2>6
    <3>2. /\ r = Append(q, t) /\ DOMAIN r = 1 .. Len(q) + 1 /\ r[Len(q) + 1] = t
          /\ \A i \in DOMAIN q : i \in DOMAIN r /\ r[i] = q[i]
          /\ \A i \in DOMAIN r : i = Len(q) + 1 \/ i \in DOMAIN q
      BY <2>2, <2>3, <2>6
    <3>3. \A i \in DOMAIN q : q[i] < t
      <4> SUFFICES ASSUME NEW i \in DOMAIN q PROVE q[i] < t
        OBVIOUS
      <4>1. q[i] \notin A /\ e \in Parties(q[i]) /\ q[i] # t
        BY <1>1, <2>3, <2>4, <2>6, <3>1
      <4>2. t < q[i] => q[i] \in A
        BY <2>3, <3>1, <4>1 DEF AheadLast
      <4> QED
        BY <1>1, <2>3, <4>1, <4>2
    <3>4. t \notin done
      BY <2>5, <3>1
    <3>5. \A i \in DOMAIN r : /\ a \in On(r[i]) /\ r[i] \notin B
                              /\ r[i] \in done => r[i] \in outgoing' /\ Tx(r[i]).src = a
      BY <2>4, <3>1, <3>2, <3>4
    <3>6. \A i, j \in DOMAIN r : i < j => r[i] < r[j]
      <4> SUFFICES ASSUME NEW i \in DOMAIN r, NEW j \in DOMAIN r, i < j PROVE r[i] < r[j]
        OBVIOUS
      <4>1. i \in DOMAIN q
        BY <2>3, <3>2
      <4> QED
        BY <2>4, <3>2, <3>3, <4>1
    <3>7. \A u \in Positions : a \in On(u) =>
            IF u \in B THEN u \notin done ELSE u \in done \/ \E i \in DOMAIN r : r[i] = u
      <4>1. \E i \in DOMAIN r : r[i] = t
        BY <2>3, <3>2
      <4>2. \A u : (\E i \in DOMAIN q : q[i] = u) => \E i \in DOMAIN r : r[i] = u
        BY <3>2
      <4> QED
        BY <2>5, <3>1, <4>1, <4>2
    <3> QED
      BY <1>1, <2>1, <2>2, <3>5, <3>6, <3>7 DEF InLine, Accounted, Waits
  <2>7. CASE a \notin LocalAccounts(e, t)
    <3>1. r = q
      BY <2>2, <2>7
    <3>2. \A u : a \in On(u) => (u \in A <=> u \in B)
      BY <1>1, <2>1, <2>7
    <3>3. \A i \in DOMAIN q : /\ a \in On(q[i]) /\ q[i] \notin B
                              /\ q[i] \in done => q[i] \in outgoing' /\ Tx(q[i]).src = a
      BY <2>4, <3>2
    <3>4. \A u \in Positions : a \in On(u) =>
            IF u \in B THEN u \notin done ELSE u \in done \/ \E i \in DOMAIN q : q[i] = u
      BY <2>5, <3>2
    <3> QED
      BY <1>1, <2>1, <2>2, <2>4, <3>1, <3>3, <3>4 DEF InLine, Accounted, Waits
  <2> QED
    BY <2>6, <2>7
<1> QED
  BY <1>2 DEF QueueInv

\* A transaction takes effect as it is handled.
LEMMA ExecuteKeeps ==
  ASSUME Shape, QueueInv, NEW e \in Executors, NEW t \in Positions, IsLocal(t), Source(t) = e,
         t \in Ahead(e), UNCHANGED <<log, queues, outgoing>>, Ahead(e)' = Ahead(e) \ {t},
         \A f \in Executors \ {e} : Ahead(f)' = Ahead(f), done' = done \cup {t}
  PROVE  QueueInv'
<1>1. /\ \A u : On(u)' = On(u) /\ Tx(u)' = Tx(u)
      /\ Positions' = Positions
      /\ \A a \in Accounts : Partition[a] \in Executors
      /\ \A a \in On(t) : Partition[a] = e
  BY TxFacts DEF On, Tx, Positions, Shape
<1>2. ASSUME NEW a \in Accounts PROVE InLine(a)' /\ Accounted(a)'
  <2>1. PICK A, B : A = Ahead(Partition[a]) /\ B = Ahead(Partition[a])'
    OBVIOUS
  <2>2. \A u : u # t => (u \in A <=> u \in B)
    BY <1>1, <2>1
  <2>3. a \in On(t) => t \in A /\ t \notin B
    BY <1>1, <2>1
  <2>4. \A i \in DOMAIN queues[a] : queues[a][i] # t
    BY <2>1, <2>3 DEF QueueInv, InLine
  <2>5. InLine(a)'
    BY <1>1, <2>1, <2>2, <2>4 DEF QueueInv, InLine
  <2>6. Accounted(a)'
    BY <1>1, <2>1, <2>2, <2>3 DEF QueueInv, Accounted, Waits
  <2> QED
    BY <2>5, <2>6
<1> QED
  BY <1>2 DEF QueueInv

-----------------------------------------------------------------------------
(* The messages *)

\* Messages of an executor are consumed, and new ones are sent.
LEMMA Exchange ==
  ASSUME Shape, PlaceInv, NEW e \in Executors, NEW R \in SUBSET local[e], NEW W,
         W \cap InFlight = {},
         local'[e] = local[e] \ R, \A f \in Executors \ {e} : local'[f] = local[f],
         UNCHANGED <<incoming, lost>>, net' = net \cup W
  PROVE  PlaceInv' /\ InFlight' = (InFlight \ R) \cup W
<1>1. \A m \in W : m \notin net \cup lost /\ \A f \in Executors : m \notin incoming[f] \cup local[f]
  BY DEF InFlight
<1>2. ASSUME NEW f \in Executors
      PROVE  /\ \A m \in incoming'[f] \cup local'[f] : m.to = f /\ m \notin net' \cup lost'
             /\ incoming'[f] \cap local'[f] = {}
             /\ local'[f] \subseteq local[f]
  <2>1. CASE f = e
    BY <1>1, <2>1 DEF PlaceInv
  <2>2. CASE f # e
    BY <1>1, <2>2 DEF PlaceInv
  <2> QED
    BY <2>1, <2>2
<1>3. net' \cap lost' = {}
  BY <1>1 DEF PlaceInv
<1>4. ASSUME NEW m PROVE m \in InFlight' <=> m \in (InFlight \ R) \cup W
  <2>1. m \in InFlight <=> m \in net \cup lost \/ \E f \in Executors : m \in incoming[f] \cup local[f]
    BY DEF InFlight
  <2>2. m \in InFlight' <=>
          m \in net \cup W \cup lost \/ \E f \in Executors : m \in incoming[f] \cup local'[f]
    BY DEF InFlight
  <2>3. m \in R => /\ m.to = e /\ m \notin net \cup lost \cup W
                   /\ \A f \in Executors : m \notin incoming[f] \cup local'[f]
    BY <1>1 DEF PlaceInv
  <2>4. m \notin R => \A f \in Executors : m \in local'[f] <=> m \in local[f]
    <3> SUFFICES ASSUME m \notin R, NEW f \in Executors PROVE m \in local'[f] <=> m \in local[f]
      OBVIOUS
    <3>1. CASE f = e
      BY <3>1
    <3>2. CASE f # e
      BY <3>2
    <3> QED
      BY <3>1, <3>2
  <2> QED
    BY <2>1, <2>2, <2>3, <2>4
<1> QED
  BY <1>2, <1>3, <1>4 DEF PlaceInv

\* The messages of one transaction change, and the others stand for theirs.
LEMMA AwayKeeps ==
  ASSUME Shape, AwayInv, log' = log, NEW t, NEW W,
         InFlight' = {m \in InFlight : m.tx # t} \cup W, \A w \in W : w.tx = t,
         \A u : u # t => (u \in outgoing' <=> u \in outgoing) /\ (u \in done' <=> u \in done),
         \A u \in outgoing \ {t} : /\ AtHead(Tx(u).src, u)'
                                   /\ store'[Tx(u).src] = store[Tx(u).src],
         IF t \in outgoing'
         THEN /\ ~IsLocal(t) /\ AtHead(Tx(t).src, t)'
              /\ \E w : W = {w} /\ w = IF t \in done' THEN Writeback(t, w.state) ELSE Transfer(t)'
         ELSE W = {}
  PROVE  AwayInv'
<1>1. \A u : /\ Tx(u)' = Tx(u) /\ IsLocal(u)' = IsLocal(u)
             /\ \A x : Writeback(u, x)' = Writeback(u, x)
             /\ store'[Tx(u).src] = store[Tx(u).src] => Transfer(u)' = Transfer(u)
  BY DEF Tx, IsLocal, Source, Dest, Transfer, Writeback
<1>2. ASSUME NEW u \in outgoing', u # t
      PROVE  ~IsLocal(u)' /\ AtHead(Tx(u).src, u)' /\ \E m \in InFlight' : StandsFor(m, u)'
  <2>1. u \in outgoing /\ (u \in done' <=> u \in done)
    BY <1>2
  <2>2. PICK m \in InFlight : StandsFor(m, u)
    BY <2>1 DEF AwayInv
  <2>3. /\ m.tx = u /\ \A n \in InFlight : n.tx = u => n = m
        /\ m = IF u \in done THEN Writeback(u, m.state) ELSE Transfer(u)
    BY <2>2 DEF StandsFor
  <2>4. m \in InFlight' /\ \A n \in InFlight' : n.tx = u => n = m
    BY <1>2, <2>3
  <2>5. Transfer(u)' = Transfer(u)
    BY <1>1, <1>2, <2>1
  <2>6. m = IF u \in done' THEN Writeback(u, m.state)' ELSE Transfer(u)'
    BY <1>1, <2>1, <2>3, <2>5
  <2>7. StandsFor(m, u)'
    BY <2>3, <2>4, <2>6 DEF StandsFor
  <2> QED
    BY <1>1, <1>2, <2>1, <2>4, <2>7 DEF AwayInv
<1>3. ASSUME t \in outgoing'
      PROVE  ~IsLocal(t)' /\ AtHead(Tx(t).src, t)' /\ \E m \in InFlight' : StandsFor(m, t)'
  <2>1. PICK w : W = {w} /\ w = IF t \in done' THEN Writeback(t, w.state) ELSE Transfer(t)'
    BY <1>3
  <2>2. w \in InFlight' /\ w.tx = t /\ \A n \in InFlight' : n.tx = t => n = w
    BY <2>1
  <2>3. StandsFor(w, t)'
    BY <1>1, <2>1, <2>2 DEF StandsFor
  <2> QED
    BY <1>1, <1>3, <2>2, <2>3
<1>4. ASSUME NEW m \in InFlight' PROVE m.tx \in outgoing'
  <2>1. CASE m \in W
    <3>1. t \in outgoing'
      BY <2>1
    <3> QED
      BY <2>1, <3>1
  <2>2. CASE m \notin W
    BY <1>4, <2>2 DEF AwayInv
  <2> QED
    BY <2>1, <2>2
<1> QED
  BY <1>2, <1>3, <1>4 DEF AwayInv

LEMMA AwaySame ==
  ASSUME Shape, AwayInv, UNCHANGED <<log, outgoing, done>>, InFlight' = InFlight,
         \A u \in outgoing : /\ AtHead(Tx(u).src, u)'
                             /\ store'[Tx(u).src] = store[Tx(u).src]
  PROVE  AwayInv'
<1>1. \A u : /\ Tx(u)' = Tx(u) /\ IsLocal(u)' = IsLocal(u)
             /\ \A x : Writeback(u, x)' = Writeback(u, x)
             /\ store'[Tx(u).src] = store[Tx(u).src] => Transfer(u)' = Transfer(u)
  BY DEF Tx, IsLocal, Source, Dest, Transfer, Writeback
<1>2. ASSUME NEW u \in outgoing, NEW m, StandsFor(m, u) PROVE StandsFor(m, u)'
  <2>1. Transfer(u)' = Transfer(u)
    BY <1>1
  <2> QED
    BY <1>1, <1>2, <2>1 DEF StandsFor
<1> QED
  BY <1>1, <1>2 DEF AwayInv

\* What the message of a transaction says.
LEMMA MessageFacts ==
  ASSUME Shape, AwayInv, NEW m \in InFlight
  PROVE  /\ m \in Messages /\ m.tx \in outgoing /\ m.tx \in Positions
         /\ ~IsLocal(m.tx) /\ AtHead(Tx(m.tx).src, m.tx)
         /\ \A n \in InFlight : n.tx = m.tx => n = m
         /\ m.kind = "writeback" => m.tx \in done /\ m.to = Source(m.tx)
         /\ m.kind = "transfer" => m.tx \notin done /\ m = Transfer(m.tx)
         /\ m.kind \in {"transfer", "writeback"} /\ m.state \in AccountState
<1>1. m \in Messages
  BY DEF Shape, InFlight
<1>2. m.tx \in outgoing
  BY DEF AwayInv
<1>3. PICK n \in InFlight : StandsFor(n, m.tx)
  BY <1>2 DEF AwayInv
<1>4. n = m
  BY <1>3 DEF StandsFor
<1>5. m = IF m.tx \in done THEN Writeback(m.tx, m.state) ELSE Transfer(m.tx)
  BY <1>3, <1>4 DEF StandsFor
<1>6. m.tx \in done => m.kind = "writeback" /\ m.to = Source(m.tx)
  BY <1>5 DEF Writeback
<1>7. m.tx \notin done => m.kind = "transfer" /\ m = Transfer(m.tx)
  BY <1>5 DEF Transfer
<1>8. m.kind \in {"transfer", "writeback"} /\ m.state \in AccountState /\ m.tx \in Positions
  BY <1>1 DEF Messages, Positions
<1> QED
  BY <1>1, <1>2, <1>3, <1>4, <1>6, <1>7, <1>8 DEF AwayInv, StandsFor

-----------------------------------------------------------------------------
(* Serial execution *)

Back(a) == {m \in InFlight : m.kind = "writeback" /\ Tx(m.tx).src = a}

\* The first transaction on its accounts: nothing on them is in front of it, in a
\* queue or in a batch.
First(t) ==
  \A a \in On(t) : /\ queues[a] = << >> \/ AtHead(a, t)
                   /\ \A u \in Ahead(Partition[a]) : t <= u

LEMMA CurrentIs ==
  ASSUME Shape, AwayInv, NEW a \in Accounts
  PROVE  /\ Back(a) = {} => CurrentState(a) = store[a]
         /\ \A m \in Back(a) : /\ CurrentState(a) = m.state /\ m.tx \in done
                               /\ AtHead(a, m.tx) /\ Back(a) = {m}
         /\ CurrentState(a) \in AccountState
<1>1. CurrentState(a) = IF Back(a) = {} THEN store[a] ELSE (CHOOSE m \in Back(a) : TRUE).state
  BY DEF CurrentState, Back
<1>2. store[a] \in AccountState
  BY DEF Shape
<1>3. ASSUME NEW m \in Back(a)
      PROVE  /\ m \in InFlight /\ m.tx \in done /\ AtHead(a, m.tx) /\ m.state \in AccountState
             /\ \A n \in InFlight : n.tx = m.tx => n = m
  BY <1>3, MessageFacts DEF Back
<1>4. ASSUME NEW m \in Back(a), NEW n \in Back(a) PROVE n = m
  <2>1. m.tx = n.tx
    BY <1>3 DEF AtHead
  <2> QED
    BY <1>3, <2>1
<1>5. ASSUME NEW m \in Back(a)
      PROVE  /\ CurrentState(a) = m.state /\ m.tx \in done
             /\ AtHead(a, m.tx) /\ Back(a) = {m}
  <2>1. Back(a) = {m}
    BY <1>4
  <2>2. (CHOOSE n \in Back(a) : TRUE) = m
    BY <2>1
  <2> QED
    BY <1>1, <1>3, <2>1, <2>2
<1>6. CurrentState(a) \in AccountState
  <2>1. CASE Back(a) = {}
    BY <1>1, <1>2, <2>1
  <2>2. CASE Back(a) # {}
    BY <1>3, <1>5, <2>2
  <2> QED
    BY <2>1, <2>2
<1> QED
  BY <1>1, <1>5, <1>6

\* Everything before the first transaction that shares an account with it is done,
\* and its accounts are here.
LEMMA FirstFacts ==
  ASSUME Shape, QueueInv, AwayInv, NEW t \in Positions, t \notin done, First(t)
  PROVE  /\ \A j \in Positions : j < t /\ On(j) \cap On(t) # {} => j \in done
         /\ \A a \in On(t) : a \in Accounts /\ Back(a) = {} /\ CurrentState(a) = store[a]
<1>1. /\ \A a \in On(t) : a \in Accounts
      /\ \A u \in Positions : u \in Nat
  BY TxFacts DEF Shape
<1>2. ASSUME NEW j \in Positions, j < t, NEW a \in On(j) \cap On(t) PROVE j \in done
  <2>1. InLine(a) /\ Accounted(a)
    BY <1>1 DEF QueueInv
  <2>2. j \notin Ahead(Partition[a])
    BY <1>1, <1>2 DEF First
  <2>3. ~Waits(a, j)
    <3>1. CASE queues[a] = << >>
      BY <3>1 DEF Waits
    <3>2. CASE AtHead(a, t)
      BY <1>1, <1>2, <2>1, <3>2, HeadFacts
    <3> QED
      BY <1>2, <3>1, <3>2 DEF First
  <2> QED
    BY <2>1, <2>2, <2>3 DEF Accounted
<1>3. ASSUME NEW a \in On(t) PROVE Back(a) = {}
  <2> SUFFICES ASSUME NEW m \in Back(a) PROVE FALSE
    OBVIOUS
  <2>1. m.tx \in done /\ AtHead(a, m.tx)
    BY <1>1, CurrentIs
  <2>2. AtHead(a, t)
    BY <2>1 DEF First, AtHead
  <2> QED
    BY <2>1, <2>2 DEF AtHead
<1> QED
  BY <1>1, <1>2, <1>3, CurrentIs

\* A transaction takes effect on the state its accounts are in.
TakesEffect(t) ==
  /\ t \in Positions /\ t \notin done /\ First(t)
  /\ log' = log /\ done' = done \cup {t}
  /\ \A a \in Accounts :
       CurrentState(a)' = IF a \in On(t) THEN Executed(store, Tx(t))[a] ELSE CurrentState(a)

NothingHappens ==
  /\ log' = log /\ done' = done
  /\ \A a \in Accounts : CurrentState(a)' = CurrentState(a)

LEMMA EffectIsSerial ==
  ASSUME Inv, NEW t, TakesEffect(t)
  PROVE  Bank!Next
<1>1. PICK bank : bank = [a \in Accounts |-> CurrentState(a)]
  OBVIOUS
<1>2. \A a \in Accounts : CurrentState(a) \in AccountState
  BY CurrentIs DEF Inv
<1>3. bank \in [Accounts -> AccountState] /\ store \in [Accounts -> AccountState]
  BY <1>1, <1>2 DEF Inv, Shape
<1>4. t \in Positions /\ t \in 1 .. Len(log.txs) /\ IsTransaction(Tx(t), Accounts)
  BY TxFacts DEF TakesEffect, Inv, Shape, Positions
<1>5. /\ \A j \in Positions : j < t /\ On(j) \cap On(t) # {} => j \in done
      /\ \A a \in On(t) : a \in Accounts /\ CurrentState(a) = store[a]
  BY <1>4, FirstFacts DEF TakesEffect, Inv
<1>6. \A a \in On(t) : bank[a] = store[a]
  BY <1>1, <1>5
<1>7. Executed(bank, Tx(t)) \in [Accounts -> AccountState]
  BY <1>3, <1>4, ExecutedTyped
<1>8. ASSUME NEW a \in Accounts PROVE CurrentState(a)' = Executed(bank, Tx(t))[a]
  <2>1. CASE a \in On(t)
    <3>1. Executed(bank, Tx(t))[a] = Executed(store, Tx(t))[a]
      BY <1>3, <1>4, <1>6, <2>1, ExecutedAgrees DEF On
    <3> QED
      BY <2>1, <3>1 DEF TakesEffect
  <2>2. CASE a \notin On(t)
    <3>1. Executed(bank, Tx(t))[a] = bank[a]
      BY <1>3, <1>4, <2>2, ExecutedOthers DEF On
    <3> QED
      BY <1>1, <2>2, <3>1 DEF TakesEffect
  <2> QED
    BY <2>1, <2>2
<1>9. [a \in Accounts |-> CurrentState(a)]' = Executed(bank, log.txs[t])
  BY <1>7, <1>8 DEF Tx
<1>10. \A j \in 1 .. t - 1 : Bank!Conflict(t, j) => j \in done
  <2> SUFFICES ASSUME NEW j \in 1 .. t - 1, Bank!Conflict(t, j) PROVE j \in done
    OBVIOUS
  <2>1. j \in Positions /\ j < t
    BY <1>4, LogFacts DEF Positions, Inv, Shape
  <2>2. On(j) \cap On(t) # {}
    BY DEF Bank!Conflict, On, Tx, RequiredAccounts, Bank!RequiredAccounts
  <2> QED
    BY <1>5, <2>1, <2>2
<1>11. Bank!Executed(bank, log.txs[t]) = Executed(bank, log.txs[t])
  BY DEF Bank!Executed, Executed, Bank!Deposit, Deposit, Bank!TransactSavings, TransactSavings,
         Bank!WriteCheck, WriteCheck, Bank!CanDebit, CanDebit, Bank!Debit, Debit,
         Bank!Credit, Credit
<1>12. Bank!Execute(t)
  BY <1>1, <1>9, <1>10, <1>11 DEF Bank!Execute, TakesEffect
<1> QED
  BY <1>4, <1>12 DEF Bank!Next

LEMMA NothingIsSerial ==
  ASSUME NothingHappens
  PROVE  UNCHANGED Bank!bankVars
  BY DEF NothingHappens, Bank!bankVars

LEMMA CurrentSame ==
  ASSUME NEW a, store'[a] = store[a], Back(a)' = Back(a)
  PROVE  CurrentState(a)' = CurrentState(a)
<1>1. CurrentState(a) = IF Back(a) = {} THEN store[a] ELSE (CHOOSE m \in Back(a) : TRUE).state
  BY DEF CurrentState, Back
<1>2. CurrentState(a)' = IF Back(a)' = {} THEN store'[a] ELSE (CHOOSE m \in Back(a)' : TRUE).state
  BY DEF CurrentState, Back
<1>3. (CHOOSE m \in Back(a)' : TRUE) = (CHOOSE m \in Back(a) : TRUE)
  OBVIOUS
<1> QED
  BY <1>1, <1>2, <1>3

LEMMA KeptIsSerial ==
  ASSUME Inv, Kept
  PROVE  Inv' /\ NothingHappens
<1>1. Inv'
  BY Staying DEF Inv, Kept, Shape
<1>2. \A a : Back(a)' = Back(a)
  BY DEF Kept, Stays, Back, Tx
<1> QED
  BY <1>1, <1>2, CurrentSame DEF NothingHappens, Kept, Stays

-----------------------------------------------------------------------------
(* The steps that lock, send and execute *)

LEMMA KeepsHandling ==
  ASSUME Inv, NEW e \in Executors, HandleTransaction(e)
  PROVE  Inv' /\ (NothingHappens \/ \E t : TakesEffect(t))
<1>1. PICK t \in plan[e] :
        /\ \A u \in plan[e] : t <= u
        /\ plan' = [plan EXCEPT ![e] = @ \ {t}]
        /\ \/ /\ IsLocal(t) /\ IsReadyToExecute(t, LocalAccounts(e, t))
              /\ Execute(t)
              /\ UNCHANGED <<queues, locks, outgoing, net>>
           \/ /\ IsLocal(t)
              /\ LockAndEnqueue(t, LocalAccounts(e, t))
              /\ UNCHANGED <<store, done, outgoing, net>>
           \/ /\ ~IsLocal(t)
              /\ LockAndEnqueue(t, LocalAccounts(e, t))
              /\ IF e = Source(t) /\ queues[Tx(t).src] = << >>
                 THEN SendStateTransfer(t)
                 ELSE UNCHANGED <<outgoing, net>>
              /\ UNCHANGED <<store, done>>
  BY DEF HandleTransaction
<1>2. /\ phase[e] = "execute"
      /\ UNCHANGED <<log, inbox, next, buffer, phase, incoming, local, todo, work, lost, gaps>>
  BY DEF HandleTransaction, batchVars, lossVars
<1>3. Shape /\ PlanInv /\ QueueInv /\ PlaceInv /\ AwayInv
  BY DEF Inv
<1>4. /\ t \in Positions /\ e \in Parties(t) /\ t \in Ahead(e)
      /\ \A u \in Ahead(e) : t <= u
      /\ Ahead(e)' = Ahead(e) \ {t}
      /\ \A f \in Executors \ {e} : Ahead(f)' = Ahead(f)
      /\ plan' \in [Executors -> SUBSET Positions]
      /\ \A f \in Executors : AheadLast(f)' /\ Planned(f)'
  BY <1>1, <1>2, <1>3, LeastAhead
<1>5. /\ IsTransaction(Tx(t), Accounts) /\ Tx(t).src \in Accounts /\ Tx(t).src \in On(t)
      /\ LocalAccounts(e, t) = {a \in On(t) : Partition[a] = e}
      /\ LocalAccounts(e, t) \subseteq Accounts /\ On(t) \subseteq Accounts
      /\ Source(t) = Partition[Tx(t).src] /\ Dest(t) = Partition[Tx(t).dest]
      /\ IsLocal(t) => Source(t) = e /\ \A a \in On(t) : Partition[a] = e
  BY <1>3, <1>4, TxFacts DEF LocalAccounts, On, Source, Dest, Shape, Parties, IsLocal
<1>6. \A a \in LocalAccounts(e, t) : t \notin done /\ ~Waits(a, t)
  BY <1>3, <1>4, <1>5, AheadFacts
<1>7. Source(t) = e => t \notin outgoing /\ \A m \in InFlight : m.tx # t
  BY <1>3, <1>4, <1>5, AheadFacts
<1>8. PlanInv'
  BY <1>2, <1>3, <1>4 DEF PlanInv, Looked
<1>9. \A u : Tx(u)' = Tx(u)
  BY <1>2 DEF Tx
<1>10. ASSUME IsLocal(t), IsReadyToExecute(t, LocalAccounts(e, t)), Execute(t),
              UNCHANGED <<queues, locks, outgoing, net>>
       PROVE  Inv' /\ TakesEffect(t)
  <2>1. /\ store' = Executed(store, Tx(t)) /\ done' = done \cup {t}
        /\ LocalAccounts(e, t) = On(t) /\ t \notin done
    BY <1>5, <1>6, <1>10 DEF Execute
  <2>2. store' \in [Accounts -> AccountState]
    BY <1>3, <1>5, <2>1, ExecutedTyped DEF Shape
  <2>3. Shape'
    BY <1>2, <1>3, <1>4, <1>10, <2>1, <2>2 DEF Shape, Positions, Messages, NumBatches
  <2>4. QueueInv'
    BY <1>2, <1>3, <1>4, <1>5, <1>10, <2>1, ExecuteKeeps
  <2>5. PlaceInv' /\ InFlight' = InFlight
    BY <1>2, <1>3, <1>10 DEF PlaceInv, InFlight
  <2>6. \A a \in On(t) : queues[a] = << >>
    BY <1>3, <1>5, <1>6, <1>10, <2>1, HeadFacts DEF IsReadyToExecute, QueueInv
  <2>7. \A u \in outgoing : /\ AtHead(Tx(u).src, u)'
                            /\ store'[Tx(u).src] = store[Tx(u).src]
    <3> SUFFICES ASSUME NEW u \in outgoing
                 PROVE  AtHead(Tx(u).src, u)' /\ store'[Tx(u).src] = store[Tx(u).src]
      OBVIOUS
    <3>1. AtHead(Tx(u).src, u) /\ Tx(u).src \in Accounts
      BY <1>3, TxFacts DEF AwayInv, Shape
    <3>2. Tx(u).src \notin On(t)
      BY <2>6, <3>1 DEF AtHead
    <3> QED
      BY <1>3, <1>5, <1>9, <1>10, <2>1, <3>1, <3>2, ExecutedOthers DEF AtHead, Shape, On
  <2>8. AwayInv'
    <3> PICK W : W = {}
      OBVIOUS
    <3>1. InFlight' = {m \in InFlight : m.tx # t} \cup W
      BY <1>5, <1>7, <1>10, <2>5
    <3>2. t \notin outgoing'
      BY <1>5, <1>7, <1>10
    <3>3. \A u : u # t => (u \in outgoing' <=> u \in outgoing) /\ (u \in done' <=> u \in done)
      BY <1>10, <2>1
    <3>4. \A w \in W : w.tx = t
      OBVIOUS
    <3>5. \A u \in outgoing \ {t} : /\ AtHead(Tx(u).src, u)'
                                   /\ store'[Tx(u).src] = store[Tx(u).src]
      BY <2>7
    <3>6. IF t \in outgoing'
          THEN /\ ~IsLocal(t) /\ AtHead(Tx(t).src, t)'
               /\ \E w : W = {w} /\ w = IF t \in done' THEN Writeback(t, w.state) ELSE Transfer(t)'
          ELSE W = {}
      BY <3>2
    <3>7. log' = log
      BY <1>2
    <3> QED
      BY <1>3, <3>1, <3>3, <3>4, <3>5, <3>6, <3>7, AwayKeeps
  <2>9. First(t)
    BY <1>4, <1>5, <1>10, <2>1, <2>6 DEF First
  <2>10. ASSUME NEW a \in Accounts
         PROVE  CurrentState(a)' = IF a \in On(t) THEN Executed(store, Tx(t))[a] ELSE CurrentState(a)
    <3>1. Back(a)' = Back(a)
      BY <1>9, <2>5 DEF Back
    <3>2. CASE a \in On(t)
      <4>1. Back(a) = {}
        BY <1>3, <1>4, <2>1, <2>9, <3>2, FirstFacts
      <4>2. CurrentState(a)' = store'[a]
        BY <3>1, <4>1 DEF CurrentState, Back
      <4> QED
        BY <2>1, <3>2, <4>2
    <3>3. CASE a \notin On(t)
      <4>1. store'[a] = store[a]
        BY <1>3, <1>5, <2>1, <3>3, ExecutedOthers DEF Shape, On
      <4> QED
        BY <3>1, <3>3, <4>1, CurrentSame
    <3> QED
      BY <3>2, <3>3
  <2> QED
    BY <1>2, <1>4, <1>8, <2>1, <2>3, <2>4, <2>5, <2>8, <2>9, <2>10 DEF Inv, TakesEffect
<1>11. ASSUME LockAndEnqueue(t, LocalAccounts(e, t)), UNCHANGED <<store, done>>,
              \/ UNCHANGED <<outgoing, net>>
              \/ /\ ~IsLocal(t) /\ e = Source(t) /\ queues[Tx(t).src] = << >>
                 /\ SendStateTransfer(t)
       PROVE  Inv' /\ NothingHappens
  <2>1. /\ queues' = [a \in Accounts |-> IF a \in LocalAccounts(e, t) THEN Append(queues[a], t)
                                         ELSE queues[a]]
        /\ locks' = [a \in Accounts |-> IF a \in LocalAccounts(e, t) THEN t ELSE locks[a]]
    BY <1>11 DEF LockAndEnqueue
  <2>2. queues' \in [Accounts -> Seq(Positions)] /\ locks' \in [Accounts -> Positions \cup {NoTx}]
    BY <1>3, <1>4, <2>1 DEF Shape
  <2>3. QueueInv'
    <3>1. outgoing \subseteq outgoing'
      BY <1>11 DEF SendStateTransfer
    <3> QED
      BY <1>2, <1>3, <1>4, <1>11, <2>1, <3>1, AppendKeeps DEF PlanInv
  <2>4. \A u \in outgoing : AtHead(Tx(u).src, u)' /\ store'[Tx(u).src] = store[Tx(u).src]
    <3> SUFFICES ASSUME NEW u \in outgoing PROVE AtHead(Tx(u).src, u)'
      BY <1>11
    <3>1. AtHead(Tx(u).src, u) /\ Tx(u).src \in Accounts
      BY <1>3, TxFacts DEF AwayInv, Shape
    <3>2. PICK q, a : a = Tx(u).src /\ q = queues[a]
      OBVIOUS
    <3>3. q \in Seq(Positions) /\ q # << >> /\ Head(q) = u
      BY <1>3, <3>1, <3>2 DEF Shape, AtHead
    <3>4. Append(q, t) # << >> /\ Head(Append(q, t)) = u
      BY <3>3
    <3>5. queues'[a] # << >> /\ Head(queues'[a]) = u
      BY <2>1, <3>1, <3>2, <3>3, <3>4
    <3> QED
      BY <1>9, <3>2, <3>5 DEF AtHead
  <2>5. CASE UNCHANGED <<outgoing, net>>
    <3>1. Shape' /\ PlaceInv' /\ InFlight' = InFlight
      BY <1>2, <1>3, <1>4, <1>11, <2>2, <2>5
         DEF Shape, Positions, Messages, NumBatches, PlaceInv, InFlight
    <3>2. AwayInv'
      BY <1>2, <1>3, <1>11, <2>4, <2>5, <3>1, AwaySame
    <3>3. \A a : Back(a)' = Back(a)
      BY <1>9, <3>1 DEF Back
    <3> QED
      BY <1>2, <1>8, <1>11, <2>3, <3>1, <3>2, <3>3, CurrentSame DEF Inv, NothingHappens
  <2>6. CASE /\ ~IsLocal(t) /\ e = Source(t) /\ queues[Tx(t).src] = << >>
             /\ SendStateTransfer(t)
    <3>1. PICK w : w = Transfer(t)
      OBVIOUS
    <3>2. outgoing' = outgoing \cup {t} /\ net' = net \cup {w}
      BY <2>6, <3>1 DEF SendStateTransfer
    <3>3. w.tx = t /\ w.kind = "transfer" /\ w \in Messages
      BY <1>3, <1>4, <1>5, <3>1, TxFacts DEF Transfer, Messages, Positions, Shape
    <3>4. PlaceInv' /\ InFlight' = (InFlight \ {}) \cup {w}
      <4>1. {w} \cap InFlight = {}
        BY <1>7, <2>6, <3>3
      <4>2. {} \in SUBSET local[e] /\ local'[e] = local[e] \ {} /\ \A f : local'[f] = local[f]
        BY <1>2
      <4>3. UNCHANGED <<incoming, lost>>
        BY <1>2
      <4> QED
        BY <1>3, <3>2, <4>1, <4>2, <4>3, Exchange
    <3>5. Shape'
      BY <1>2, <1>3, <1>4, <1>11, <2>2, <3>2, <3>3 DEF Shape, Positions, Messages, NumBatches
    <3>6. AtHead(Tx(t).src, t)'
      <4>1. Tx(t).src \in LocalAccounts(e, t)
        BY <1>5, <2>6
      <4>2. queues'[Tx(t).src] = Append(<< >>, t)
        BY <1>5, <2>1, <2>6, <4>1
      <4>3. Append(<< >>, t) # << >> /\ Head(Append(<< >>, t)) = t
        BY <1>4
      <4> QED
        BY <1>9, <4>2, <4>3 DEF AtHead
    <3>7. AwayInv'
      <4>1. InFlight' = {m \in InFlight : m.tx # t} \cup {w}
        BY <1>7, <2>6, <3>4
      <4>2. Transfer(t)' = w
        BY <1>9, <1>11, <3>1 DEF Transfer, Dest
      <4>3. t \notin done
        BY <1>5, <1>6, <2>6
      <4>4. \A x \in {w} : x.tx = t
        BY <3>3
      <4>5. \A u : u # t => (u \in outgoing' <=> u \in outgoing) /\ (u \in done' <=> u \in done)
        BY <1>11, <3>2
      <4>6. IF t \in outgoing'
            THEN /\ ~IsLocal(t) /\ AtHead(Tx(t).src, t)'
                 /\ \E x : {w} = {x} /\ x = IF t \in done' THEN Writeback(t, x.state) ELSE Transfer(t)'
            ELSE {w} = {}
        BY <1>11, <2>6, <3>2, <3>6, <4>2, <4>3
      <4> QED
        BY <1>2, <1>3, <2>4, <4>1, <4>4, <4>5, <4>6, AwayKeeps
    <3>8. \A a : Back(a)' = Back(a)
      BY <1>9, <3>3, <3>4 DEF Back
    <3> QED
      BY <1>2, <1>8, <1>11, <2>3, <3>4, <3>5, <3>7, <3>8, CurrentSame DEF Inv, NothingHappens
  <2> QED
    BY <1>11, <2>5, <2>6
<1> QED
  BY <1>1, <1>10, <1>11

\* A transaction is looked at, and its message consumed or left.
LEMMA TakingKeeps ==
  ASSUME Shape, PlanInv, NEW e \in Executors, phase[e] \in {"writeback", "transfer"}, NEW t,
         UNCHANGED <<log, next, phase, plan>>, todo' = [todo EXCEPT ![e] = @ \ {t}],
         \A m \in local[e] : m \notin local'[e] => m.tx = t,
         \A f \in Executors \ {e} : local'[f] = local[f] /\ work'[f] = work[f]
  PROVE  /\ PlanInv' /\ \A f \in Executors : Ahead(f)' = Ahead(f)
         /\ todo' \in [Executors -> SUBSET Positions]
<1>1. /\ todo' \in [Executors -> SUBSET Positions] /\ todo'[e] = todo[e] \ {t}
      /\ \A f \in Executors \ {e} : todo'[f] = todo[f]
  BY DEF Shape
<1>2. \A f \in Executors : Ahead(f)' = Ahead(f) /\ Planned(f)'
  BY AheadSame, PlannedSame DEF PlanInv
<1>3. ASSUME NEW f \in Executors PROVE Looked(f)'
  <2>1. CASE f = e
    <3>1. ASSUME NEW u \in todo'[e] PROVE \E m \in local'[e] : m.tx = u /\ m.kind = phase'[e]
      BY <1>1, <3>1 DEF PlanInv, Looked
    <3> QED
      BY <2>1, <3>1 DEF Looked
  <2>2. CASE f # e
    BY <1>1, <2>2 DEF PlanInv, Looked
  <2> QED
    BY <2>1, <2>2
<1> QED
  BY <1>1, <1>2, <1>3, AheadLastSame DEF PlanInv

LEMMA MessageIs ==
  ASSUME PlanInv, NEW e \in Executors, NEW t \in todo[e]
  PROVE  LET m == Message(e, t, phase[e])
         IN  m \in local[e] /\ m \in InFlight /\ m.tx = t /\ m.kind = phase[e]
<1>1. \E m \in local[e] : m.tx = t /\ m.kind = phase[e]
  BY DEF PlanInv, Looked
<1>2. PICK m : m = Message(e, t, phase[e])
  OBVIOUS
<1>3. m \in local[e] /\ m.tx = t /\ m.kind = phase[e]
  BY <1>1, <1>2 DEF Message
<1>4. m \in InFlight
  BY <1>3 DEF InFlight
<1> QED
  BY <1>2, <1>3, <1>4

\* A message is left for a later batch.
LEMMA KeepsLooking ==
  ASSUME Inv, NEW e \in Executors, phase[e] \in {"writeback", "transfer"}, NEW t,
         todo' = [todo EXCEPT ![e] = @ \ {t}],
         UNCHANGED <<log, inbox, next, buffer, phase, plan, queues, locks, store, outgoing, net,
                     incoming, local, work, done, lost>>
  PROVE  Kept
<1>1. /\ PlanInv' /\ \A f \in Executors : Ahead(f)' = Ahead(f)
      /\ todo' \in [Executors -> SUBSET Positions]
  BY TakingKeeps DEF Inv
<1>2. Shape' /\ PlaceInv' /\ InFlight' = InFlight
  BY <1>1 DEF Inv, Shape, Positions, Messages, NumBatches, PlaceInv, InFlight
<1> QED
  BY <1>1, <1>2 DEF Kept, Stays

LEMMA KeepsTakingWriteback ==
  ASSUME Inv, NEW e \in Executors, NEW t \in todo[e], TakeWriteback(e, t)
  PROVE  Inv' /\ NothingHappens
<1>1. Shape /\ PlanInv /\ QueueInv /\ PlaceInv /\ AwayInv
  BY DEF Inv
<1>2. PICK m, a : m = Message(e, t, "writeback") /\ a = Tx(t).src
  OBVIOUS
<1>3. /\ phase[e] = "writeback" /\ todo' = [todo EXCEPT ![e] = @ \ {t}]
      /\ UNCHANGED <<log, inbox, next, buffer, phase, plan, net, incoming, done, lost, gaps>>
  BY DEF TakeWriteback, batchVars, lossVars
<1>4. \/ /\ AtHead(a, t)
         /\ PopAndUnlock({a})
         /\ store' = [store EXCEPT ![a] = m.state]
         /\ local' = [local EXCEPT ![e] = @ \ {m}]
         /\ outgoing' = outgoing \ {t}
         /\ work' = [work EXCEPT ![e] = @ \cup {a}]
      \/ UNCHANGED <<queues, locks, store, local, outgoing, work>>
  BY <1>2 DEF TakeWriteback
<1>5. CASE UNCHANGED <<queues, locks, store, local, outgoing, work>>
  <2>1. Kept
    BY <1>3, <1>5, KeepsLooking
  <2> QED
    BY <2>1, KeptIsSerial
<1>6. CASE /\ AtHead(a, t)
           /\ PopAndUnlock({a})
           /\ store' = [store EXCEPT ![a] = m.state]
           /\ local' = [local EXCEPT ![e] = @ \ {m}]
           /\ outgoing' = outgoing \ {t}
           /\ work' = [work EXCEPT ![e] = @ \cup {a}]
  <2>1. m \in local[e] /\ m \in InFlight /\ m.tx = t /\ m.kind = "writeback"
    BY <1>1, <1>2, <1>3, MessageIs
  <2>2. /\ t \in outgoing /\ t \in Positions /\ t \in done /\ m.state \in AccountState
        /\ \A n \in InFlight : n.tx = t => n = m
    BY <1>1, <2>1, MessageFacts
  <2>3. /\ a \in Accounts /\ a \in On(t) /\ On(t) \subseteq Accounts
        /\ \A u \in Positions : Tx(u).src \in Accounts
    BY <1>1, <1>2, <2>2, TxFacts DEF Shape
  <2>4. /\ queues' = [b \in Accounts |-> IF b \in {a} THEN Tail(queues[b]) ELSE queues[b]]
        /\ locks' = [b \in Accounts |-> IF b \in {a} THEN NoTx ELSE locks[b]]
    BY <1>6 DEF PopAndUnlock
  <2>5. \A u : Tx(u)' = Tx(u)
    BY <1>3 DEF Tx
  <2>6. /\ local'[e] = local[e] \ {m} /\ \A f \in Executors \ {e} : local'[f] = local[f]
        /\ \A f \in Executors \ {e} : work'[f] = work[f]
        /\ local' \in [Executors -> SUBSET Messages] /\ work' \in [Executors -> SUBSET Accounts]
    BY <1>1, <1>6, <2>3 DEF Shape
  <2>7. PlanInv' /\ (\A f \in Executors : Ahead(f)' = Ahead(f)) /\ todo' \in [Executors -> SUBSET Positions]
    BY <1>1, <1>3, <2>1, <2>6, TakingKeeps
  <2>8. PlaceInv' /\ InFlight' = InFlight \ {m}
    <3>1. PICK W : W = {}
      OBVIOUS
    <3>2. PICK R : R = {m}
      OBVIOUS
    <3>3. /\ R \in SUBSET local[e] /\ W \cap InFlight = {} /\ net' = net \cup W
          /\ local'[e] = local[e] \ R /\ \A f \in Executors \ {e} : local'[f] = local[f]
          /\ UNCHANGED <<incoming, lost>>
      BY <1>3, <2>1, <2>6, <3>1, <3>2
    <3>4. PlaceInv' /\ InFlight' = (InFlight \ R) \cup W
      BY <1>1, <3>3, Exchange
    <3> QED
      BY <3>1, <3>2, <3>4
  <2>9. Shape'
    <3>1. queues' \in [Accounts -> Seq(Positions)]
      <4>1. Tail(queues[a]) \in Seq(Positions)
        BY <1>1, <1>6, <2>3 DEF Shape, AtHead
      <4> QED
        BY <1>1, <2>4, <4>1 DEF Shape
    <3>2. locks' \in [Accounts -> Positions \cup {NoTx}] /\ store' \in [Accounts -> AccountState]
      BY <1>1, <1>6, <2>2, <2>4 DEF Shape
    <3> QED
      BY <1>1, <1>3, <1>6, <2>6, <2>7, <3>1, <3>2 DEF Shape, Positions, Messages, NumBatches
  <2>10. \A b \in On(t) : t \notin Ahead(Partition[b])
    BY <1>1, <2>2, <2>3 DEF QueueInv, Accounted
  <2>11. \A b \in On(t) \ {a} : ~Waits(b, t)
    BY <1>1, <1>2, <2>2, <2>3 DEF QueueInv, InLine, Waits
  <2>12. QueueInv'
    <3> PICK accts : accts = {a}
      OBVIOUS
    <3>1. /\ accts \in SUBSET On(t) /\ \A b \in accts : AtHead(b, t)
          /\ queues' = [b \in Accounts |-> IF b \in accts THEN Tail(queues[b]) ELSE queues[b]]
      BY <1>6, <2>3, <2>4
    <3>2. /\ done \subseteq done' /\ done' \subseteq done \cup {t} /\ t \in done'
          /\ outgoing \ {t} \subseteq outgoing' /\ log' = log
      BY <1>3, <1>6, <2>2
    <3>3. \A b \in On(t) \ accts : Waits(b, t) => t \in outgoing' /\ Tx(t).src = b
      BY <2>11
    <3> QED
      BY <1>1, <2>2, <2>7, <2>10, <3>1, <3>2, <3>3, PopKeeps
  <2>13. \A u \in outgoing \ {t} : AtHead(Tx(u).src, u)' /\ store'[Tx(u).src] = store[Tx(u).src]
    <3> SUFFICES ASSUME NEW u \in outgoing \ {t}
                 PROVE  AtHead(Tx(u).src, u)' /\ store'[Tx(u).src] = store[Tx(u).src]
      OBVIOUS
    <3>1. AtHead(Tx(u).src, u) /\ Tx(u).src \in Accounts
      BY <1>1, <2>3 DEF AwayInv, Shape
    <3>2. Tx(u).src # a
      BY <1>6, <3>1 DEF AtHead
    <3> QED
      BY <1>1, <1>6, <2>4, <2>5, <3>1, <3>2 DEF AtHead, Shape
  <2>14. AwayInv'
    <3> PICK W : W = {}
      OBVIOUS
    <3>1. InFlight' = {n \in InFlight : n.tx # t} \cup W
      BY <2>1, <2>2, <2>8
    <3>2. t \notin outgoing' /\ \A w \in W : w.tx = t
      BY <1>6
    <3>3. \A u : u # t => (u \in outgoing' <=> u \in outgoing) /\ (u \in done' <=> u \in done)
      BY <1>3, <1>6
    <3>4. IF t \in outgoing'
          THEN /\ ~IsLocal(t) /\ AtHead(Tx(t).src, t)'
               /\ \E w : W = {w} /\ w = IF t \in done' THEN Writeback(t, w.state) ELSE Transfer(t)'
          ELSE W = {}
      BY <3>2
    <3>5. log' = log
      BY <1>3
    <3> QED
      BY <1>1, <2>13, <3>1, <3>2, <3>3, <3>4, <3>5, AwayKeeps
  <2>15. ASSUME NEW b \in Accounts PROVE CurrentState(b)' = CurrentState(b)
    <3>1. \A n : n \in Back(b)' <=> n \in Back(b) /\ n # m
      BY <2>5, <2>8 DEF Back
    <3>2. CASE b = a
      <4>1. m \in Back(a)
        BY <1>2, <2>1 DEF Back
      <4>2. CurrentState(a) = m.state /\ Back(a) = {m}
        BY <1>1, <2>3, <4>1, CurrentIs
      <4>3. Back(a)' = {}
        BY <3>1, <3>2, <4>2
      <4>4. CurrentState(a)' = store'[a]
        BY <4>3 DEF CurrentState, Back
      <4> QED
        BY <1>1, <1>6, <2>3, <3>2, <4>2, <4>4 DEF Shape
    <3>3. CASE b # a
      <4>1. m \notin Back(b)
        BY <1>2, <2>1, <3>3 DEF Back
      <4>2. Back(b)' = Back(b)
        BY <3>1, <4>1
      <4>3. store'[b] = store[b]
        BY <1>1, <1>6, <3>3 DEF Shape
      <4> QED
        BY <4>2, <4>3, CurrentSame
    <3> QED
      BY <3>2, <3>3
  <2> QED
    BY <1>3, <2>7, <2>8, <2>9, <2>12, <2>14, <2>15 DEF Inv, NothingHappens
<1> QED
  BY <1>4, <1>5, <1>6

\* Where a transaction heads the queues of its accounts, it is the first on them.
LEMMA HeadIsFirst ==
  ASSUME Shape, PlanInv, QueueInv, NEW t \in Positions, \A a \in On(t) : AtHead(a, t)
  PROVE  First(t) /\ \A a \in On(t) : t \notin Ahead(Partition[a])
<1>1. \A a \in On(t) : a \in Accounts /\ Partition[a] \in Parties(t) /\ Partition[a] \in Executors
  BY TxFacts DEF Shape
<1>2. \A u \in Positions : u \in Nat
  BY TxFacts DEF Shape
<1>3. ASSUME NEW a \in On(t) PROVE t \notin Ahead(Partition[a])
  BY <1>1, HeadFacts DEF QueueInv
<1>4. ASSUME NEW a \in On(t), NEW u \in Ahead(Partition[a]) PROVE t <= u
  <2>1. PICK f : f = Partition[a]
    OBVIOUS
  <2>2. f \in Executors /\ f \in Parties(t) /\ t \notin Ahead(f) /\ u \in Ahead(f)
    BY <1>1, <1>3, <1>4, <2>1
  <2>3. u \in Positions
    BY <2>2 DEF Ahead, Shape
  <2>4. ~ (u < t)
    BY <2>2 DEF PlanInv, AheadLast
  <2> QED
    BY <1>2, <2>3, <2>4
<1> QED
  BY <1>3, <1>4 DEF First

BackIsCurrent == \A a \in Accounts : \A m \in Back(a) : CurrentState(a) = m.state

LEMMA CurrentOfBack == Shape /\ AwayInv => BackIsCurrent
  BY CurrentIs DEF BackIsCurrent

LEMMA KeepsTakingTransfer ==
  ASSUME Inv, NEW e \in Executors, NEW t \in todo[e], TakeTransfer(e, t)
  PROVE  Inv' /\ (NothingHappens \/ TakesEffect(t))
<1>1. Shape /\ PlanInv /\ QueueInv /\ PlaceInv /\ AwayInv
  BY DEF Inv
<1>2. PICK m, a, s, after :
        /\ m = Message(e, t, "transfer") /\ a = Tx(t).dest /\ s = Tx(t).src
        /\ after = Executed([store EXCEPT ![s] = m.state], Tx(t))
  OBVIOUS
<1>3. /\ phase[e] = "transfer" /\ todo' = [todo EXCEPT ![e] = @ \ {t}]
      /\ UNCHANGED <<log, inbox, next, buffer, phase, plan, outgoing, incoming, lost, gaps>>
  BY DEF TakeTransfer, batchVars, lossVars
<1>4. \/ /\ AtHead(a, t)
         /\ PopAndUnlock({a})
         /\ store' = [store EXCEPT ![a] = after[a]]
         /\ net' = net \cup {Writeback(t, after[s])}
         /\ done' = done \cup {t}
         /\ local' = [local EXCEPT ![e] = @ \ {m}]
         /\ work' = [work EXCEPT ![e] = @ \cup {a}]
      \/ UNCHANGED <<queues, locks, store, net, done, local, work>>
  BY <1>2 DEF TakeTransfer
<1>5. CASE UNCHANGED <<queues, locks, store, net, done, local, work>>
  <2>1. Kept
    BY <1>3, <1>5, KeepsLooking
  <2> QED
    BY <2>1, KeptIsSerial
<1>6. CASE /\ AtHead(a, t)
           /\ PopAndUnlock({a})
           /\ store' = [store EXCEPT ![a] = after[a]]
           /\ net' = net \cup {Writeback(t, after[s])}
           /\ done' = done \cup {t}
           /\ local' = [local EXCEPT ![e] = @ \ {m}]
           /\ work' = [work EXCEPT ![e] = @ \cup {a}]
  <2>1. m \in local[e] /\ m \in InFlight /\ m.tx = t /\ m.kind = "transfer"
    BY <1>1, <1>2, <1>3, MessageIs
  <2>2. /\ t \in outgoing /\ t \in Positions /\ t \notin done /\ m = Transfer(t)
        /\ ~IsLocal(t) /\ AtHead(s, t)
        /\ \A n \in InFlight : n.tx = t => n = m
    BY <1>1, <1>2, <2>1, MessageFacts
  <2>3. /\ IsTransaction(Tx(t), Accounts) /\ a \in Accounts /\ s \in Accounts /\ a # s
        /\ On(t) = {s, a} /\ On(t) \subseteq Accounts /\ Source(t) \in Executors
        /\ \A u \in Positions : Tx(u).src \in Accounts
    BY <1>1, <1>2, <2>2, TxFacts DEF Shape
  <2>4. after = Executed(store, Tx(t)) /\ after \in [Accounts -> AccountState]
    <3>1. m.state = store[s]
      BY <1>2, <2>2 DEF Transfer
    <3>2. [store EXCEPT ![s] = m.state] = store
      BY <1>1, <2>3, <3>1 DEF Shape
    <3> QED
      BY <1>1, <1>2, <2>3, <3>2, ExecutedTyped DEF Shape
  <2>5. PICK w : w = Writeback(t, after[s])
    OBVIOUS
  <2>6. /\ w \in Messages /\ w.tx = t /\ w.kind = "writeback" /\ w.state = after[s]
        /\ w = Writeback(t, w.state) /\ w # m
    BY <2>1, <2>2, <2>3, <2>4, <2>5 DEF Writeback, Messages, Positions
  <2>7. w \notin InFlight
    BY <2>2, <2>6
  <2>8. /\ queues' = [b \in Accounts |-> IF b \in {a} THEN Tail(queues[b]) ELSE queues[b]]
        /\ locks' = [b \in Accounts |-> IF b \in {a} THEN NoTx ELSE locks[b]]
    BY <1>6 DEF PopAndUnlock
  <2>9. \A u : Tx(u)' = Tx(u)
    BY <1>3 DEF Tx
  <2>10. /\ local'[e] = local[e] \ {m} /\ \A f \in Executors \ {e} : local'[f] = local[f]
         /\ \A f \in Executors \ {e} : work'[f] = work[f]
         /\ local' \in [Executors -> SUBSET Messages] /\ work' \in [Executors -> SUBSET Accounts]
    BY <1>1, <1>6, <2>3 DEF Shape
  <2>11. /\ PlanInv' /\ \A f \in Executors : Ahead(f)' = Ahead(f)
         /\ todo' \in [Executors -> SUBSET Positions]
    BY <1>1, <1>3, <2>1, <2>10, TakingKeeps
  <2>12. PlaceInv' /\ InFlight' = (InFlight \ {m}) \cup {w}
    <3>1. PICK R, W : R = {m} /\ W = {w}
      OBVIOUS
    <3>2. /\ R \in SUBSET local[e] /\ W \cap InFlight = {} /\ net' = net \cup W
          /\ local'[e] = local[e] \ R /\ \A f \in Executors \ {e} : local'[f] = local[f]
          /\ UNCHANGED <<incoming, lost>>
      BY <1>3, <1>6, <2>1, <2>5, <2>7, <2>10, <3>1
    <3>3. PlaceInv' /\ InFlight' = (InFlight \ R) \cup W
      BY <1>1, <3>2, Exchange
    <3> QED
      BY <3>1, <3>3
  <2>13. Shape'
    <3>1. queues' \in [Accounts -> Seq(Positions)]
      <4>1. Tail(queues[a]) \in Seq(Positions)
        BY <1>1, <1>6, <2>3 DEF Shape, AtHead
      <4> QED
        BY <1>1, <2>8, <4>1 DEF Shape
    <3>2. locks' \in [Accounts -> Positions \cup {NoTx}] /\ store' \in [Accounts -> AccountState]
      BY <1>1, <1>6, <2>3, <2>4, <2>8 DEF Shape
    <3>3. net' \subseteq Messages /\ done' \subseteq Positions
      BY <1>1, <1>6, <2>2, <2>5, <2>6 DEF Shape
    <3> QED
      BY <1>1, <1>3, <2>10, <2>11, <3>1, <3>2, <3>3 DEF Shape, Positions, Messages, NumBatches
  <2>14. First(t) /\ \A b \in On(t) : t \notin Ahead(Partition[b])
    BY <1>1, <1>6, <2>2, <2>3, HeadIsFirst
  <2>15. QueueInv'
    <3> PICK accts : accts = {a}
      OBVIOUS
    <3>1. /\ accts \in SUBSET On(t) /\ \A b \in accts : AtHead(b, t)
          /\ queues' = [b \in Accounts |-> IF b \in accts THEN Tail(queues[b]) ELSE queues[b]]
      BY <1>6, <2>3, <2>8
    <3>2. /\ done \subseteq done' /\ done' \subseteq done \cup {t} /\ t \in done'
          /\ outgoing \ {t} \subseteq outgoing' /\ log' = log
      BY <1>3, <1>6
    <3>3. \A b \in On(t) \ accts : Waits(b, t) => t \in outgoing' /\ Tx(t).src = b
      BY <1>2, <1>3, <2>2, <2>3
    <3> QED
      BY <1>1, <2>2, <2>11, <2>14, <3>1, <3>2, <3>3, PopKeeps
  <2>16. \A u \in outgoing : AtHead(Tx(u).src, u)' /\ store'[Tx(u).src] = store[Tx(u).src]
    <3> SUFFICES ASSUME NEW u \in outgoing
                 PROVE  AtHead(Tx(u).src, u)' /\ store'[Tx(u).src] = store[Tx(u).src]
      OBVIOUS
    <3>1. AtHead(Tx(u).src, u) /\ Tx(u).src \in Accounts
      BY <1>1, <2>3 DEF AwayInv, Shape
    <3>2. Tx(u).src # a
      BY <1>2, <1>6, <2>3, <3>1 DEF AtHead
    <3> QED
      BY <1>1, <1>6, <2>8, <2>9, <3>1, <3>2 DEF AtHead, Shape
  <2>17. AwayInv'
    <3> PICK W : W = {w}
      OBVIOUS
    <3>1. InFlight' = {n \in InFlight : n.tx # t} \cup W
      BY <2>1, <2>2, <2>12
    <3>2. \A x \in W : x.tx = t
      BY <2>6
    <3>3. \A u : u # t => (u \in outgoing' <=> u \in outgoing) /\ (u \in done' <=> u \in done)
      BY <1>3, <1>6
    <3>4. AtHead(Tx(t).src, t)' /\ t \in done'
      BY <1>6, <2>2, <2>16
    <3>5. IF t \in outgoing'
          THEN /\ ~IsLocal(t) /\ AtHead(Tx(t).src, t)'
               /\ \E x : W = {x} /\ x = IF t \in done' THEN Writeback(t, x.state) ELSE Transfer(t)'
          ELSE W = {}
      BY <1>3, <2>2, <2>6, <3>4
    <3>6. log' = log /\ \A u \in outgoing \ {t} : /\ AtHead(Tx(u).src, u)'
                                                 /\ store'[Tx(u).src] = store[Tx(u).src]
      BY <1>3, <2>16
    <3> QED
      BY <1>1, <3>1, <3>2, <3>3, <3>5, <3>6, AwayKeeps
  <2>18. Inv'
    BY <2>11, <2>12, <2>13, <2>15, <2>17 DEF Inv
  <2>19. \A b, n : n \in Back(b)' <=> n \in Back(b) \/ (n = w /\ b = s)
    BY <1>2, <2>1, <2>6, <2>9, <2>12 DEF Back
  <2>20. ASSUME NEW b \in Accounts
         PROVE  CurrentState(b)' = IF b \in On(t) THEN Executed(store, Tx(t))[b] ELSE CurrentState(b)
    <3>1. CASE b = s
      <4>1. BackIsCurrent'
        BY <2>18, CurrentOfBack, PTL DEF Inv
      <4>2. w \in Back(s)'
        BY <2>19
      <4>3. CurrentState(s)' = w.state
        BY <2>3, <4>1, <4>2 DEF BackIsCurrent
      <4> QED
        BY <2>3, <2>4, <2>6, <3>1, <4>3
    <3>2. CASE b = a
      <4>1. Back(a)' = {}
        BY <1>1, <2>2, <2>3, <2>14, <2>19, FirstFacts
      <4>2. CurrentState(a)' = store'[a]
        BY <4>1 DEF CurrentState, Back
      <4>3. store'[a] = after[a]
        BY <1>1, <1>6, <2>3 DEF Shape
      <4> QED
        BY <2>3, <2>4, <3>2, <4>2, <4>3
    <3>3. CASE b \notin On(t)
      <4>1. Back(b)' = Back(b)
        <5>1. b # s
          BY <2>3, <3>3
        <5>2. \A n : n \in Back(b)' <=> n \in Back(b)
          BY <2>19, <5>1
        <5> QED
          BY <5>2
      <4>2. store'[b] = store[b]
        BY <1>1, <1>6, <2>3, <3>3 DEF Shape
      <4> QED
        BY <3>3, <4>1, <4>2, CurrentSame
    <3> QED
      BY <2>3, <3>1, <3>2, <3>3
  <2>21. TakesEffect(t)
    BY <1>3, <1>6, <2>2, <2>14, <2>20 DEF TakesEffect
  <2> QED
    BY <2>18, <2>21
<1> QED
  BY <1>4, <1>5, <1>6

LEMMA KeepsRunning ==
  ASSUME Inv, NEW e \in Executors, NEW t \in Positions, NEW a \in On(t), AtHead(a, t),
         IsLocal(t), IsReadyToExecute(t, On(t)), PopAndUnlock(On(t)), Execute(t),
         work[e] # {}, work' = [work EXCEPT ![e] = @ \cup On(t)],
         UNCHANGED <<log, inbox, next, buffer, phase, plan, outgoing, net, incoming, local, todo, lost>>
  PROVE  Inv' /\ TakesEffect(t)
<1>1. Shape /\ PlanInv /\ QueueInv /\ PlaceInv /\ AwayInv
  BY DEF Inv
<1>2. /\ IsTransaction(Tx(t), Accounts) /\ On(t) \subseteq Accounts /\ t \in Nat
      /\ \A b \in On(t) : Partition[b] = Partition[a]
      /\ \A u \in Positions : Tx(u).src \in Accounts
  BY <1>1, TxFacts DEF Shape
<1>3. t \notin outgoing
  BY <1>1 DEF AwayInv
<1>4. t \notin Ahead(Partition[a]) /\ t \notin done
  BY <1>1, <1>2, <1>3, HeadFacts DEF QueueInv
<1>5. ASSUME NEW b \in On(t) PROVE AtHead(b, t)
  <2>1. Waits(b, t)
    BY <1>1, <1>2, <1>4 DEF QueueInv, Accounted
  <2>2. queues[b] # << >>
    BY <2>1 DEF Waits
  <2> QED
    BY <2>2 DEF IsReadyToExecute
<1>6. First(t) /\ \A b \in On(t) : t \notin Ahead(Partition[b])
  BY <1>1, <1>5, HeadIsFirst
<1>7. /\ store' = Executed(store, Tx(t)) /\ done' = done \cup {t}
      /\ queues' = [b \in Accounts |-> IF b \in On(t) THEN Tail(queues[b]) ELSE queues[b]]
      /\ locks' = [b \in Accounts |-> IF b \in On(t) THEN NoTx ELSE locks[b]]
  BY DEF Execute, PopAndUnlock
<1>8. \A u : Tx(u)' = Tx(u)
  BY DEF Tx
<1>9. PlaceInv' /\ InFlight' = InFlight
  BY <1>1 DEF PlaceInv, InFlight
<1>10. Shape'
  <2>1. queues' \in [Accounts -> Seq(Positions)]
    <3>1. \A b \in On(t) : Tail(queues[b]) \in Seq(Positions)
      BY <1>1, <1>2, <1>5 DEF Shape, AtHead
    <3> QED
      BY <1>1, <1>7, <3>1 DEF Shape
  <2>2. locks' \in [Accounts -> Positions \cup {NoTx}]
    BY <1>1, <1>7 DEF Shape
  <2>3. store' \in [Accounts -> AccountState]
    BY <1>1, <1>2, <1>7, ExecutedTyped DEF Shape
  <2>4. work' \in [Executors -> SUBSET Accounts]
    BY <1>1, <1>2 DEF Shape
  <2> QED
    BY <1>1, <1>7, <2>1, <2>2, <2>3, <2>4 DEF Shape, Positions, Messages, NumBatches
<1>11. PlanInv' /\ \A f \in Executors : Ahead(f)' = Ahead(f)
  <2>1. \A f \in Executors : Ahead(f)' = Ahead(f) /\ Planned(f)'
    BY <1>1, AheadSame, PlannedSame DEF PlanInv
  <2>2. \A f \in Executors : Looked(f)'
    <3> SUFFICES ASSUME NEW f \in Executors PROVE Looked(f)'
      OBVIOUS
    <3>1. CASE f = e
      BY <1>1, <3>1 DEF PlanInv, Looked, Shape
    <3>2. CASE f # e
      BY <1>1, <3>2 DEF PlanInv, Looked, Shape
    <3> QED
      BY <3>1, <3>2
  <2> QED
    BY <1>1, <2>1, <2>2, AheadLastSame DEF PlanInv
<1>12. QueueInv'
  <2> PICK accts : accts = On(t)
    OBVIOUS
  <2>1. /\ accts \in SUBSET On(t) /\ \A b \in accts : AtHead(b, t)
        /\ queues' = [b \in Accounts |-> IF b \in accts THEN Tail(queues[b]) ELSE queues[b]]
    BY <1>5, <1>7
  <2>2. /\ done \subseteq done' /\ done' \subseteq done \cup {t} /\ t \in done'
        /\ outgoing \ {t} \subseteq outgoing' /\ log' = log
    BY <1>7
  <2>3. \A b \in On(t) \ accts : Waits(b, t) => t \in outgoing' /\ Tx(t).src = b
    OBVIOUS
  <2> QED
    BY <1>1, <1>6, <1>11, <2>1, <2>2, <2>3, PopKeeps
<1>13. \A u \in outgoing : AtHead(Tx(u).src, u)' /\ store'[Tx(u).src] = store[Tx(u).src]
  <2> SUFFICES ASSUME NEW u \in outgoing
               PROVE  AtHead(Tx(u).src, u)' /\ store'[Tx(u).src] = store[Tx(u).src]
    OBVIOUS
  <2>1. AtHead(Tx(u).src, u) /\ Tx(u).src \in Accounts
    BY <1>1, <1>2 DEF AwayInv, Shape
  <2>2. Tx(u).src \notin On(t)
    BY <1>3, <1>5, <2>1 DEF AtHead
  <2>3. store'[Tx(u).src] = store[Tx(u).src]
    <3>1. PICK b : b = Tx(u).src
      OBVIOUS
    <3>2. b \in Accounts /\ b \notin RequiredAccounts(Tx(t))
      BY <2>1, <2>2, <3>1 DEF On
    <3>3. store'[b] = store[b]
      BY <1>1, <1>2, <1>7, <3>2, ExecutedOthers DEF Shape
    <3> QED
      BY <3>1, <3>3
  <2> QED
    BY <1>7, <1>8, <2>1, <2>2, <2>3 DEF AtHead
<1>14. AwayInv'
  <2> PICK W : W = {}
    OBVIOUS
  <2>1. InFlight' = {n \in InFlight : n.tx # t} \cup W
    BY <1>1, <1>3, <1>9 DEF AwayInv
  <2>2. t \notin outgoing' /\ \A w \in W : w.tx = t
    BY <1>3
  <2>3. \A u : u # t => (u \in outgoing' <=> u \in outgoing) /\ (u \in done' <=> u \in done)
    BY <1>7
  <2>4. IF t \in outgoing'
        THEN /\ ~IsLocal(t) /\ AtHead(Tx(t).src, t)'
             /\ \E w : W = {w} /\ w = IF t \in done' THEN Writeback(t, w.state) ELSE Transfer(t)'
        ELSE W = {}
    BY <2>2
  <2>5. log' = log /\ \A u \in outgoing \ {t} : /\ AtHead(Tx(u).src, u)'
                                               /\ store'[Tx(u).src] = store[Tx(u).src]
    BY <1>13
  <2> QED
    BY <1>1, <2>1, <2>2, <2>3, <2>4, <2>5, AwayKeeps
<1>15. \A b : Back(b)' = Back(b)
  BY <1>8, <1>9 DEF Back
<1>16. ASSUME NEW b \in Accounts
       PROVE  CurrentState(b)' = IF b \in On(t) THEN Executed(store, Tx(t))[b] ELSE CurrentState(b)
  <2>1. CASE b \in On(t)
    <3>1. Back(b)' = {}
      BY <1>1, <1>4, <1>6, <1>15, <2>1, FirstFacts
    <3>2. CurrentState(b)' = store'[b]
      BY <3>1 DEF CurrentState, Back
    <3> QED
      BY <1>7, <2>1, <3>2
  <2>2. CASE b \notin On(t)
    <3>1. store'[b] = store[b]
      BY <1>1, <1>2, <1>7, <2>2, ExecutedOthers DEF Shape, On
    <3> QED
      BY <1>15, <2>2, <3>1, CurrentSame
  <2> QED
    BY <2>1, <2>2
<1> QED
  BY <1>4, <1>6, <1>7, <1>9, <1>10, <1>11, <1>12, <1>14, <1>16 DEF Inv, TakesEffect

LEMMA KeepsSending ==
  ASSUME Inv, NEW t \in Positions, AtHead(Tx(t).src, t), ~IsLocal(t), t \notin outgoing,
         SendStateTransfer(t),
         UNCHANGED <<log, inbox, next, buffer, phase, plan, queues, locks, store, incoming, local, todo,
                     work, done, lost>>
  PROVE  Inv' /\ NothingHappens
<1>1. Shape /\ PlanInv /\ QueueInv /\ PlaceInv /\ AwayInv
  BY DEF Inv
<1>2. /\ Tx(t).src \in Accounts /\ Dest(t) \in Executors
      /\ \A a \in Accounts : Partition[a] \in Executors
  BY <1>1, TxFacts DEF Shape
<1>3. t \notin done
  BY <1>1, <1>2, HeadFacts DEF QueueInv
<1>4. PICK w : w = Transfer(t)
  OBVIOUS
<1>5. outgoing' = outgoing \cup {t} /\ net' = net \cup {w}
  BY <1>4 DEF SendStateTransfer
<1>6. w.tx = t /\ w.kind = "transfer" /\ w \in Messages
  BY <1>1, <1>2, <1>4 DEF Transfer, Messages, Positions, Shape
<1>7. \A m \in InFlight : m.tx # t
  BY <1>1 DEF AwayInv
<1>8. \A u : Tx(u)' = Tx(u) /\ On(u)' = On(u)
  BY DEF Tx, On
<1>9. PlaceInv' /\ InFlight' = InFlight \cup {w}
  <2>1. \A m \in InFlight : m # w
    BY <1>6, <1>7
  <2>2. /\ w \notin net \cup lost /\ \A f \in Executors : w \notin incoming[f] \cup local[f]
    BY <2>1 DEF InFlight
  <2> QED
    BY <1>1, <1>5, <2>2 DEF PlaceInv, InFlight
<1>10. Shape'
  BY <1>1, <1>5, <1>6 DEF Shape, Positions, Messages, NumBatches
<1>11. \A f \in Executors : Ahead(f)' = Ahead(f) /\ Planned(f)' /\ Looked(f)'
  BY <1>1, AheadSame, PlannedSame DEF PlanInv, Looked
<1>12. PlanInv'
  BY <1>1, <1>11, AheadLastSame DEF PlanInv
<1>13. QueueInv'
  <2>1. ASSUME NEW a \in Accounts PROVE InLine(a)' /\ Accounted(a)'
    <3>1. Ahead(Partition[a])' = Ahead(Partition[a])
      BY <1>2, <1>11
    <3>2. InLine(a)'
      BY <1>1, <1>5, <1>8, <3>1 DEF QueueInv, InLine
    <3>3. Accounted(a)'
      BY <1>1, <1>8, <3>1 DEF QueueInv, Accounted, Positions, Waits
    <3> QED
      BY <3>2, <3>3
  <2> QED
    BY <2>1 DEF QueueInv
<1>14. AwayInv'
  <2> PICK W : W = {w}
    OBVIOUS
  <2>1. InFlight' = {n \in InFlight : n.tx # t} \cup W
    BY <1>7, <1>9
  <2>2. \A x \in W : x.tx = t
    BY <1>6
  <2>3. \A u : u # t => (u \in outgoing' <=> u \in outgoing) /\ (u \in done' <=> u \in done)
    BY <1>5
  <2>4. \A u : AtHead(Tx(u).src, u) => AtHead(Tx(u).src, u)'
    BY <1>8 DEF AtHead
  <2>5. Transfer(t)' = w
    BY <1>4, <1>8 DEF Transfer, Dest
  <2>6. IF t \in outgoing'
        THEN /\ ~IsLocal(t) /\ AtHead(Tx(t).src, t)'
             /\ \E x : W = {x} /\ x = IF t \in done' THEN Writeback(t, x.state) ELSE Transfer(t)'
        ELSE W = {}
    BY <1>3, <1>5, <2>4, <2>5
  <2>7. log' = log /\ \A u \in outgoing \ {t} : /\ AtHead(Tx(u).src, u)'
                                               /\ store'[Tx(u).src] = store[Tx(u).src]
    BY <1>1, <2>4 DEF AwayInv
  <2> QED
    BY <1>1, <2>1, <2>2, <2>3, <2>6, <2>7, AwayKeeps
<1>15. \A a : Back(a)' = Back(a)
  BY <1>6, <1>8, <1>9 DEF Back
<1> QED
  BY <1>9, <1>10, <1>12, <1>13, <1>14, <1>15, CurrentSame DEF Inv, NothingHappens

LEMMA KeepsWorking ==
  ASSUME Inv, NEW e \in Executors, NEW a \in work[e], DrainHead(e, a)
  PROVE  Inv' /\ (NothingHappens \/ \E t : TakesEffect(t))
<1>1. PICK t : t = Head(queues[a])
  OBVIOUS
<1>2. UNCHANGED <<log, inbox, next, buffer, phase, plan, incoming, local, todo, lost, gaps>>
  BY DEF DrainHead, batchVars, lossVars
<1>3. \/ /\ queues[a] # << >> /\ IsLocal(t) /\ IsReadyToExecute(t, On(t))
         /\ PopAndUnlock(On(t))
         /\ Execute(t)
         /\ work' = [work EXCEPT ![e] = @ \cup On(t)]
         /\ UNCHANGED <<outgoing, net>>
      \/ /\ queues[a] # << >> /\ MustSend(a, t)
         /\ SendStateTransfer(t)
         /\ UNCHANGED <<queues, locks, store, done, work>>
      \/ /\ work' = [work EXCEPT ![e] = @ \ {a}]
         /\ UNCHANGED <<queues, locks, store, done, outgoing, net>>
  BY <1>1 DEF DrainHead, On
<1>4. Shape /\ PlanInv /\ QueueInv /\ PlaceInv /\ a \in Accounts
  BY DEF Inv, Shape
<1>5. ASSUME queues[a] # << >> PROVE AtHead(a, t) /\ t \in Positions /\ a \in On(t)
  <2>1. AtHead(a, t)
    BY <1>1, <1>5 DEF AtHead
  <2> QED
    BY <1>4, <2>1, HeadFacts DEF QueueInv
<1>6. CASE /\ queues[a] # << >> /\ IsLocal(t) /\ IsReadyToExecute(t, On(t))
           /\ PopAndUnlock(On(t))
           /\ Execute(t)
           /\ work' = [work EXCEPT ![e] = @ \cup On(t)]
           /\ UNCHANGED <<outgoing, net>>
  BY <1>2, <1>5, <1>6, KeepsRunning
<1>7. CASE /\ queues[a] # << >> /\ MustSend(a, t)
           /\ SendStateTransfer(t)
           /\ UNCHANGED <<queues, locks, store, done, work>>
  BY <1>2, <1>5, <1>7, KeepsSending DEF MustSend
<1>8. CASE /\ work' = [work EXCEPT ![e] = @ \ {a}]
           /\ UNCHANGED <<queues, locks, store, done, outgoing, net>>
  <2>1. work' \in [Executors -> SUBSET Accounts] /\ \A f \in Executors : work'[f] \subseteq work[f]
    BY <1>4, <1>8 DEF Shape
  <2>2. \A f \in Executors : Ahead(f)' = Ahead(f) /\ Planned(f)' /\ Looked(f)'
    BY <1>2, <1>4, <2>1, AheadSame, PlannedSame DEF PlanInv, Looked
  <2>3. PlanInv'
    BY <1>2, <1>4, <2>2, AheadLastSame DEF PlanInv
  <2>4. Shape' /\ PlaceInv' /\ InFlight' = InFlight
    BY <1>2, <1>4, <1>8, <2>1 DEF Shape, Positions, Messages, NumBatches, PlaceInv, InFlight
  <2>5. Kept
    BY <1>2, <1>8, <2>2, <2>3, <2>4 DEF Kept, Stays
  <2> QED
    BY <2>5, KeptIsSerial
<1> QED
  BY <1>3, <1>6, <1>7, <1>8

-----------------------------------------------------------------------------
(* The theorems *)

LEMMA InitInv == Init => Inv
<1> SUFFICES ASSUME Init PROVE Inv
  OBVIOUS
<1>1. /\ log \in Logs
      /\ inbox = [e \in Executors |-> 1 .. NumBatches] /\ next = [e \in Executors |-> 1]
      /\ buffer = [e \in Executors |-> {}] /\ phase = [e \in Executors |-> "idle"]
      /\ plan = [e \in Executors |-> {}] /\ queues = [a \in Accounts |-> << >>]
      /\ locks = [a \in Accounts |-> NoTx] /\ store = InitialBank
      /\ outgoing = {} /\ net = {} /\ lost = {} /\ done = {}
      /\ incoming = [e \in Executors |-> {}] /\ local = [e \in Executors |-> {}]
      /\ todo = [e \in Executors |-> {}] /\ work = [e \in Executors |-> {}]
  BY DEF Init
<1>2. 1 \in 1 .. NumBatches + 1
  BY <1>1, LogFacts
<1>3. Shape
  BY <1>1, <1>2, WritebackAssumption DEF Shape
<1>4. \A e \in Executors : Ahead(e) = {t \in Positions : e \in Parties(t)}
  <2>1. \A t \in Positions : t > Start(1)
    BY <1>1, LogFacts DEF Start, Positions
  <2> QED
    BY <1>1, <2>1 DEF Ahead
<1>5. PlanInv
  BY <1>1, <1>4 DEF PlanInv, AheadLast, Planned, Looked
<1>6. QueueInv
  <2> SUFFICES ASSUME NEW a \in Accounts PROVE InLine(a) /\ Accounted(a)
    BY DEF QueueInv
  <2>1. queues[a] = << >>
    BY <1>1
  <2>2. InLine(a)
    BY <2>1 DEF InLine
  <2>3. ASSUME NEW t \in Positions, a \in On(t) PROVE t \in Ahead(Partition[a])
    BY <1>1, <1>4, <2>3, TxFacts
  <2>4. Accounted(a)
    BY <1>1, <2>3 DEF Accounted
  <2> QED
    BY <2>2, <2>4
<1>7. PlaceInv /\ AwayInv
  BY <1>1 DEF PlaceInv, AwayInv, InFlight
<1> QED
  BY <1>3, <1>5, <1>6, <1>7 DEF Inv

LEMMA NextInv ==
  ASSUME Inv, [Next]_vars
  PROVE  Inv' /\ (NothingHappens \/ \E t : TakesEffect(t))
<1>1. ASSUME NEW e \in Executors, Step(e)
      PROVE  Inv' /\ (NothingHappens \/ \E t : TakesEffect(t))
  <2>1. CASE (\E s \in inbox[e] : ProcessExecute(e, s)) \/ ProcessBuffered(e)
    BY <2>1, KeepsReceiving, KeptIsSerial
  <2>2. CASE HandleTransaction(e)
    BY <2>2, KeepsHandling
  <2>3. CASE EndOfTransactions(e) \/ QuietBatch(e) \/ EndOfWritebacks(e)
    BY <2>3, KeepsTurning, KeptIsSerial
  <2>4. CASE \E t \in todo[e] : TakeWriteback(e, t)
    BY <2>4, KeepsTakingWriteback
  <2>5. CASE \E t \in todo[e] : TakeTransfer(e, t)
    BY <2>5, KeepsTakingTransfer
  <2>6. CASE \E a \in work[e] : DrainHead(e, a)
    BY <2>6, KeepsWorking
  <2>7. CASE FinishBatch(e)
    BY <2>7, KeepsFinishing, KeptIsSerial
  <2> QED
    BY <1>1, <2>1, <2>2, <2>3, <2>4, <2>5, <2>6, <2>7 DEF Step
<1>2. CASE \/ \E m \in net : Deliver(m) \/ Lose(m)
           \/ \E e \in Executors : \E s \in inbox[e] : LoseExecute(e, s)
  BY <1>2, KeepsNetwork, KeptIsSerial
<1>3. CASE UNCHANGED vars
  <2>1. UNCHANGED <<log, inbox, next, buffer, phase, plan, queues, locks, store, outgoing, net,
                    incoming, local, todo, work, done, lost, gaps>>
    BY <1>3 DEF vars
  <2>2. Shape /\ PlanInv /\ PlaceInv
    BY DEF Inv
  <2>3. \A f \in Executors : Ahead(f)' = Ahead(f) /\ Planned(f)' /\ Looked(f)'
    BY <2>1, <2>2, AheadSame, PlannedSame DEF PlanInv, Looked
  <2>4. PlanInv'
    BY <2>1, <2>2, <2>3, AheadLastSame DEF PlanInv
  <2>5. Shape' /\ PlaceInv' /\ InFlight' = InFlight
    BY <2>1, <2>2 DEF Shape, Positions, Messages, NumBatches, PlaceInv, InFlight
  <2>6. Kept
    BY <2>1, <2>3, <2>4, <2>5 DEF Kept, Stays
  <2> QED
    BY <2>6, KeptIsSerial
<1> QED
  BY <1>1, <1>2, <1>3 DEF Next

\* The invariant that the other theorems rest on: what an executor has handled and
\* not executed is what its queues hold, in the committed order (execute_batch), and
\* an account that was sent away is as it was sent (send_state_transfer_for_tx).
THEOREM Invariance == Spec => []Inv
<1>1. Inv /\ [Next]_vars => Inv'
  BY NextInv
<1> QED
  BY InitInv, <1>1, PTL DEF Spec

\* The state of the executors is well-typed, and a task that waits for the next batch
\* left nothing of the last one to do (WritebackBatchExecutor::run).
THEOREM TypeCorrect == Spec => []TypeOK
<1>1. Inv => TypeOK
  <2> SUFFICES ASSUME Inv PROVE TypeOK
    OBVIOUS
  <2>1. Shape /\ PlanInv
    BY DEF Inv
  <2>2. InFlight \subseteq Messages
    BY <2>1 DEF Shape, InFlight
  <2>3. ASSUME NEW e \in Executors
        PROVE  /\ inbox[e] \subseteq 1 .. NumBatches /\ buffer[e] \subseteq 1 .. NumBatches
               /\ next[e] \in 1 .. NumBatches + 1
               /\ phase[e] \in {"idle", "execute", "writeback", "transfer"}
               /\ todo[e] \subseteq 1 .. Len(log.txs) /\ work[e] \subseteq Accounts
               /\ phase[e] = "idle" => plan[e] = {} /\ todo[e] = {} /\ work[e] = {}
    BY <2>1 DEF Shape, Positions, PlanInv, Planned, Looked
  <2>4. \A a \in Accounts : locks[a] = NoTx \/ locks[a] \in 1 .. Len(log.txs)
    BY <2>1 DEF Shape, Positions
  <2> QED
    BY <2>1, <2>2, <2>3, <2>4 DEF TypeOK, Shape, Positions
<1> QED
  BY Invariance, <1>1, PTL

\* Exactly one message stands for an account that is away, its payment heads the
\* queue of the account, and the message is a writeback once the payment is made
\* (send_state_transfer_for_tx, process_incoming_writebacks).
THEOREM AwaitedIsOnce == Spec => []AwaitedOnce
<1>1. Inv => AwaitedOnce
  <2> SUFFICES ASSUME Inv, NEW t \in 1 .. Len(log.txs)
               PROVE  LET messages == {m \in InFlight : m.tx = t}
                      IN  IF t \in outgoing
                          THEN /\ Cardinality(messages) = 1
                               /\ AtHead(Tx(t).src, t)
                               /\ \A m \in messages : m.kind = "writeback" <=> t \in done
                          ELSE messages = {}
    BY DEF AwaitedOnce
  <2>1. PICK messages : messages = {m \in InFlight : m.tx = t}
    OBVIOUS
  <2>2. CASE t \in outgoing
    <3>1. AtHead(Tx(t).src, t)
      BY <2>2 DEF Inv, AwayInv
    <3>2. PICK m \in InFlight : StandsFor(m, t)
      BY <2>2 DEF Inv, AwayInv
    <3>3. messages = {m}
      BY <2>1, <3>2 DEF StandsFor
    <3>4. Cardinality(messages) = 1
      BY <3>3, FS_Singleton
    <3>5. m.kind = "writeback" <=> t \in done
      BY <3>2, MessageFacts DEF StandsFor, Inv
    <3> QED
      BY <2>1, <2>2, <3>1, <3>3, <3>4, <3>5
  <2>3. CASE t \notin outgoing
    BY <2>3 DEF Inv, AwayInv
  <2> QED
    BY <2>2, <2>3
<1> QED
  BY Invariance, <1>1, PTL

\* The executors together implement SerialBank: every transaction that takes effect
\* does so once, after all the earlier ones on its accounts, and on the balances
\* they left (execute_single_local_transaction, process_incoming_transfers).
THEOREM ExecutesSerially == Spec => SerialExecution
<1>1. Init => Bank!Init
  <2> SUFFICES ASSUME Init PROVE Bank!Init
    OBVIOUS
  <2>1. log.txs \in Seq(Transaction(Accounts))
    BY WritebackAssumption DEF Init, IsLog
  <2>2. \A a \in Accounts : CurrentState(a) = InitialBank[a]
    <3>1. InFlight = {} /\ store = InitialBank
      BY DEF Init, InFlight
    <3> QED
      BY <3>1 DEF CurrentState
  <2>3. [a \in Accounts |-> CurrentState(a)] = InitialBank
    BY <2>2, WritebackAssumption
  <2> QED
    BY <2>1, <2>3 DEF Bank!Init, Init, Transaction, Bank!Transaction, Kinds, Bank!Kinds
<1>2. Inv /\ [Next]_vars => [Bank!Next]_(Bank!bankVars)
  <2> SUFFICES ASSUME Inv, [Next]_vars PROVE [Bank!Next]_(Bank!bankVars)
    OBVIOUS
  <2>1. CASE NothingHappens
    BY <2>1, NothingIsSerial
  <2>2. CASE \E t : TakesEffect(t)
    BY <2>2, EffectIsSerial
  <2> QED
    BY <2>1, <2>2, NextInv
<1> QED
  BY Invariance, <1>1, <1>2, PTL DEF Spec, SerialExecution
=============================================================================
