---------------------------- MODULE Replay_proofs ----------------------------
(***************************************************************************)
(* The data-fusion executors, dispatched or replayed, implement serial     *)
(* execution, for every log, either scheduler, any number of executors,    *)
(* workers, losses and restarts.  Where each transaction runs is a         *)
(* function of the log alone (Schedule).  The invariant Inv says how far   *)
(* an executor has followed it, that its queues hold in the committed      *)
(* order what it has handled and not finished, and that the state of an    *)
(* account is in one store or in one message on its way.                   *)
(***************************************************************************)
EXTENDS Replay, FiniteSetTheorems, WellFoundedInduction, TLAPS

-----------------------------------------------------------------------------
(* What the scheduler does with the log *)

\* The scheduler's state between two transactions, and the batch of the next one.
Known == [partition : [Accounts -> Executors], owners : [Accounts -> Executors],
          loads : [Executors -> Nat], batch : Nat]

Boot == [partition |-> InitialPartition, owners |-> InitialPartition, loads |-> NoLoad,
         batch |-> 1]

BeforeBatch(l, s) == IF s = 1 THEN 0 ELSE l.ends[s - 1]
SizeOf(l, s) == l.ends[s] - BeforeBatch(l, s)

AnyOrder == CHOOSE order \in Orders : TRUE

\* The executor a transaction is scheduled on.
TargetIn(l, new, t, f) ==
  IF new
  THEN NewTarget(RequiredAccounts(l.txs[t]), f.owners, f.loads, MaxAllowed(SizeOf(l, f.batch)), AnyOrder)
  ELSE f.owners[l.txs[t].src]

\* The owners of the accounts once they are all at the target.
Gathered(owner, accts, target) == [a \in Accounts |-> IF a \in accts THEN target ELSE owner[a]]

KnownAfter(l, new, t, f) ==
  LET target == TargetIn(l, new, t, f)
      moved  == Gathered(f.partition, RequiredAccounts(l.txs[t]), target)
  IN  IF t = l.ends[f.batch]
      THEN [partition |-> moved, owners |-> moved, loads |-> NoLoad, batch |-> f.batch + 1]
      ELSE [partition |-> moved,
            owners |-> IF new THEN Gathered(f.owners, RequiredAccounts(l.txs[t]), target) ELSE f.owners,
            loads |-> IF new THEN [f.loads EXCEPT ![target] = @ + 1] ELSE f.loads,
            batch |-> f.batch]

IsSchedule(F, l, new) ==
  /\ F \in [0 .. Len(l.txs) -> Known]
  /\ F[0] = Boot
  /\ \A t \in 1 .. Len(l.txs) : F[t] = KnownAfter(l, new, t, F[t - 1])

Schedule(l, new) == CHOOSE F : IsSchedule(F, l, new)

Positions == 1 .. Len(log.txs)
On(t) == RequiredAccounts(Tx(t))

\* After the first k transactions of the log: the scheduler's state, and who owns
\* each account.
After(k) == Schedule(log, newScheduler)[k]
At(k) == After(k).partition
To(t) == TargetIn(log, newScheduler, t, After(t - 1))

-----------------------------------------------------------------------------
(* The invariant *)

\* The first batch an executor has not begun, and the last position before it.
Begun(e) == IF phase[e] = "idle" \/ next[e] > NumBatches THEN next[e] ELSE next[e] + 1
Until(e) == Start(Begun(e))

\* What the executor makes of a transaction.
Pending(e, t) == [tx |-> t, locality |-> Locality(e, At(t - 1), On(t), To(t))]

\* An executor has scheduled k transactions of the log and handled h of them.
Progress(e, h, k) ==
  /\ h \in 0 .. k /\ k \in 0 .. Until(e)
  /\ plan[e] = {Pending(e, t) : t \in h + 1 .. k}
  /\ batch[e] = k + 1 .. Until(e)
  /\ partition[e] = At(k)
  /\ phase[e] = "schedule" => /\ k < Until(e) /\ After(k).batch = next[e]
                              /\ owners[e] = After(k).owners /\ loads[e] = After(k).loads
  /\ phase[e] # "schedule" => /\ k = Until(e) /\ After(k).batch = Begun(e)
                              /\ After(k).owners = At(k) /\ After(k).loads = NoLoad
  /\ phase[e] \in {"idle", "incoming"} => h = k
  /\ phase[e] \in {"schedule", "execute"} => next[e] <= NumBatches

\* The transactions that an executor has not handled yet.
Ahead(e) == {p.tx : p \in plan[e]} \cup batch[e] \cup {t \in Positions : t > Until(e)}

PlanInv == \A e \in Executors : \E h, k \in Nat : Progress(e, h, k)

\* The accounts of t that e owns before it, and those that e needs for it.
Mine(e, t) == {a \in On(t) : At(t - 1)[a] = e}
Needs(e, t) == IF To(t) = e THEN On(t) ELSE Mine(e, t)

\* An account was sent for a transaction.
Away(a, t) == \E m \in InFlight : m.tx = t /\ m.account = a

\* An executor has done its part of t: executed it, or sent its accounts.
Finished(e, t) == t \in done \/ (To(t) # e /\ \A a \in Mine(e, t) : Away(a, t))

\* The queue of an account has, in order, the transactions its executor has
\* handled and not finished.
InLine(e, a) ==
  /\ \A i \in DOMAIN queues[e][a] :
       LET t == queues[e][a][i].tx
       IN  /\ t \in Positions /\ queues[e][a][i] = Pending(e, t)
           /\ a \in Needs(e, t) /\ t \notin Ahead(e) /\ ~Finished(e, t)
  /\ \A i, j \in DOMAIN queues[e][a] : i < j => queues[e][a][i].tx < queues[e][a][j].tx

Waits(e, a, t) == \E i \in DOMAIN queues[e][a] : queues[e][a][i].tx = t

Accounted(e, a) ==
  \A t \in Positions : a \in Needs(e, t) =>
    IF t \in Ahead(e) THEN ~Finished(e, t) ELSE Finished(e, t) \/ Waits(e, a, t)

QueueInv == \A e \in Executors, a \in Accounts : InLine(e, a) /\ Accounted(e, a)

\* Of the transactions on an account, those up to position k have been executed.
Frontier(a, k) == \A t \in Positions : a \in On(t) => (t \in done <=> t <= k)

\* A transaction is the next one to be executed on an account.
First(t, a) ==
  /\ t \in Positions /\ a \in On(t) /\ t \notin done
  /\ \A u \in Positions : a \in On(u) /\ u < t => u \in done

\* An account is where the schedule has it before the next transaction on it, or on
\* its way to where that one runs, together with the others its owner had.
Sent(m) ==
  /\ First(m.tx, m.account)
  /\ m.to = To(m.tx) /\ At(m.tx - 1)[m.account] # m.to
  /\ \A b \in Mine(At(m.tx - 1)[m.account], m.tx) : Away(b, m.tx)

AccountInv ==
  /\ \A a \in Accounts :
       /\ \E k \in 0 .. Len(log.txs) : Frontier(a, k)
       /\ (\E e \in Executors : store[e][a] # NotHere) \/ (\E m \in InFlight : m.account = a)
       /\ \A e \in Executors : store[e][a] # NotHere =>
            /\ \A m \in InFlight : m.account # a
            /\ \A k \in 0 .. Len(log.txs) : Frontier(a, k) => At(k)[a] = e
  /\ \A m \in InFlight : Sent(m)
  /\ \A m, n \in InFlight : m.account = n.account => m = n

\* A message is in one place.
PlaceInv ==
  /\ net \cap lost = {}
  /\ \A e \in Executors :
       /\ \A m \in incoming[e] \cup drained[e] : m.to = e /\ m \notin net \cup lost
       /\ incoming[e] \cap drained[e] = {}
       /\ \A t \in todo[e] : To(t) = e

Localities == [kind : {"local", "in", "out", "others"}, moved : SUBSET Accounts, dest : Executors]
Pendings == [tx : Positions, locality : Localities]

\* The shape of the executors' state.
Shape ==
  /\ log \in Logs /\ newScheduler \in Schedulers
  /\ inbox \in [Executors -> SUBSET (1 .. NumBatches)]
  /\ buffer \in [Executors -> SUBSET (1 .. NumBatches)]
  /\ next \in [Executors -> 1 .. NumBatches + 1]
  /\ phase \in [Executors -> {"idle", "schedule", "execute", "incoming"}]
  /\ batch \in [Executors -> SUBSET Positions]
  /\ owners \in [Executors -> [Accounts -> Executors]]
  /\ loads \in [Executors -> [Executors -> Nat]]
  /\ plan \in [Executors -> SUBSET Pendings]
  /\ partition \in [Executors -> [Accounts -> Executors]]
  /\ queues \in [Executors -> [Accounts -> Seq(Pendings)]]
  /\ store \in [Executors -> [Accounts -> AccountState \cup {NotHere}]]
  /\ net \subseteq Transfers /\ lost \subseteq Transfers
  /\ incoming \in [Executors -> SUBSET Transfers]
  /\ drained \in [Executors -> SUBSET Transfers]
  /\ todo \in [Executors -> SUBSET Positions]
  /\ work \in [Executors -> SUBSET Accounts]
  /\ done \subseteq Positions
  /\ gaps \subseteq Executors \X Dispatched

Inv == Shape /\ PlanInv /\ QueueInv /\ AccountInv /\ PlaceInv

-----------------------------------------------------------------------------
(* The bank *)

Banks == [Accounts -> AccountState \cup {NotHere}]

\* A transaction changes its own accounts only, which must be here.
LEMMA ExecutedTyped ==
  ASSUME NEW bank \in Banks, NEW tx, IsTransaction(tx, Accounts),
         \A a \in RequiredAccounts(tx) : bank[a] \in AccountState
  PROVE  /\ Executed(bank, tx) \in Banks
         /\ \A a \in RequiredAccounts(tx) : Executed(bank, tx)[a] \in AccountState
         /\ \A a \in Accounts \ RequiredAccounts(tx) : Executed(bank, tx)[a] = bank[a]
<1>1. /\ tx.kind \in Kinds /\ tx.src \in Accounts /\ tx.dest \in Accounts /\ tx.amount \in Int
      /\ tx.kind = "pay" <=> tx.src # tx.dest
  BY DEF Transaction, IsTransaction
<1>2. ASSUME NEW x \in AccountState, NEW n \in Int
      PROVE  /\ Deposit(x, n) \in AccountState /\ TransactSavings(x, n) \in AccountState
             /\ WriteCheck(x, n) \in AccountState /\ Debit(x, n) \in AccountState
             /\ Credit(x, n) \in AccountState
  BY DEF AccountState, Deposit, TransactSavings, WriteCheck, Debit, Credit
<1>3. PICK S : S = AccountState \cup {NotHere} /\ AccountState \subseteq S /\ bank \in [Accounts -> S]
  BY DEF Banks
<1>4. CASE tx.kind # "pay"
  <2>1. RequiredAccounts(tx) = {tx.src} /\ bank[tx.src] \in AccountState
    BY <1>4 DEF RequiredAccounts
  <2>2. PICK x \in AccountState : Executed(bank, tx) = [bank EXCEPT ![tx.src] = x]
    <3>1. CASE tx.kind = "balance"
      <4>1. bank = [bank EXCEPT ![tx.src] = bank[tx.src]]
        BY <1>3
      <4> QED
        BY <2>1, <3>1, <4>1 DEF Executed
    <3>2. CASE tx.kind = "deposit"
      BY <1>1, <1>2, <2>1, <3>2 DEF Executed
    <3>3. CASE tx.kind = "savings"
      BY <1>1, <1>2, <2>1, <3>3 DEF Executed
    <3>4. CASE tx.kind = "check"
      BY <1>1, <1>2, <2>1, <3>4 DEF Executed
    <3> QED
      BY <1>1, <1>4, <3>1, <3>2, <3>3, <3>4 DEF Kinds
  <2> QED
    BY <1>1, <1>3, <2>1, <2>2 DEF Banks
<1>5. CASE tx.kind = "pay"
  <2>1. /\ RequiredAccounts(tx) = {tx.src, tx.dest} /\ tx.src # tx.dest
        /\ bank[tx.src] \in AccountState /\ bank[tx.dest] \in AccountState
    BY <1>1, <1>5 DEF RequiredAccounts
  <2>2. PICK x \in AccountState, y \in AccountState :
          Executed(bank, tx) = [bank EXCEPT ![tx.src] = x, ![tx.dest] = y]
    <3>1. CASE CanDebit(bank[tx.src], tx.amount)
      <4>1. Executed(bank, tx) = [bank EXCEPT ![tx.src] = Debit(@, tx.amount),
                                              ![tx.dest] = Credit(@, tx.amount)]
        BY <1>5, <3>1 DEF Executed
      <4>2. [bank EXCEPT ![tx.src] = Debit(@, tx.amount), ![tx.dest] = Credit(@, tx.amount)]
              = [bank EXCEPT ![tx.src] = Debit(bank[tx.src], tx.amount),
                             ![tx.dest] = Credit(bank[tx.dest], tx.amount)]
        BY <1>1, <1>3, <2>1
      <4> QED
        BY <1>1, <1>2, <2>1, <4>1, <4>2
    <3>2. CASE ~CanDebit(bank[tx.src], tx.amount)
      <4>1. Executed(bank, tx) = bank
        BY <1>5, <3>2 DEF Executed
      <4>2. bank = [bank EXCEPT ![tx.src] = bank[tx.src], ![tx.dest] = bank[tx.dest]]
        BY <1>1, <1>3
      <4> QED
        BY <2>1, <4>1, <4>2
    <3> QED
      BY <3>1, <3>2
  <2> QED
    BY <1>1, <1>3, <2>1, <2>2 DEF Banks
<1> QED
  BY <1>4, <1>5

\* It does not look at the other accounts.
LEMMA ExecutedAgrees ==
  ASSUME NEW bank \in Banks, NEW other \in Banks, NEW tx, IsTransaction(tx, Accounts),
         \A a \in RequiredAccounts(tx) : bank[a] = other[a],
         NEW a \in RequiredAccounts(tx)
  PROVE  Executed(bank, tx)[a] = Executed(other, tx)[a]
<1>1. /\ tx.kind \in Kinds /\ tx.src \in Accounts /\ tx.dest \in Accounts
      /\ tx.kind = "pay" <=> tx.src # tx.dest
  BY DEF Transaction, IsTransaction
<1>2. PICK S : bank \in [Accounts -> S] /\ other \in [Accounts -> S]
  BY DEF Banks
<1>3. CASE tx.kind = "pay"
  BY <1>1, <1>2, <1>3 DEF Executed, RequiredAccounts
<1>4. CASE tx.kind # "pay"
  BY <1>1, <1>2, <1>4 DEF Executed, Kinds, RequiredAccounts
<1> QED
  BY <1>3, <1>4

-----------------------------------------------------------------------------
(* Numbers *)

LEMMA LeastNumber ==
  ASSUME NEW S \in SUBSET Nat, S # {}
  PROVE  \E m \in S : \A n \in S : m <= n
<1> DEFINE less == {ss \in Nat \X Nat : ss[1] < ss[2]}
<1>1. IsWellFoundedOn(less, Nat)
  BY NatLessThanWellFounded DEF OpToRel
<1>2. PICK m \in S : \A n \in S : ~ (<<n, m>> \in less)
  <2> HIDE DEF less
  <2> QED
    BY <1>1, WFMin
<1>3. ASSUME NEW n \in S PROVE m <= n
  <2>1. <<n, m>> \in Nat \X Nat /\ ~ (<<n, m>> \in less)
    BY <1>2
  <2> QED
    BY <2>1
<1> QED
  BY <1>2, <1>3

LEMMA InductionOnNat ==
  ASSUME NEW Good, 0 \in Good, \A n \in Nat : n \in Good => n + 1 \in Good
  PROVE  Nat \subseteq Good
<1> SUFFICES ASSUME Nat \ Good # {} PROVE FALSE
  OBVIOUS
<1>1. PICK m \in Nat \ Good : \A n \in Nat \ Good : m <= n
  BY LeastNumber
<1>2. m - 1 \in Nat /\ m - 1 \in Good
  BY <1>1
<1> QED
  BY <1>1, <1>2

\* A recursion that goes up from 0 by a step defines a function. The two notions
\* are named because the provers find the instance only while they are folded.
IsStepOn(step, n, V) == step \in [(1 .. n) \X V -> V]
Iterates(f, v, step, n, V) ==
  /\ f \in [0 .. n -> V] /\ f[0] = v
  /\ \A i \in 1 .. n : f[i] = step[<<i, f[i - 1]>>]

LEMMA UpwardRecursion ==
  ASSUME NEW V, NEW v \in V, NEW n \in Nat, NEW step, IsStepOn(step, n, V)
  PROVE  \E f : Iterates(f, v, step, n, V)
<1>0. step \in [(1 .. n) \X V -> V]
  BY DEF IsStepOn
<1> DEFINE From(k, f) == /\ f \in [0 .. k -> V] /\ f[0] = v
                         /\ \A i \in 1 .. k : f[i] = step[<<i, f[i - 1]>>]
           Good == {k \in Nat : k <= n => \E f : From(k, f)}
<1>1. 0 \in Good
  <2>1. From(0, [i \in 0 .. 0 |-> v])
    OBVIOUS
  <2> QED
    BY <2>1
<1>2. ASSUME NEW k \in Good, k + 1 <= n PROVE \E f : From(k + 1, f)
  <2>1. k \in Nat /\ k <= n
    BY <1>2
  <2>2. PICK f : From(k, f)
    BY <2>1
  <2> DEFINE g == [i \in 0 .. k + 1 |-> IF i <= k THEN f[i] ELSE step[<<k + 1, f[k]>>]]
  <2>3. f[k] \in V /\ <<k + 1, f[k]>> \in (1 .. n) \X V
    BY <1>2, <2>1, <2>2
  <2>4. step[<<k + 1, f[k]>>] \in V
    BY <1>0, <2>3
  <2>5. g \in [0 .. k + 1 -> V] /\ g[0] = v
    BY <2>1, <2>2, <2>4
  <2>6. ASSUME NEW i \in 1 .. k + 1 PROVE g[i] = step[<<i, g[i - 1]>>]
    <3>1. CASE i = k + 1
      <4>1. g[i] = step[<<k + 1, f[k]>>] /\ g[i - 1] = f[k]
        BY <2>1, <3>1
      <4> QED
        BY <3>1, <4>1
    <3>2. CASE i <= k
      <4>1. i \in 1 .. k /\ g[i] = f[i] /\ g[i - 1] = f[i - 1]
        BY <2>1, <3>2
      <4> QED
        BY <2>2, <4>1
    <3> QED
      BY <2>1, <3>1, <3>2
  <2>7. From(k + 1, g)
    BY <2>5, <2>6
  <2> QED
    BY <2>7
<1> HIDE DEF From
<1>3. \A k \in Nat : k \in Good => k + 1 \in Good
  <2> SUFFICES ASSUME NEW k \in Nat, k \in Good PROVE k + 1 \in Good
    OBVIOUS
  <2>1. k + 1 <= n => \E f : From(k + 1, f)
    <3> HIDE DEF Good
    <3> QED
      BY <1>2
  <2>2. k + 1 \in Nat
    OBVIOUS
  <2> QED
    BY <2>1, <2>2
<1>4. n \in Good
  <2> HIDE DEF Good
  <2> QED
    BY <1>1, <1>3, InductionOnNat
<1> QED
  BY <1>4 DEF From, Iterates

-----------------------------------------------------------------------------
(* The scheduler's choice *)

LEMMA OrdersExist ==
  /\ Cardinality(Executors) \in Nat
  /\ AnyOrder \in Orders
<1>1. IsFiniteSet(Executors)
  BY DataFusionAssumption
<1>2. Cardinality(Executors) \in Nat /\ ExistsBijection(1 .. Cardinality(Executors), Executors)
  BY <1>1, FS_CardinalityType
<1>3. PICK o : o \in Bijection(1 .. Cardinality(Executors), Executors)
  BY <1>2 DEF ExistsBijection
<1>4. o \in Orders
  BY <1>3 DEF Bijection, Surjection, Injection, Orders
<1> QED
  BY <1>2, <1>4 DEF AnyOrder

LEMMA OrderFacts ==
  ASSUME NEW order \in Orders
  PROVE  /\ Len(order) \in Nat /\ \A i \in 1 .. Len(order) : order[i] \in Executors
         /\ \A e \in Executors : \E i \in 1 .. Len(order) : order[i] = e
<1>1. PICK n : n = Cardinality(Executors) /\ n \in Nat
  BY OrdersExist
<1>2. order \in [1 .. n -> Executors] /\ \A e \in Executors : \E i \in DOMAIN order : order[i] = e
  BY <1>1 DEF Orders
<1>3. order \in Seq(Executors) /\ Len(order) = n
  BY <1>1, <1>2
<1> QED
  BY <1>1, <1>2, <1>3

\* The loop over the votes is a loop.
LEMMA BestAmongSteps ==
  ASSUME NEW order \in Orders, NEW votes, NEW load, NEW max
  PROVE  LET best == BestAmong(order, votes, load, max)
             Chosen(i) == LET e == order[i]
                          IN  IF votes[e] > 0 /\ load[e] < max /\ Better(e, best[i - 1], votes, load)
                              THEN e ELSE best[i - 1]
         IN  best[0] = NoExecutor /\ \A i \in 1 .. Len(order) : best[i] = Chosen(i)
<1> DEFINE V == Executors \cup {NoExecutor}
           n == Len(order)
           Turn(i, b) == LET e == order[i]
                         IN  IF votes[e] > 0 /\ load[e] < max /\ Better(e, b, votes, load)
                             THEN e ELSE b
           step == [x \in (1 .. n) \X V |-> Turn(x[1], x[2])]
           Is(f) == f = [i \in 0 .. n |-> IF i = 0 THEN NoExecutor ELSE Turn(i, f[i - 1])]
<1>1. n \in Nat /\ \A i \in 1 .. n, b \in V : Turn(i, b) \in V
  BY OrderFacts
<1>2. BestAmong(order, votes, load, max) = CHOOSE f : Is(f)
  BY DEF BestAmong
<1>3. PICK v : v = NoExecutor /\ v \in V
  OBVIOUS
<1> HIDE DEF V, n, Turn
<1>4. IsStepOn(step, n, V)
  BY <1>1 DEF IsStepOn
<1>5. PICK f : Iterates(f, v, step, n, V)
  <2> HIDE DEF step
  <2> QED
    BY <1>1, <1>3, <1>4, UpwardRecursion
<1>6. ASSUME NEW i \in 1 .. n PROVE f[i] = Turn(i, f[i - 1])
  <2>1. i - 1 \in 0 .. n
    BY <1>1
  <2> QED
    BY <1>5, <2>1 DEF Iterates
<1>7. Is(f)
  <2>1. ASSUME NEW i \in 0 .. n PROVE f[i] = IF i = 0 THEN NoExecutor ELSE Turn(i, f[i - 1])
    <3>1. i = 0 \/ i \in 1 .. n
      BY <1>1
    <3> QED
      BY <1>3, <1>5, <1>6, <3>1 DEF Iterates
  <2> QED
    BY <1>5, <2>1 DEF Iterates
<1>8. PICK g : g = BestAmong(order, votes, load, max) /\ Is(g)
  <2> HIDE DEF Is
  <2> QED
    BY <1>2, <1>7
<1>9. g[0] = NoExecutor /\ \A i \in 1 .. n : g[i] = Turn(i, g[i - 1])
  BY <1>1, <1>8
<1> QED
  BY <1>8, <1>9 DEF n, Turn

\* Who has votes and room left.
Room(e, votes, load, max) == votes[e] > 0 /\ load[e] < max

\* The result is the best of those who have room, whatever the order.
IsBest(b, S, votes, load, max) ==
  IF b = NoExecutor THEN \A e \in S : ~Room(e, votes, load, max)
  ELSE /\ b \in S /\ Room(b, votes, load, max)
       /\ \A e \in S : Room(e, votes, load, max) => e = b \/ Better(b, e, votes, load)

LEMMA BestVotedIsBest ==
  ASSUME NEW order \in Orders, NEW votes \in [Executors -> Nat], NEW load \in [Executors -> Nat],
         NEW max
  PROVE  IsBest(BestVoted(order, votes, load, max), Executors, votes, load, max)
<1> DEFINE best == BestAmong(order, votes, load, max)
           seen(i) == {order[j] : j \in 1 .. i}
           n == Len(order)
           Best(i) == IsBest(best[i], seen(i), votes, load, max)
           Good == {i \in Nat : i <= n => Best(i)}
<1>1. /\ n \in Nat /\ \A i \in 1 .. n : order[i] \in Executors
      /\ \A e \in Executors : \E i \in 1 .. n : order[i] = e
  BY OrderFacts
<1>2. /\ best[0] = NoExecutor
      /\ \A i \in 1 .. n : best[i] = IF Room(order[i], votes, load, max)
                                        /\ Better(order[i], best[i - 1], votes, load)
                                     THEN order[i] ELSE best[i - 1]
  BY BestAmongSteps DEF Room
<1>3. \A e \in Executors : e \in Nat /\ e # NoExecutor
  BY DataFusionAssumption DEF NoExecutor
<1> HIDE DEF best, n
<1>4. 0 \in Good
  <2>1. seen(0) = {}
    OBVIOUS
  <2> QED
    BY <1>2, <2>1 DEF IsBest
<1>5. ASSUME NEW i \in Nat, i \in Good, i + 1 <= n
      PROVE  Best(i + 1)
  <2>1. PICK b, e, S : b = best[i] /\ e = order[i + 1] /\ S = seen(i)
    OBVIOUS
  <2>2. IsBest(b, S, votes, load, max)
    BY <1>1, <1>5, <2>1
  <2>3. i + 1 \in 1 .. n /\ (i + 1) - 1 = i
    BY <1>1, <1>5
  <2>4. best[i + 1] = IF Room(e, votes, load, max) /\ Better(e, b, votes, load) THEN e ELSE b
    BY <1>2, <2>1, <2>3
  <2>5. e \in Executors /\ S \subseteq Executors
    BY <1>1, <1>5, <2>1, <2>3
  <2>6. seen(i + 1) = S \cup {e}
    BY <2>1
  <2>7. CASE b = NoExecutor
    <3>1. \A f \in S : ~Room(f, votes, load, max)
      BY <2>2, <2>7 DEF IsBest
    <3>2. Better(e, b, votes, load)
      BY <2>7 DEF Better
    <3> QED
      BY <1>3, <2>4, <2>5, <2>6, <2>7, <3>1, <3>2 DEF IsBest
  <2>8. CASE b # NoExecutor
    <3>1. /\ b \in S /\ b \in Executors /\ Room(b, votes, load, max)
          /\ \A f \in S : Room(f, votes, load, max) => f = b \/ Better(b, f, votes, load)
      BY <2>2, <2>5, <2>8 DEF IsBest
    <3>2. CASE Room(e, votes, load, max) /\ Better(e, b, votes, load)
      <4>1. \A f \in Executors : Better(b, f, votes, load) => Better(e, f, votes, load)
        BY <1>3, <2>5, <3>1, <3>2 DEF Better
      <4> QED
        BY <1>3, <2>4, <2>5, <2>6, <3>1, <3>2, <4>1 DEF IsBest
    <3>3. CASE ~(Room(e, votes, load, max) /\ Better(e, b, votes, load))
      <4>1. Room(e, votes, load, max) => e = b \/ Better(b, e, votes, load)
        BY <1>3, <2>5, <3>1, <3>3 DEF Better
      <4> QED
        BY <2>4, <2>6, <2>8, <3>1, <3>3, <4>1 DEF IsBest
    <3> QED
      BY <3>2, <3>3
  <2> QED
    BY <2>7, <2>8
<1>6. n \in Good
  <2> HIDE DEF Best
  <2>1. \A i \in Nat : i \in Good => i + 1 \in Good
    BY <1>5
  <2> HIDE DEF Good
  <2> QED
    BY <1>1, <1>4, <2>1, InductionOnNat
<1>7. IsBest(best[n], seen(n), votes, load, max)
  BY <1>1, <1>6
<1>8. seen(n) = Executors
  BY <1>1
<1> QED
  BY <1>7, <1>8 DEF BestVoted, best, n

\* There is one best.
LEMMA BestIsUnique ==
  ASSUME NEW votes \in [Executors -> Nat], NEW load \in [Executors -> Nat], NEW max,
         NEW b, IsBest(b, Executors, votes, load, max),
         NEW c, IsBest(c, Executors, votes, load, max)
  PROVE  b = c
<1>1. \A e \in Executors : e \in Nat /\ e # NoExecutor
  BY DataFusionAssumption DEF NoExecutor
<1>2. CASE b = NoExecutor \/ c = NoExecutor
  BY <1>2 DEF IsBest
<1>3. CASE b # NoExecutor /\ c # NoExecutor
  <2>1. /\ b \in Executors /\ c \in Executors
        /\ b = c \/ (Better(b, c, votes, load) /\ Better(c, b, votes, load))
    BY <1>3 DEF IsBest
  <2> QED
    BY <1>1, <2>1 DEF Better
<1> QED
  BY <1>2, <1>3

LEMMA LeastLoadedIs ==
  ASSUME NEW load \in [Executors -> Nat], Executors # {}
  PROVE  LeastLoaded(load) \in Executors
<1>1. Executors \subseteq Nat
  BY DataFusionAssumption
<1>2. PICK S : S = {load[e] : e \in Executors}
  OBVIOUS
<1>3. S \in SUBSET Nat /\ S # {}
  BY <1>2
<1>4. PICK m \in S : \A n \in S : m <= n
  BY <1>3, LeastNumber
<1>5. PICK T : T = {e \in Executors : load[e] = m}
  OBVIOUS
<1>6. T \in SUBSET Nat /\ T # {}
  BY <1>1, <1>2, <1>4, <1>5
<1>7. PICK e \in T : \A f \in T : e <= f
  BY <1>6, LeastNumber
<1>8. e \in Executors /\ \A f \in Executors : load[e] < load[f] \/ (load[e] = load[f] /\ e <= f)
  <2> SUFFICES ASSUME NEW f \in Executors
               PROVE  load[e] < load[f] \/ (load[e] = load[f] /\ e <= f)
    BY <1>5, <1>7
  <2>1. m <= load[f] /\ load[e] = m /\ m \in Nat /\ load[f] \in Nat
    BY <1>2, <1>3, <1>4, <1>5, <1>7
  <2> QED
    BY <1>5, <1>7, <2>1
<1> QED
  BY <1>8 DEF LeastLoaded

\* The new scheduler's choice does not depend on the order of the hash map.
LEMMA NewTargetIs ==
  ASSUME NEW accts, IsFiniteSet(accts), NEW owner, NEW load \in [Executors -> Nat], NEW max,
         NEW order \in Orders, Executors # {}
  PROVE  /\ NewTarget(accts, owner, load, max, order) = NewTarget(accts, owner, load, max, AnyOrder)
         /\ NewTarget(accts, owner, load, max, order) \in Executors
<1> DEFINE votes == [e \in Executors |-> Cardinality({a \in accts : owner[a] = e})]
<1>1. votes \in [Executors -> Nat]
  <2> SUFFICES ASSUME NEW e \in Executors PROVE Cardinality({a \in accts : owner[a] = e}) \in Nat
    OBVIOUS
  <2>1. IsFiniteSet({a \in accts : owner[a] = e})
    BY FS_Subset
  <2> QED
    BY <2>1, FS_CardinalityType
<1>2. PICK b, c : b = BestVoted(order, votes, load, max) /\ c = BestVoted(AnyOrder, votes, load, max)
  OBVIOUS
<1>3. NewTarget(accts, owner, load, max, order) = IF b # NoExecutor THEN b ELSE LeastLoaded(load)
  BY <1>2 DEF NewTarget
<1>4. NewTarget(accts, owner, load, max, AnyOrder) = IF c # NoExecutor THEN c ELSE LeastLoaded(load)
  BY <1>2 DEF NewTarget
<1> HIDE DEF votes
<1>5. IsBest(b, Executors, votes, load, max) /\ IsBest(c, Executors, votes, load, max)
  BY <1>1, <1>2, BestVotedIsBest, OrdersExist
<1>6. b = c
  BY <1>1, <1>5, BestIsUnique
<1>7. b # NoExecutor => b \in Executors
  BY <1>5 DEF IsBest
<1> QED
  BY <1>3, <1>4, <1>6, <1>7, LeastLoadedIs

-----------------------------------------------------------------------------
(* The log and its schedule *)

LEMMA LogFacts ==
  ASSUME log \in Logs
  PROVE  /\ NumBatches \in Nat /\ 1 <= NumBatches /\ Len(log.txs) \in Nat
         /\ \A s \in 1 .. NumBatches :
              /\ log.ends[s] \in 1 .. Len(log.txs)
              /\ Start(s) < log.ends[s] /\ Start(s + 1) = log.ends[s]
         /\ Start(1) = 0 /\ Start(NumBatches + 1) = Len(log.txs)
         /\ \A s \in 1 .. NumBatches + 1 : Start(s) \in Nat /\ Start(s) <= Len(log.txs)
<1>1. PICK n, k : n = Len(log.txs) /\ k = NumBatches
  OBVIOUS
<1>2. /\ log.txs \in Seq(Transaction(Accounts)) /\ log.ends \in Seq(1 .. n) /\ log.ends # << >>
      /\ \A s \in 1 .. k : log.ends[s] > (IF s = 1 THEN 0 ELSE log.ends[s - 1])
      /\ log.ends[k] = n
  BY <1>1, DataFusionAssumption DEF IsLog, NumBatches
<1>3. n \in Nat /\ k \in Nat /\ k # 0
  BY <1>1, <1>2 DEF NumBatches
<1>4. \A s \in 1 .. k : log.ends[s] \in 1 .. n
  BY <1>1, <1>2 DEF NumBatches
<1>5. Start(1) = 0
  BY DEF Start
<1>6. \A s \in 1 .. k : Start(s + 1) = log.ends[s]
  BY <1>3 DEF Start
<1>7. ASSUME NEW s \in 1 .. k + 1 PROVE Start(s) \in Nat /\ Start(s) <= n
  <2>1. s = 1 \/ s - 1 \in 1 .. k
    BY <1>3
  <2> QED
    BY <1>3, <1>4, <2>1 DEF Start
<1>8. \A s \in 1 .. k : Start(s) < log.ends[s]
  BY <1>2, <1>3, <1>4 DEF Start
<1>9. Start(k + 1) = n
  BY <1>2, <1>3, <1>6
<1> QED
  BY <1>1, <1>3, <1>4, <1>5, <1>6, <1>7, <1>8, <1>9

LEMMA LogTxFacts ==
  ASSUME NEW l \in Logs, NEW t \in 1 .. Len(l.txs)
  PROVE  /\ IsTransaction(l.txs[t], Accounts)
         /\ l.txs[t].src \in RequiredAccounts(l.txs[t])
         /\ RequiredAccounts(l.txs[t]) = {l.txs[t].src, l.txs[t].dest}
         /\ RequiredAccounts(l.txs[t]) \subseteq Accounts
         /\ IsFiniteSet(RequiredAccounts(l.txs[t]))
<1>1. IsTransaction(l.txs[t], Accounts)
  BY DataFusionAssumption DEF IsLog
<1>2. PICK x : x = l.txs[t] /\ IsTransaction(x, Accounts)
  BY <1>1
<1>3. x \in Transaction(Accounts) /\ (x.kind = "pay" <=> x.src # x.dest)
  BY <1>2 DEF IsTransaction
<1>4. x.src \in Accounts /\ x.dest \in Accounts
  BY <1>3 DEF Transaction
<1>5. RequiredAccounts(x) = {x.src, x.dest}
  BY <1>3 DEF RequiredAccounts
<1>6. IsFiniteSet({x.src, x.dest})
  <2>1. IsFiniteSet({x.src} \cup {x.dest})
    BY FS_Singleton, FS_AddElement
  <2>2. {x.src, x.dest} = {x.src} \cup {x.dest}
    OBVIOUS
  <2> QED
    BY <2>1, <2>2
<1> QED
  BY <1>2, <1>4, <1>5, <1>6

LEMMA KnownTyped ==
  ASSUME NEW l \in Logs, NEW new \in BOOLEAN, NEW t \in 1 .. Len(l.txs), NEW f \in Known
  PROVE  TargetIn(l, new, t, f) \in Executors /\ KnownAfter(l, new, t, f) \in Known
<1>1. PICK accts, target, src : /\ accts = RequiredAccounts(l.txs[t])
                                /\ target = TargetIn(l, new, t, f) /\ src = l.txs[t].src
  OBVIOUS
<1>2. src \in Accounts /\ IsFiniteSet(accts)
  BY <1>1, LogTxFacts
<1>3. /\ f.partition \in [Accounts -> Executors] /\ f.owners \in [Accounts -> Executors]
      /\ f.loads \in [Executors -> Nat] /\ f.batch \in Nat
  BY DEF Known
<1>4. Executors # {}
  BY <1>2, <1>3
<1>5. target \in Executors
  <2>1. CASE new
    <3>1. target = NewTarget(accts, f.owners, f.loads, MaxAllowed(SizeOf(l, f.batch)), AnyOrder)
      BY <1>1, <2>1 DEF TargetIn
    <3> QED
      BY <1>2, <1>3, <1>4, <3>1, NewTargetIs, OrdersExist
  <2>2. CASE ~new
    BY <1>1, <1>2, <1>3, <2>2 DEF TargetIn
  <2> QED
    BY <2>1, <2>2
<1>6. \A owner \in [Accounts -> Executors] : Gathered(owner, accts, target) \in [Accounts -> Executors]
  BY <1>5 DEF Gathered
<1>7. NoLoad \in [Executors -> Nat] /\ [f.loads EXCEPT ![target] = @ + 1] \in [Executors -> Nat]
  BY <1>3, <1>5 DEF NoLoad
<1>8. KnownAfter(l, new, t, f) =
        IF t = l.ends[f.batch]
        THEN [partition |-> Gathered(f.partition, accts, target),
              owners |-> Gathered(f.partition, accts, target),
              loads |-> NoLoad, batch |-> f.batch + 1]
        ELSE [partition |-> Gathered(f.partition, accts, target),
              owners |-> IF new THEN Gathered(f.owners, accts, target) ELSE f.owners,
              loads |-> IF new THEN [f.loads EXCEPT ![target] = @ + 1] ELSE f.loads,
              batch |-> f.batch]
  BY <1>1 DEF KnownAfter
<1> QED
  BY <1>1, <1>3, <1>5, <1>6, <1>7, <1>8 DEF Known

LEMMA ScheduleExists ==
  ASSUME NEW l \in Logs, NEW new \in BOOLEAN
  PROVE  IsSchedule(Schedule(l, new), l, new)
<1> DEFINE n == Len(l.txs)
           step == [x \in (1 .. n) \X Known |-> KnownAfter(l, new, x[1], x[2])]
<1>1. n \in Nat
  BY DataFusionAssumption DEF IsLog
<1>2. Boot \in Known
  BY DataFusionAssumption DEF Boot, Known, NoLoad
<1>3. IsStepOn(step, n, Known)
  BY KnownTyped DEF IsStepOn
<1>4. PICK F : Iterates(F, Boot, step, n, Known)
  <2> HIDE DEF step, n
  <2> QED
    BY <1>1, <1>2, <1>3, UpwardRecursion
<1>5. F \in [0 .. n -> Known] /\ F[0] = Boot
  BY <1>4 DEF Iterates
<1>6. ASSUME NEW t \in 1 .. n PROVE F[t] = KnownAfter(l, new, t, F[t - 1])
  <2>1. t - 1 \in 0 .. n /\ F[t - 1] \in Known
    BY <1>1, <1>5
  <2>2. F[t] = step[<<t, F[t - 1]>>]
    BY <1>4 DEF Iterates
  <2> QED
    BY <2>1, <2>2
<1>7. IsSchedule(F, l, new)
  BY <1>5, <1>6 DEF IsSchedule
<1> QED
  BY <1>7 DEF Schedule

LEMMA TxFacts ==
  ASSUME log \in Logs, NEW t \in Positions
  PROVE  /\ IsTransaction(Tx(t), Accounts)
         /\ Tx(t).src \in On(t) /\ On(t) = {Tx(t).src, Tx(t).dest}
         /\ On(t) \subseteq Accounts /\ IsFiniteSet(On(t))
         /\ t \in Nat /\ t - 1 \in 0 .. Len(log.txs) /\ t \in 0 .. Len(log.txs)
<1>1. Len(log.txs) \in Nat
  BY LogFacts
<1>2. t \in 1 .. Len(log.txs) /\ Tx(t) = log.txs[t] /\ On(t) = RequiredAccounts(log.txs[t])
  BY DEF Tx, On, Positions
<1>3. /\ IsTransaction(log.txs[t], Accounts)
      /\ log.txs[t].src \in On(t) /\ On(t) = {log.txs[t].src, log.txs[t].dest}
      /\ On(t) \subseteq Accounts /\ IsFiniteSet(On(t))
  BY <1>2, LogTxFacts
<1> QED
  BY <1>1, <1>2, <1>3

\* The schedule, as the executors follow it.
LEMMA ScheduleFacts ==
  ASSUME log \in Logs, newScheduler \in Schedulers
  PROVE  /\ \A k \in 0 .. Len(log.txs) : After(k) \in Known /\ At(k) \in [Accounts -> Executors]
         /\ After(0) = Boot
         /\ \A t \in Positions :
              /\ After(t) = KnownAfter(log, newScheduler, t, After(t - 1))
              /\ To(t) \in Executors
              /\ At(t) = Gathered(At(t - 1), On(t), To(t))
<1>1. newScheduler \in BOOLEAN /\ Len(log.txs) \in Nat
  BY DataFusionAssumption, LogFacts
<1>2. IsSchedule(Schedule(log, newScheduler), log, newScheduler)
  BY <1>1, ScheduleExists
<1>3. \A k \in 0 .. Len(log.txs) : After(k) \in Known
  BY <1>2 DEF IsSchedule, After
<1>4. After(0) = Boot
  BY <1>2 DEF IsSchedule, After
<1>5. \A k \in 0 .. Len(log.txs) : At(k) \in [Accounts -> Executors]
  BY <1>3 DEF At, Known
<1>6. ASSUME NEW t \in Positions
      PROVE  /\ After(t) = KnownAfter(log, newScheduler, t, After(t - 1))
             /\ To(t) \in Executors
             /\ At(t) = Gathered(At(t - 1), On(t), To(t))
  <2>1. After(t) = KnownAfter(log, newScheduler, t, After(t - 1))
    BY <1>2 DEF IsSchedule, After, Positions
  <2>2. After(t - 1) \in Known
    BY <1>3, TxFacts
  <2>3. To(t) \in Executors
    BY <1>1, <2>2, KnownTyped DEF To, Positions
  <2>4. At(t) = Gathered(At(t - 1), On(t), To(t))
    BY <2>1 DEF At, To, On, Tx, KnownAfter
  <2> QED
    BY <2>1, <2>3, <2>4
<1> QED
  BY <1>3, <1>4, <1>5, <1>6

\* It never changes.
LEMMA ScheduleSame ==
  ASSUME UNCHANGED <<log, newScheduler>>
  PROVE  /\ Positions' = Positions /\ \A k : After(k)' = After(k) /\ At(k)' = At(k)
         /\ \A t : To(t)' = To(t) /\ On(t)' = On(t) /\ Tx(t)' = Tx(t)
         /\ \A e, t : /\ Mine(e, t)' = Mine(e, t) /\ Needs(e, t)' = Needs(e, t)
                      /\ Pending(e, t)' = Pending(e, t)
<1>1. Positions' = Positions /\ \A k : After(k)' = After(k) /\ At(k)' = At(k)
  BY DEF Positions, After, At
<1>2. \A t : To(t)' = To(t) /\ On(t)' = On(t) /\ Tx(t)' = Tx(t)
  BY <1>1 DEF To, On, Tx
<1>3. \A e, t : Mine(e, t)' = Mine(e, t)
  BY <1>1, <1>2 DEF Mine
<1>4. \A e, t : Needs(e, t)' = Needs(e, t) /\ Pending(e, t)' = Pending(e, t)
  BY <1>1, <1>2, <1>3 DEF Needs, Pending
<1> QED
  BY <1>1, <1>2, <1>3, <1>4

\* An account stays with its owner between the transactions on it.
LEMMA OwnerStays ==
  ASSUME log \in Logs, newScheduler \in Schedulers, NEW a \in Accounts,
         NEW i \in Nat, NEW j \in Nat, i <= j, j <= Len(log.txs),
         \A t \in Positions : i < t /\ t <= j => a \notin On(t)
  PROVE  At(j)[a] = At(i)[a]
<1> DEFINE Same(k) == At(k)[a] = At(i)[a]
           Good == {k \in Nat : i <= k /\ k <= j => Same(k)}
<1>1. Len(log.txs) \in Nat
  BY LogFacts
<1>2. ASSUME NEW k \in Nat, k \in Good, i <= k + 1, k + 1 <= j PROVE Same(k + 1)
  <2>1. CASE i = k + 1
    BY <2>1
  <2>2. CASE i <= k
    <3>1. k + 1 \in Positions /\ (k + 1) - 1 = k /\ a \notin On(k + 1)
      BY <1>1, <1>2, <2>2 DEF Positions
    <3>2. At(k + 1)[a] = At(k)[a]
      BY <3>1, ScheduleFacts DEF Gathered
    <3> QED
      BY <1>2, <2>2, <3>2
  <2> QED
    BY <1>2, <2>1, <2>2
<1>3. Nat \subseteq Good
  <2> HIDE DEF Same
  <2>1. 0 \in Good
    BY DEF Same
  <2>2. \A k \in Nat : k \in Good => k + 1 \in Good
    BY <1>2
  <2> HIDE DEF Good
  <2> QED
    BY <2>1, <2>2, InductionOnNat
<1> QED
  BY <1>3

-----------------------------------------------------------------------------
(* What an executor makes of the schedule *)

LEMMA PendingFacts ==
  ASSUME log \in Logs, newScheduler \in Schedulers, NEW e \in Executors, NEW t \in Positions
  PROVE  LET l == Pending(e, t).locality
         IN  /\ Pending(e, t) \in Pendings /\ Pending(e, t).tx = t /\ l.dest = To(t)
             /\ l.kind \in {"local", "in"} <=> To(t) = e
             /\ l.kind = "local" => Mine(e, t) = On(t)
             /\ To(t) = e => l.moved = On(t) \ Mine(e, t)
             /\ l.kind = "out" <=> To(t) # e /\ Mine(e, t) # {}
             /\ l.kind = "out" => l.moved = Mine(e, t)
             /\ l.kind = "others" <=> To(t) # e /\ Mine(e, t) = {}
             /\ PartitionAfter(At(t - 1), On(t), l) = At(t)
<1>1. PICK target, owner, accts, mine : /\ target = To(t) /\ owner = At(t - 1) /\ accts = On(t)
                                        /\ mine = Mine(e, t)
  OBVIOUS
<1>2. /\ target \in Executors /\ owner \in [Accounts -> Executors] /\ accts \subseteq Accounts
      /\ mine = {a \in accts : owner[a] = e} /\ At(t) = Gathered(owner, accts, target)
  BY <1>1, ScheduleFacts, TxFacts DEF Mine
<1>3. PICK l : l = Locality(e, owner, accts, target)
  OBVIOUS
<1>4. /\ l.dest = target
      /\ target = e /\ mine = accts => l = [kind |-> "local", moved |-> {}, dest |-> target]
      /\ target = e /\ mine # accts => l = [kind |-> "in", moved |-> accts \ mine, dest |-> target]
      /\ target # e /\ mine = {} => l = [kind |-> "others", moved |-> {}, dest |-> target]
      /\ target # e /\ mine # {} => l = [kind |-> "out", moved |-> mine, dest |-> target]
  BY <1>2, <1>3 DEF Locality
<1>5. Pending(e, t) = [tx |-> t, locality |-> l]
  BY <1>1, <1>3 DEF Pending
<1>6. Pending(e, t) \in Pendings
  <2>1. l \in Localities
    BY <1>2, <1>4 DEF Localities
  <2> QED
    BY <1>5, <2>1 DEF Pendings
<1>7. PartitionAfter(owner, accts, l) = Gathered(owner, accts, target)
  <2>1. CASE target = e /\ mine = accts
    <3>1. \A a \in accts : owner[a] = target
      BY <1>2, <2>1
    <3> QED
      BY <1>2, <1>4, <2>1, <3>1 DEF PartitionAfter, Gathered
  <2>2. CASE target = e /\ mine # accts
    <3>1. \A a \in accts : a \notin accts \ mine => owner[a] = target
      BY <1>2, <2>2
    <3> QED
      BY <1>2, <1>4, <2>2, <3>1 DEF PartitionAfter, Gathered
  <2>3. CASE target # e
    BY <1>4, <2>3 DEF PartitionAfter, Gathered
  <2> QED
    BY <2>1, <2>2, <2>3
<1> QED
  BY <1>1, <1>2, <1>4, <1>5, <1>6, <1>7

LEMMA NeedsFacts ==
  ASSUME log \in Logs, newScheduler \in Schedulers, NEW e \in Executors, NEW t \in Positions
  PROVE  /\ Mine(e, t) \subseteq On(t) /\ Mine(e, t) \subseteq Needs(e, t)
         /\ Needs(e, t) \subseteq On(t) /\ Needs(e, t) \subseteq Accounts
         /\ To(t) = e => Needs(e, t) = On(t)
         /\ To(t) # e => Needs(e, t) = Mine(e, t)
  BY TxFacts DEF Mine, Needs

\* What an executor has still to handle, and how far it has begun.
AheadFollows ==
  \A e \in Executors : \A h, k \in Nat : Progress(e, h, k) =>
    /\ Ahead(e) = {t \in Positions : t > h}
    /\ Begun(e) \in 1 .. NumBatches + 1
    /\ Until(e) \in Nat /\ Until(e) <= Len(log.txs) /\ h <= k /\ k <= Until(e)

LEMMA AheadIs == Shape => AheadFollows
<1> SUFFICES ASSUME Shape, NEW e \in Executors, NEW h \in Nat, NEW k \in Nat, Progress(e, h, k)
             PROVE  /\ Ahead(e) = {t \in Positions : t > h}
                    /\ Begun(e) \in 1 .. NumBatches + 1
                    /\ Until(e) \in Nat /\ Until(e) <= Len(log.txs) /\ h <= k /\ k <= Until(e)
  BY DEF AheadFollows
<1>1. NumBatches \in Nat /\ Len(log.txs) \in Nat /\ next[e] \in 1 .. NumBatches + 1
  BY LogFacts DEF Shape
<1>2. Begun(e) \in 1 .. NumBatches + 1
  BY <1>1 DEF Begun
<1>3. Until(e) \in Nat /\ Until(e) <= Len(log.txs)
  BY <1>2, LogFacts DEF Until, Shape
<1>4. PICK u : u = Until(e) /\ u \in Nat /\ u <= Len(log.txs)
  BY <1>3
<1>5. h <= k /\ k <= u /\ plan[e] = {Pending(e, t) : t \in h + 1 .. k} /\ batch[e] = k + 1 .. u
  BY <1>4 DEF Progress
<1>6. \A t : Pending(e, t).tx = t
  BY DEF Pending
<1>7. \A t : t \in {p.tx : p \in plan[e]} <=> t \in h + 1 .. k
  BY <1>5, <1>6
<1>8. \A t : t \in Ahead(e) <=> t \in h + 1 .. k \/ t \in k + 1 .. u \/ (t \in Positions /\ t > u)
  BY <1>4, <1>5, <1>7 DEF Ahead
<1>9. \A t : t \in Ahead(e) <=> t \in Positions /\ t > h
  BY <1>1, <1>4, <1>5, <1>8 DEF Positions
<1> QED
  BY <1>2, <1>4, <1>5, <1>9

LEMMA AheadOf ==
  ASSUME Shape, NEW e \in Executors, NEW h \in Nat, NEW k \in Nat, Progress(e, h, k)
  PROVE  /\ Ahead(e) = {t \in Positions : t > h}
         /\ Begun(e) \in 1 .. NumBatches + 1
         /\ Until(e) \in Nat /\ Until(e) <= Len(log.txs) /\ h <= k /\ k <= Until(e)
  BY AheadIs DEF AheadFollows

LEMMA ProgressSame ==
  ASSUME NEW e, UNCHANGED <<log, newScheduler>>, phase'[e] = phase[e], next'[e] = next[e],
         plan'[e] = plan[e], batch'[e] = batch[e], partition'[e] = partition[e],
         owners'[e] = owners[e], loads'[e] = loads[e]
  PROVE  /\ \A h, k : Progress(e, h, k) => Progress(e, h, k)'
         /\ Ahead(e)' = Ahead(e)
<1>1. Begun(e)' = Begun(e) /\ Until(e)' = Until(e)
  BY DEF Begun, Until, Start, NumBatches
<1>2. /\ \A k : After(k)' = After(k) /\ At(k)' = At(k)
      /\ \A t : Pending(e, t)' = Pending(e, t)
      /\ Positions' = Positions /\ NumBatches' = NumBatches
  BY ScheduleSame DEF NumBatches
<1>3. Ahead(e)' = Ahead(e)
  BY <1>1, <1>2 DEF Ahead
<1>4. ASSUME NEW h, NEW k, Progress(e, h, k) PROVE Progress(e, h, k)'
  <2>1. plan'[e] = {Pending(e, t)' : t \in h + 1 .. k}
    BY <1>2, <1>4 DEF Progress
  <2> QED
    BY <1>1, <1>2, <1>4, <2>1 DEF Progress
<1> QED
  BY <1>3, <1>4

\* Without a change of a store or message the accounts are where they were.
LEMMA AccountSame ==
  ASSUME AccountInv, UNCHANGED <<log, newScheduler, store, done>>, InFlight' = InFlight
  PROVE  AccountInv' /\ \A e, t : Finished(e, t)' <=> Finished(e, t)
<1>1. /\ Positions' = Positions /\ \A k : At(k)' = At(k)
      /\ \A t : To(t)' = To(t) /\ On(t)' = On(t)
      /\ \A e, t : Mine(e, t)' = Mine(e, t)
  BY ScheduleSame
<1>2. \A a, t : Away(a, t)' <=> Away(a, t)
  BY DEF Away
<1>3. \A e, t : Finished(e, t)' <=> Finished(e, t)
  BY <1>1, <1>2 DEF Finished
<1>4. \A a, k : Frontier(a, k)' <=> Frontier(a, k)
  BY <1>1 DEF Frontier
<1>5. \A m : Sent(m) => Sent(m)'
  BY <1>1, <1>2 DEF Sent, First
<1>6. AccountInv'
  BY <1>1, <1>4, <1>5 DEF AccountInv
<1> QED
  BY <1>3, <1>6

\* What changes no queue, store or message.
Stays ==
  /\ UNCHANGED <<log, newScheduler, queues, store, done>>
  /\ InFlight' = InFlight
  /\ \A f \in Executors : Ahead(f)' = Ahead(f)

LEMMA Staying ==
  ASSUME QueueInv, AccountInv, Stays
  PROVE  QueueInv' /\ AccountInv'
<1>1. /\ UNCHANGED <<log, newScheduler, queues, store, done>>
      /\ InFlight' = InFlight
      /\ \A f \in Executors : Ahead(f)' = Ahead(f)
  BY DEF Stays
<1>2. /\ Positions' = Positions
      /\ \A e, t : Needs(e, t)' = Needs(e, t) /\ Pending(e, t)' = Pending(e, t)
  BY <1>1, ScheduleSame
<1>3. AccountInv' /\ \A e, t : Finished(e, t)' <=> Finished(e, t)
  BY <1>1, AccountSame
<1>4. ASSUME NEW e \in Executors, NEW a \in Accounts PROVE InLine(e, a)' /\ Accounted(e, a)'
  <2>1. Ahead(e)' = Ahead(e) /\ queues'[e][a] = queues[e][a]
    BY <1>1
  <2>2. InLine(e, a) /\ Accounted(e, a)
    BY DEF QueueInv
  <2>3. InLine(e, a)'
    BY <1>2, <1>3, <2>1, <2>2 DEF InLine
  <2>4. Accounted(e, a)'
    BY <1>2, <1>3, <2>1, <2>2 DEF Accounted, Waits
  <2> QED
    BY <2>3, <2>4
<1> QED
  BY <1>3, <1>4 DEF QueueInv

Kept == Shape' /\ PlanInv' /\ PlaceInv' /\ Stays

-----------------------------------------------------------------------------
(* Steps that change no queue, store or message *)

SameProgress(f) ==
  /\ phase'[f] = phase[f] /\ next'[f] = next[f]
  /\ plan'[f] = plan[f] /\ batch'[f] = batch[f] /\ partition'[f] = partition[f]
  /\ owners'[f] = owners[f] /\ loads'[f] = loads[f]

LEMMA ProgressMade ==
  ASSUME Shape, PlanInv, Shape', UNCHANGED <<log, newScheduler>>, NEW e \in Executors,
         NEW h \in Nat, NEW k \in Nat, Progress(e, h, k)',
         \A f \in Executors \ {e} : SameProgress(f)
  PROVE  /\ PlanInv'
         /\ Ahead(e)' = {t \in Positions : t > h}
         /\ \A f \in Executors \ {e} : Ahead(f)' = Ahead(f)
<1>1. ASSUME NEW f \in Executors \ {e}
      PROVE  Ahead(f)' = Ahead(f) /\ \A i, j : Progress(f, i, j) => Progress(f, i, j)'
  <2>1. /\ phase'[f] = phase[f] /\ next'[f] = next[f]
        /\ plan'[f] = plan[f] /\ batch'[f] = batch[f] /\ partition'[f] = partition[f]
        /\ owners'[f] = owners[f] /\ loads'[f] = loads[f]
    BY DEF SameProgress
  <2> QED
    BY <2>1, ProgressSame
<1>2. PlanInv'
  <2> SUFFICES ASSUME NEW f \in Executors PROVE \E i, j \in Nat : Progress(f, i, j)'
    BY DEF PlanInv
  <2>1. CASE f = e
    BY <2>1
  <2>2. CASE f # e
    <3>1. PICK i \in Nat, j \in Nat : Progress(f, i, j)
      BY DEF PlanInv
    <3> QED
      BY <1>1, <2>2, <3>1
  <2> QED
    BY <2>1, <2>2
<1>3. AheadFollows'
  BY AheadIs, PTL
<1>4. Ahead(e)' = {t \in Positions' : t > h}
  BY <1>3 DEF AheadFollows
<1>5. Positions' = Positions
  BY DEF Positions
<1> QED
  BY <1>1, <1>2, <1>4, <1>5

\* No progress is made.
LEMMA NoProgress ==
  ASSUME PlanInv, UNCHANGED <<log, newScheduler>>, \A f \in Executors : SameProgress(f)
  PROVE  PlanInv' /\ \A f \in Executors : Ahead(f)' = Ahead(f)
<1>1. ASSUME NEW f \in Executors
      PROVE  Ahead(f)' = Ahead(f) /\ \E i, j \in Nat : Progress(f, i, j)'
  <2>1. /\ phase'[f] = phase[f] /\ next'[f] = next[f]
        /\ plan'[f] = plan[f] /\ batch'[f] = batch[f] /\ partition'[f] = partition[f]
        /\ owners'[f] = owners[f] /\ loads'[f] = loads[f]
    BY DEF SameProgress
  <2>2. PICK i \in Nat, j \in Nat : Progress(f, i, j)
    BY DEF PlanInv
  <2> QED
    BY <2>1, <2>2, ProgressSame
<1> QED
  BY <1>1 DEF PlanInv

LEMMA KeepsStarting ==
  ASSUME Inv, NEW e \in Executors, phase[e] = "idle", NEW s, s = next[e], s \in 1 .. NumBatches,
         StartBatch(e, s), inbox' \in [Executors -> SUBSET (1 .. NumBatches)],
         buffer' \in [Executors -> SUBSET (1 .. NumBatches)],
         UNCHANGED <<log, newScheduler, next, plan, partition, queues, store, net, incoming, drained,
                     todo, work, done, lost, gaps>>
  PROVE  Kept
<1>1. Shape /\ PlanInv /\ PlaceInv
  BY DEF Inv
<1>2. PICK h \in Nat, k \in Nat : Progress(e, h, k)
  BY <1>1 DEF PlanInv
<1>3. /\ Ahead(e) = {t \in Positions : t > h} /\ h = k /\ k = Until(e) /\ Begun(e) = s
      /\ After(k).batch = s /\ After(k).owners = At(k) /\ After(k).loads = NoLoad
      /\ partition[e] = At(k) /\ plan[e] = {Pending(e, t) : t \in h + 1 .. k}
  BY <1>1, <1>2, AheadOf DEF Progress, Begun
<1>4. /\ NumBatches \in Nat /\ s \in Nat /\ Start(s) = k /\ Start(s + 1) = log.ends[s]
      /\ Start(s) < log.ends[s] /\ log.ends[s] \in 1 .. Len(log.txs) /\ Len(log.txs) \in Nat
  BY <1>1, <1>3, LogFacts DEF Shape, Until
<1>5. /\ phase'[e] = "schedule" /\ batch'[e] = k + 1 .. log.ends[s]
      /\ owners'[e] = At(k) /\ loads'[e] = NoLoad
  BY <1>1, <1>3, <1>4 DEF Shape, StartBatch, Batch
<1>6. /\ phase' \in [Executors -> {"idle", "schedule", "execute", "incoming"}]
      /\ batch' \in [Executors -> SUBSET Positions]
      /\ owners' \in [Executors -> [Accounts -> Executors]]
      /\ loads' \in [Executors -> [Executors -> Nat]]
  <2>1. Batch(s) \subseteq Positions
    BY <1>2, <1>4 DEF Batch, Positions
  <2>2. NoLoad \in [Executors -> Nat]
    BY DEF NoLoad
  <2> QED
    BY <1>1, <2>1, <2>2 DEF Shape, StartBatch
<1>7. Shape'
  BY <1>1, <1>6 DEF Shape, Positions, Pendings, Localities, Transfers, Dispatched, NumBatches
<1>8. \A f \in Executors \ {e} : SameProgress(f)
  BY <1>1 DEF Shape, StartBatch, SameProgress
<1>9. Progress(e, k, k)'
  <2>1. NumBatches' = NumBatches /\ Begun(e)' = s + 1
    BY <1>4, <1>5 DEF NumBatches, Begun
  <2>2. Until(e)' = log.ends[s]
    BY <1>4, <2>1 DEF Until, Start
  <2>3. After(k)' = After(k) /\ At(k)' = At(k)
    BY ScheduleSame
  <2>4. plan'[e] = {Pending(e, t)' : t \in k + 1 .. k}
    BY <1>2, <1>3
  <2> QED
    BY <1>2, <1>3, <1>4, <1>5, <2>1, <2>2, <2>3, <2>4 DEF Progress
<1>10. PlanInv' /\ \A f \in Executors : Ahead(f)' = Ahead(f)
  BY <1>1, <1>2, <1>3, <1>7, <1>8, <1>9, ProgressMade
<1>11. PlaceInv' /\ InFlight' = InFlight
  <2>1. \A t : To(t)' = To(t)
    BY ScheduleSame
  <2> QED
    BY <1>1, <2>1 DEF PlaceInv, InFlight
<1> QED
  BY <1>7, <1>10, <1>11 DEF Kept, Stays

LEMMA KeepsReceiving ==
  ASSUME Inv, NEW e \in Executors, (\E s \in inbox[e] : ProcessExecute(e, s)) \/ ProcessBuffered(e)
  PROVE  Kept
<1>1. Shape /\ PlanInv /\ PlaceInv
  BY DEF Inv
<1>2. CASE ProcessBuffered(e)
  <2>1. next[e] \in 1 .. NumBatches
    BY <1>1, <1>2 DEF ProcessBuffered, Shape
  <2>2. PICK s : s = next[e]
    OBVIOUS
  <2>3. /\ phase[e] = "idle" /\ StartBatch(e, s)
        /\ UNCHANGED <<log, newScheduler, inbox, next, plan, partition, queues, store,
                       net, incoming, drained, todo, work, done, lost, gaps>>
    BY <1>2, <2>2 DEF ProcessBuffered, transferVars, lossVars
  <2>4. buffer' \in [Executors -> SUBSET (1 .. NumBatches)]
    BY <1>1, <1>2 DEF ProcessBuffered, Shape
  <2>5. inbox' \in [Executors -> SUBSET (1 .. NumBatches)]
    BY <1>1, <2>3 DEF Shape
  <2> QED
    BY <2>1, <2>2, <2>3, <2>4, <2>5, KeepsStarting
<1>3. CASE \E s \in inbox[e] : ProcessExecute(e, s)
  <2>1. PICK s \in inbox[e] : ProcessExecute(e, s)
    BY <1>3
  <2>2. s \in 1 .. NumBatches /\ inbox' \in [Executors -> SUBSET (1 .. NumBatches)]
    BY <1>1, <2>1 DEF ProcessExecute, Shape
  <2>3. UNCHANGED <<log, newScheduler, next, plan, partition, queues, store,
                    net, incoming, drained, todo, work, done, lost, gaps>>
    BY <2>1 DEF ProcessExecute, transferVars, lossVars
  <2>4. CASE s = next[e] /\ StartBatch(e, s) /\ buffer' = buffer
    <3>1. buffer' \in [Executors -> SUBSET (1 .. NumBatches)] /\ phase[e] = "idle"
      BY <1>1, <2>1, <2>4 DEF ProcessExecute, Shape
    <3> QED
      BY <2>2, <2>3, <2>4, <3>1, KeepsStarting
  <2>5. CASE /\ buffer' = [buffer EXCEPT ![e] = @ \cup {s}]
             /\ UNCHANGED <<phase, batch, owners, loads>>
    <3>1. buffer' \in [Executors -> SUBSET (1 .. NumBatches)]
      BY <1>1, <2>2, <2>5 DEF Shape
    <3>2. Shape'
      BY <1>1, <2>2, <2>3, <2>5, <3>1
         DEF Shape, Positions, Pendings, Localities, Transfers, Dispatched, NumBatches
    <3>3. \A f \in Executors : SameProgress(f)
      BY <2>3, <2>5 DEF SameProgress
    <3>4. PlanInv' /\ \A f \in Executors : Ahead(f)' = Ahead(f)
      BY <1>1, <2>3, <3>3, NoProgress
    <3>5. PlaceInv' /\ InFlight' = InFlight
      <4>1. \A t : To(t)' = To(t)
        BY <2>3, ScheduleSame
      <4> QED
        BY <1>1, <2>3, <4>1 DEF PlaceInv, InFlight
    <3> QED
      BY <2>3, <3>2, <3>4, <3>5 DEF Kept, Stays
  <2> QED
    BY <2>1, <2>4, <2>5 DEF ProcessExecute
<1> QED
  BY <1>2, <1>3

\* A transaction is scheduled.
LEMMA KeepsScheduling ==
  ASSUME Inv, NEW e \in Executors, ScheduleTransaction(e)
  PROVE  Kept
<1>1. Shape /\ PlanInv /\ PlaceInv
  BY DEF Inv
<1>2. PICK h \in Nat, k \in Nat : Progress(e, h, k)
  BY <1>1 DEF PlanInv
<1>3. /\ phase[e] = "schedule"
      /\ UNCHANGED <<log, newScheduler, inbox, next, buffer, queues, store, net, incoming, drained,
                     todo, work, done, lost, gaps>>
  BY DEF ScheduleTransaction, batchVars, transferVars, lossVars
<1>4. PICK s, u, l : s = next[e] /\ u = Until(e) /\ l = After(k)
  OBVIOUS
<1>5. /\ Ahead(e) = {t \in Positions : t > h} /\ h <= k /\ k < u /\ Begun(e) = s + 1
      /\ l.batch = s /\ owners[e] = l.owners /\ loads[e] = l.loads
      /\ partition[e] = At(k) /\ plan[e] = {Pending(e, t) : t \in h + 1 .. k}
      /\ batch[e] = k + 1 .. u /\ u \in Nat /\ u <= Len(log.txs) /\ s <= NumBatches
  <2>1. Ahead(e) = {t \in Positions : t > h} /\ u \in Nat /\ u <= Len(log.txs) /\ h <= k
    BY <1>1, <1>2, <1>4, AheadOf
  <2>2. /\ k < u /\ l.batch = s /\ owners[e] = l.owners /\ loads[e] = l.loads
        /\ partition[e] = At(k) /\ plan[e] = {Pending(e, t) : t \in h + 1 .. k}
        /\ batch[e] = k + 1 .. u /\ s <= NumBatches
    BY <1>2, <1>3, <1>4 DEF Progress
  <2>3. s \in 1 .. NumBatches + 1 /\ NumBatches \in Nat
    BY <1>1, <1>4, LogFacts DEF Shape
  <2>4. Begun(e) = s + 1
    BY <1>3, <1>4, <2>2, <2>3 DEF Begun
  <2> QED
    BY <2>1, <2>2, <2>4
<1>6. PICK t, order, target, locality :
        /\ t \in batch[e]
        /\ order \in Orders
        /\ target = IF newScheduler
                    THEN NewTarget(On(t), owners[e], loads[e], MaxAllowed(log.ends[s] - Start(s)), order)
                    ELSE owners[e][Tx(t).src]
        /\ locality = Locality(e, partition[e], On(t), target)
        /\ \A v \in batch[e] : t <= v
        /\ batch' = [batch EXCEPT ![e] = @ \ {t}]
        /\ plan' = [plan EXCEPT ![e] = @ \cup {[tx |-> t, locality |-> locality]}]
        /\ partition' = [partition EXCEPT ![e] = PartitionAfter(@, On(t), locality)]
        /\ \/ /\ newScheduler
              /\ owners' = [owners EXCEPT ![e] = [a \in Accounts |->
                             IF a \in On(t) THEN target ELSE @[a]]]
              /\ loads' = [loads EXCEPT ![e][target] = @ + 1]
           \/ /\ ~newScheduler
              /\ UNCHANGED <<owners, loads>>
        /\ phase' = [phase EXCEPT ![e] = IF batch'[e] = {} THEN "execute" ELSE @]
  <2>1. PICK t \in batch[e], order \in Orders :
          LET accts    == RequiredAccounts(Tx(t))
              size     == log.ends[next[e]] - Start(next[e])
              target   == IF newScheduler
                          THEN NewTarget(accts, owners[e], loads[e], MaxAllowed(size), order)
                          ELSE owners[e][Tx(t).src]
              locality == Locality(e, partition[e], accts, target)
          IN  /\ \A v \in batch[e] : t <= v
              /\ batch' = [batch EXCEPT ![e] = @ \ {t}]
              /\ plan' = [plan EXCEPT ![e] = @ \cup {[tx |-> t, locality |-> locality]}]
              /\ partition' = [partition EXCEPT ![e] = PartitionAfter(@, accts, locality)]
              /\ \/ /\ newScheduler
                    /\ owners' = [owners EXCEPT ![e] = [a \in Accounts |->
                                   IF a \in accts THEN target ELSE @[a]]]
                    /\ loads' = [loads EXCEPT ![e][target] = @ + 1]
                 \/ /\ ~newScheduler
                    /\ UNCHANGED <<owners, loads>>
    BY DEF ScheduleTransaction
  <2>2. PICK target, locality :
          /\ target = IF newScheduler
                      THEN NewTarget(On(t), owners[e], loads[e],
                                     MaxAllowed(log.ends[s] - Start(s)), order)
                      ELSE owners[e][Tx(t).src]
          /\ locality = Locality(e, partition[e], On(t), target)
    OBVIOUS
  <2>3. phase' = [phase EXCEPT ![e] = IF batch'[e] = {} THEN "execute" ELSE @]
    BY DEF ScheduleTransaction
  <2> QED
    BY <1>4, <2>1, <2>2, <2>3 DEF On
<1>7. /\ NumBatches \in Nat /\ s \in 1 .. NumBatches /\ Start(s + 1) = log.ends[s] /\ u = Start(s + 1)
      /\ Len(log.txs) \in Nat
  BY <1>1, <1>4, <1>5, LogFacts DEF Shape, Until
<1>8. t = k + 1 /\ t \in Positions /\ t - 1 = k /\ k \in 0 .. Len(log.txs) /\ t \in 0 .. Len(log.txs)
  <2>1. t \in k + 1 .. u /\ \A v \in k + 1 .. u : t <= v
    BY <1>5, <1>6
  <2>2. k + 1 \in k + 1 .. u /\ u \in Nat /\ u <= Len(log.txs)
    BY <1>2, <1>5
  <2>3. t = k + 1
    BY <1>2, <2>1, <2>2
  <2> QED
    BY <1>2, <1>5, <1>7, <2>2, <2>3 DEF Positions
<1>9. l \in Known /\ At(k) = l.partition
  BY <1>1, <1>4, <1>8, ScheduleFacts DEF At, Shape
<1>10. SizeOf(log, s) = log.ends[s] - Start(s)
  BY DEF SizeOf, BeforeBatch, Start
<1>11. target = To(t)
  <2>1. To(t) = IF newScheduler
                THEN NewTarget(On(t), l.owners, l.loads, MaxAllowed(SizeOf(log, s)), AnyOrder)
                ELSE l.owners[Tx(t).src]
    BY <1>4, <1>5, <1>8 DEF To, TargetIn, On, Tx
  <2>2. CASE newScheduler
    <3>1. IsFiniteSet(On(t)) /\ l.loads \in [Executors -> Nat] /\ Executors # {}
      BY <1>1, <1>8, <1>9, TxFacts DEF Known, Shape
    <3>2. PICK accts, max : accts = On(t) /\ max = MaxAllowed(SizeOf(log, s))
      OBVIOUS
    <3>3. NewTarget(accts, l.owners, l.loads, max, order) = NewTarget(accts, l.owners, l.loads, max, AnyOrder)
      <4>1. order \in Orders
        BY <1>6
      <4> QED
        BY <3>1, <3>2, <4>1, NewTargetIs
    <3> QED
      BY <1>5, <1>6, <1>10, <2>1, <2>2, <3>2, <3>3
  <2>3. CASE ~newScheduler
    BY <1>5, <1>6, <2>1, <2>3
  <2> QED
    BY <2>2, <2>3
<1>12. [tx |-> t, locality |-> locality] = Pending(e, t)
  BY <1>5, <1>6, <1>8, <1>11 DEF Pending
<1>13. /\ Pending(e, t) \in Pendings /\ PartitionAfter(At(k), On(t), Pending(e, t).locality) = At(t)
       /\ To(t) \in Executors /\ After(t) \in Known /\ At(t) \in [Accounts -> Executors]
       /\ After(t) = KnownAfter(log, newScheduler, t, l) /\ At(t) = Gathered(At(k), On(t), To(t))
  BY <1>1, <1>4, <1>8, PendingFacts, ScheduleFacts DEF Shape
<1>14. PICK p, moved : p = Pending(e, t) /\ moved = At(t)
  OBVIOUS
<1>15. partition'[e] = moved
  BY <1>1, <1>5, <1>6, <1>12, <1>13, <1>14 DEF Shape, Pending
<1>16. plan'[e] = {Pending(e, v) : v \in h + 1 .. t}
  <2>1. plan'[e] = {Pending(e, v) : v \in h + 1 .. k} \cup {p}
    BY <1>1, <1>5, <1>6, <1>12, <1>14 DEF Shape
  <2>2. \A x : x \in plan'[e] <=> \E v \in h + 1 .. t : x = Pending(e, v)
    <3>1. \A v : v \in h + 1 .. t <=> v \in h + 1 .. k \/ v = t
      BY <1>2, <1>5, <1>8
    <3> QED
      BY <1>14, <2>1, <3>1
  <2> QED
    BY <2>2
<1>17. batch'[e] = t + 1 .. u
  BY <1>1, <1>2, <1>5, <1>6, <1>8 DEF Shape
<1>18. phase'[e] = IF t = u THEN "execute" ELSE "schedule"
  <2>1. phase'[e] = IF batch'[e] = {} THEN "execute" ELSE "schedule"
    BY <1>1, <1>3, <1>6 DEF Shape
  <2>2. batch'[e] = {} <=> t = u
    <3>1. t \in Nat /\ u \in Nat /\ t <= u
      BY <1>2, <1>5, <1>8
    <3>2. t # u => u \in t + 1 .. u
      BY <3>1
    <3> QED
      BY <1>17, <3>1, <3>2
  <2> QED
    BY <2>1, <2>2
<1>19. owners'[e] = (IF newScheduler THEN Gathered(l.owners, On(t), To(t)) ELSE l.owners)
       /\ loads'[e] = (IF newScheduler THEN [l.loads EXCEPT ![To(t)] = @ + 1] ELSE l.loads)
  <2>1. owners \in [Executors -> [Accounts -> Executors]] /\ loads \in [Executors -> [Executors -> Nat]]
    BY <1>1 DEF Shape
  <2>2. CASE newScheduler
    <3>1. owners' = [owners EXCEPT ![e] = [a \in Accounts |->
                       IF a \in On(t) THEN target ELSE owners[e][a]]]
      BY <1>6, <2>1, <2>2
    <3>2. owners'[e] = Gathered(l.owners, On(t), To(t))
      BY <1>5, <1>11, <2>1, <3>1 DEF Gathered
    <3>3. loads' = [loads EXCEPT ![e] = [loads[e] EXCEPT ![target] = @ + 1]]
      BY <1>6, <2>1, <2>2
    <3>4. loads'[e] = [l.loads EXCEPT ![To(t)] = @ + 1]
      BY <1>5, <1>11, <2>1, <3>3
    <3> QED
      BY <2>2, <3>2, <3>4
  <2>3. CASE ~newScheduler
    BY <1>5, <1>6, <2>3
  <2> QED
    BY <2>2, <2>3
<1>20. After(t) = IF t = u
                  THEN [partition |-> moved, owners |-> moved, loads |-> NoLoad, batch |-> s + 1]
                  ELSE [partition |-> moved, owners |-> owners'[e], loads |-> loads'[e], batch |-> s]
  <2>1. TargetIn(log, newScheduler, t, l) = To(t)
    BY <1>4, <1>8 DEF To
  <2>2. RequiredAccounts(log.txs[t]) = On(t)
    BY DEF On, Tx
  <2>3. Gathered(l.partition, On(t), To(t)) = moved
    BY <1>9, <1>13, <1>14
  <2>4. PICK own, load : /\ own = (IF newScheduler THEN Gathered(l.owners, On(t), To(t)) ELSE l.owners)
                         /\ load = (IF newScheduler THEN [l.loads EXCEPT ![To(t)] = @ + 1] ELSE l.loads)
    OBVIOUS
  <2>5. KnownAfter(log, newScheduler, t, l)
          = IF t = log.ends[s]
            THEN [partition |-> moved, owners |-> moved, loads |-> NoLoad, batch |-> s + 1]
            ELSE [partition |-> moved, owners |-> own, loads |-> load, batch |-> s]
    BY <1>5, <2>1, <2>2, <2>3, <2>4 DEF KnownAfter
  <2> QED
    BY <1>7, <1>13, <1>19, <2>4, <2>5
<1>21. Shape'
  <2>1. owners'[e] \in [Accounts -> Executors] /\ loads'[e] \in [Executors -> Nat]
    BY <1>9, <1>13, <1>19 DEF Known, Gathered
  <2>2. owners' \in [Executors -> [Accounts -> Executors]] /\ loads' \in [Executors -> [Executors -> Nat]]
    BY <1>1, <1>6, <2>1 DEF Shape
  <2>3. partition' \in [Executors -> [Accounts -> Executors]]
    BY <1>1, <1>6, <1>13, <1>14, <1>15 DEF Shape
  <2>4. plan' \in [Executors -> SUBSET Pendings] /\ batch' \in [Executors -> SUBSET Positions]
    <3>1. plan' \in [Executors -> SUBSET Pendings]
      BY <1>1, <1>6, <1>12, <1>13 DEF Shape
    <3>2. batch' \in [Executors -> SUBSET Positions]
      BY <1>1, <1>6 DEF Shape
    <3> QED
      BY <3>1, <3>2
  <2>5. phase' \in [Executors -> {"idle", "schedule", "execute", "incoming"}]
    BY <1>1, <1>6 DEF Shape
  <2> QED
    BY <1>1, <1>3, <2>2, <2>3, <2>4, <2>5
       DEF Shape, Positions, Pendings, Localities, Transfers, Dispatched, NumBatches
<1>22. \A f \in Executors \ {e} : SameProgress(f)
  BY <1>1, <1>3, <1>6 DEF Shape, SameProgress
<1>23. Progress(e, h, t)'
  <2>1. NumBatches' = NumBatches /\ Begun(e)' = s + 1
    BY <1>3, <1>4, <1>5, <1>7, <1>18 DEF NumBatches, Begun
  <2>2. Until(e)' = u
    BY <1>3, <1>7, <2>1 DEF Until, Start
  <2>3. /\ After(t)' = After(t) /\ At(t)' = moved /\ next'[e] = s
        /\ plan'[e] = {Pending(e, v)' : v \in h + 1 .. t}
    BY <1>3, <1>4, <1>14, <1>16, ScheduleSame
  <2>4. h \in 0 .. t /\ t \in 0 .. u
    BY <1>2, <1>5, <1>8
  <2>5. CASE t = u
    <3>1. /\ After(t).batch = s + 1 /\ After(t).owners = moved /\ After(t).loads = NoLoad
          /\ phase'[e] = "execute"
      BY <1>18, <1>20, <2>5
    <3> QED
      BY <1>5, <1>15, <1>17, <2>1, <2>2, <2>3, <2>4, <2>5, <3>1 DEF Progress
  <2>6. CASE t # u
    <3>1. /\ After(t).batch = s /\ After(t).owners = owners'[e] /\ After(t).loads = loads'[e]
          /\ phase'[e] = "schedule" /\ t < u
      BY <1>2, <1>5, <1>8, <1>18, <1>20, <2>6
    <3> QED
      BY <1>5, <1>15, <1>17, <2>1, <2>2, <2>3, <2>4, <2>6, <3>1 DEF Progress
  <2> QED
    BY <2>5, <2>6
<1>24. PlanInv' /\ \A f \in Executors : Ahead(f)' = Ahead(f)
  <2>1. t \in Nat
    BY <1>2, <1>8
  <2> QED
    BY <1>1, <1>2, <1>3, <1>5, <1>21, <1>22, <1>23, <2>1, ProgressMade
<1>25. PlaceInv' /\ InFlight' = InFlight
  <2>1. \A v : To(v)' = To(v)
    BY <1>3, ScheduleSame
  <2> QED
    BY <1>1, <1>3, <2>1 DEF PlaceInv, InFlight
<1> QED
  BY <1>3, <1>21, <1>24, <1>25 DEF Kept, Stays

\* An executor turns from one part of a batch to the next.
LEMMA TurnProgress ==
  ASSUME Inv, Shape', NEW e \in Executors, phase[e] # "schedule", plan[e] = {},
         phase'[e] \in {"idle", "incoming"}, Begun(e)' = Begun(e),
         UNCHANGED <<log, newScheduler, plan, batch, partition, owners, loads>>,
         \A f \in Executors \ {e} : phase'[f] = phase[f] /\ next'[f] = next[f]
  PROVE  PlanInv' /\ \A f \in Executors : Ahead(f)' = Ahead(f)
<1>1. Shape /\ PlanInv
  BY DEF Inv
<1>2. PICK h \in Nat, k \in Nat : Progress(e, h, k)
  BY <1>1 DEF PlanInv
<1>3. /\ Ahead(e) = {t \in Positions : t > h} /\ h <= k
  BY <1>1, <1>2, AheadOf
<1>4. /\ plan[e] = {Pending(e, t) : t \in h + 1 .. k} /\ batch[e] = k + 1 .. Until(e)
      /\ partition[e] = At(k) /\ k = Until(e) /\ After(k).batch = Begun(e)
      /\ After(k).owners = At(k) /\ After(k).loads = NoLoad
  BY <1>2 DEF Progress
<1>5. h = k
  <2>1. h < k => k \in h + 1 .. k
    BY <1>2
  <2>2. ~(h < k)
    BY <1>4, <2>1
  <2> QED
    BY <1>2, <1>3, <2>2
<1>6. Progress(e, k, k)'
  <2>1. Until(e)' = Until(e)
    BY DEF Until, Start
  <2>2. After(k)' = After(k) /\ At(k)' = At(k)
    BY ScheduleSame
  <2>3. plan'[e] = {Pending(e, t)' : t \in k + 1 .. k}
    BY <1>2
  <2>4. k \in 0 .. k /\ k \in 0 .. Until(e)
    BY <1>2, <1>4
  <2> QED
    BY <1>4, <2>1, <2>2, <2>3, <2>4 DEF Progress
<1>7. \A f \in Executors \ {e} : SameProgress(f)
  BY DEF SameProgress
<1> QED
  BY <1>1, <1>2, <1>3, <1>5, <1>6, <1>7, ProgressMade

LEMMA KeepsDraining ==
  ASSUME Inv, NEW e \in Executors, EndOfTransactions(e) \/ QuietBatch(e)
  PROVE  Kept
<1>1. Shape /\ PlanInv /\ PlaceInv /\ AccountInv
  BY DEF Inv
<1>2. /\ drained' = [drained EXCEPT ![e] = @ \cup incoming[e]]
      /\ incoming' = [incoming EXCEPT ![e] = {}]
      /\ todo' = [todo EXCEPT ![e] = {m.tx : m \in drained'[e]}]
      /\ phase' = [phase EXCEPT ![e] = "incoming"]
      /\ UNCHANGED <<log, newScheduler, inbox, next, buffer, batch, owners, loads, plan, partition,
                     queues, store, net, work, done, lost, gaps>>
  BY DEF EndOfTransactions, QuietBatch, DrainIncoming, batchVars, schedulerVars, lossVars
<1>3. drained'[e] = drained[e] \cup incoming[e] /\ drained'[e] \subseteq Transfers /\ phase'[e] = "incoming"
  BY <1>1, <1>2 DEF Shape
<1>4. \A m \in drained'[e] : m.tx \in Positions /\ To(m.tx) = e
  <2> SUFFICES ASSUME NEW m \in drained'[e] PROVE m.tx \in Positions /\ To(m.tx) = e
    OBVIOUS
  <2>1. m \in InFlight /\ m.to = e /\ m \in Transfers
    BY <1>1, <1>3 DEF InFlight, PlaceInv
  <2> QED
    BY <1>1, <2>1 DEF AccountInv, Sent, Transfers, Positions
<1>5. Shape'
  <2>1. /\ drained' \in [Executors -> SUBSET Transfers] /\ incoming' \in [Executors -> SUBSET Transfers]
        /\ todo' \in [Executors -> SUBSET Positions]
        /\ phase' \in [Executors -> {"idle", "schedule", "execute", "incoming"}]
    BY <1>1, <1>2, <1>3, <1>4 DEF Shape
  <2> QED
    BY <1>1, <1>2, <2>1 DEF Shape, Positions, Pendings, Localities, Transfers, Dispatched, NumBatches
<1>6. phase[e] # "schedule" /\ plan[e] = {} /\ Begun(e)' = Begun(e)
  <2>1. CASE EndOfTransactions(e)
    <3>1. phase[e] = "execute" /\ plan[e] = {}
      BY <2>1 DEF EndOfTransactions
    <3> QED
      BY <1>2, <1>3, <3>1 DEF Begun, NumBatches
  <2>2. CASE QuietBatch(e)
    <3>1. phase[e] = "idle" /\ next[e] > NumBatches
      BY <2>2 DEF QuietBatch
    <3>2. PICK h \in Nat, k \in Nat : Progress(e, h, k)
      BY <1>1 DEF PlanInv
    <3>3. plan[e] = {Pending(e, t) : t \in k + 1 .. k}
      BY <3>1, <3>2 DEF Progress
    <3>4. plan[e] = {}
      BY <3>2, <3>3
    <3> QED
      BY <1>2, <1>3, <3>1, <3>4 DEF Begun, NumBatches
  <2> QED
    BY <2>1, <2>2
<1>7. \A f \in Executors \ {e} : phase'[f] = phase[f] /\ next'[f] = next[f]
  BY <1>1, <1>2 DEF Shape
<1>8. PlanInv' /\ \A f \in Executors : Ahead(f)' = Ahead(f)
  BY <1>2, <1>3, <1>5, <1>6, <1>7, TurnProgress
<1>9. /\ \A f \in Executors \ {e} : /\ drained'[f] = drained[f] /\ incoming'[f] = incoming[f]
                                    /\ todo'[f] = todo[f]
      /\ incoming'[e] = {} /\ todo'[e] = {m.tx : m \in drained'[e]}
  BY <1>1, <1>2 DEF Shape
<1>10. PlaceInv'
  <2>1. \A t : To(t)' = To(t)
    BY <1>2, ScheduleSame
  <2>2. ASSUME NEW f \in Executors
        PROVE  /\ \A m \in incoming'[f] \cup drained'[f] : m.to = f /\ m \notin net \cup lost
               /\ incoming'[f] \cap drained'[f] = {}
               /\ \A t \in todo'[f] : To(t)' = f
    BY <1>1, <1>3, <1>4, <1>9, <2>1 DEF PlaceInv
  <2> QED
    BY <1>1, <1>2, <2>2 DEF PlaceInv
<1>11. InFlight' = InFlight
  <2>1. \A f \in Executors : incoming'[f] \cup drained'[f] = incoming[f] \cup drained[f]
    BY <1>3, <1>9
  <2> QED
    BY <1>2, <2>1 DEF InFlight
<1> QED
  BY <1>2, <1>5, <1>8, <1>10, <1>11 DEF Kept, Stays

LEMMA KeepsFinishing ==
  ASSUME Inv, NEW e \in Executors, FinishBatch(e)
  PROVE  Kept
<1>1. Shape /\ PlanInv /\ PlaceInv /\ NumBatches \in Nat
  BY LogFacts DEF Inv, Shape
<1>2. /\ phase[e] = "incoming"
      /\ next' = [next EXCEPT ![e] = IF @ > NumBatches THEN @ ELSE @ + 1]
      /\ phase' = [phase EXCEPT ![e] = "idle"]
      /\ UNCHANGED <<log, newScheduler, inbox, buffer, batch, owners, loads, plan, partition, queues,
                     store, net, incoming, drained, todo, work, done, lost, gaps>>
  BY DEF FinishBatch, schedulerVars, transferVars, lossVars
<1>3. next[e] \in 1 .. NumBatches + 1
  BY <1>1 DEF Shape
<1>4. /\ phase'[e] = "idle" /\ next'[e] = (IF next[e] > NumBatches THEN next[e] ELSE next[e] + 1)
      /\ next'[e] \in 1 .. NumBatches + 1
      /\ \A f \in Executors \ {e} : phase'[f] = phase[f] /\ next'[f] = next[f]
  BY <1>1, <1>2, <1>3 DEF Shape
<1>5. Shape'
  <2>1. /\ next' \in [Executors -> 1 .. NumBatches + 1]
        /\ phase' \in [Executors -> {"idle", "schedule", "execute", "incoming"}]
    BY <1>1, <1>2, <1>4 DEF Shape
  <2> QED
    BY <1>1, <1>2, <2>1 DEF Shape, Positions, Pendings, Localities, Transfers, Dispatched, NumBatches
<1>6. plan[e] = {}
  <2>1. PICK h \in Nat, k \in Nat : Progress(e, h, k)
    BY <1>1 DEF PlanInv
  <2>2. plan[e] = {Pending(e, t) : t \in k + 1 .. k}
    BY <1>2, <2>1 DEF Progress
  <2> QED
    BY <2>1, <2>2
<1>7. Begun(e)' = Begun(e)
  BY <1>2, <1>4 DEF Begun, NumBatches
<1>8. PlanInv' /\ \A f \in Executors : Ahead(f)' = Ahead(f)
  BY <1>2, <1>4, <1>5, <1>6, <1>7, TurnProgress
<1>9. PlaceInv' /\ InFlight' = InFlight
  <2>1. \A t : To(t)' = To(t)
    BY <1>2, ScheduleSame
  <2> QED
    BY <1>1, <1>2, <2>1 DEF PlaceInv, InFlight
<1> QED
  BY <1>2, <1>5, <1>8, <1>9 DEF Kept, Stays

\* Batches come and get lost: the rest stays.
LEMMA KeepsOutside ==
  ASSUME Inv, inbox' \in [Executors -> SUBSET (1 .. NumBatches)],
         gaps' \subseteq Executors \X Dispatched, UNCHANGED executorVars
  PROVE  Kept
<1>1. Shape /\ PlanInv /\ PlaceInv
  BY DEF Inv
<1>2. UNCHANGED <<log, newScheduler, next, buffer, phase, batch, owners, loads, plan, partition,
                  queues, store, net, incoming, drained, todo, work, done, lost>>
  BY DEF executorVars, schedulerVars, transferVars
<1>3. Shape'
  BY <1>1, <1>2 DEF Shape, Positions, Pendings, Localities, Transfers, Dispatched, NumBatches
<1>4. \A f \in Executors : SameProgress(f)
  BY <1>2 DEF SameProgress
<1>5. PlanInv' /\ \A f \in Executors : Ahead(f)' = Ahead(f)
  BY <1>1, <1>2, <1>4, NoProgress
<1>6. PlaceInv' /\ InFlight' = InFlight
  <2>1. \A t : To(t)' = To(t)
    BY <1>2, ScheduleSame
  <2> QED
    BY <1>1, <1>2, <2>1 DEF PlaceInv, InFlight
<1> QED
  BY <1>2, <1>3, <1>5, <1>6 DEF Kept, Stays

LEMMA KeepsNetwork ==
  ASSUME Inv, NetworkStep
  PROVE  Kept
<1>1. Shape /\ PlanInv /\ PlaceInv
  BY DEF Inv
<1>2. CASE \E e \in Executors : \E s \in inbox[e] : LoseExecute(e, s)
  <2>1. PICK e \in Executors : \E s \in inbox[e] : LoseExecute(e, s)
    BY <1>2
  <2>2. PICK s \in inbox[e] : LoseExecute(e, s)
    BY <2>1
  <2>3. /\ inbox' = [inbox EXCEPT ![e] = @ \ {s}] /\ gaps' = gaps \cup {<<e, s>>}
        /\ UNCHANGED executorVars
    BY <2>2 DEF LoseExecute, executorVars
  <2>4. /\ inbox' \in [Executors -> SUBSET (1 .. NumBatches)] /\ gaps' \subseteq Executors \X Dispatched
    BY <1>1, <2>3 DEF Shape, Dispatched
  <2> QED
    BY <2>3, <2>4, KeepsOutside
<1>3. CASE \E m \in net : DeliverTransfer(m) \/ LoseTransfer(m)
  <2>1. PICK m \in net : DeliverTransfer(m) \/ LoseTransfer(m)
    BY <1>3
  <2>2. /\ net' = net \ {m}
        /\ \/ incoming' = [incoming EXCEPT ![m.to] = @ \cup {m}] /\ lost' = lost
           \/ incoming' = incoming /\ lost' = lost \cup {m}
        /\ UNCHANGED <<log, newScheduler, inbox, next, buffer, phase, batch, owners, loads, plan,
                       partition, queues, store, drained, todo, work, done, gaps>>
    BY <2>1 DEF DeliverTransfer, LoseTransfer, batchVars, schedulerVars, lossVars
  <2>3. m \in Transfers /\ m.to \in Executors
    BY <1>1 DEF Shape, Transfers
  <2>4. /\ net' \subseteq Transfers /\ lost' \subseteq Transfers
        /\ incoming' \in [Executors -> SUBSET Transfers]
    <3>1. net \subseteq Transfers /\ lost \subseteq Transfers /\ incoming \in [Executors -> SUBSET Transfers]
      BY <1>1 DEF Shape
    <3>2. CASE incoming' = [incoming EXCEPT ![m.to] = @ \cup {m}] /\ lost' = lost
      BY <2>2, <2>3, <3>1, <3>2
    <3>3. CASE incoming' = incoming /\ lost' = lost \cup {m}
      BY <2>2, <2>3, <3>1, <3>3
    <3> QED
      BY <2>2, <3>2, <3>3
  <2>5. Shape'
    BY <1>1, <2>2, <2>4 DEF Shape, Positions, Pendings, Localities, Transfers, Dispatched, NumBatches
  <2>6. \A f \in Executors : SameProgress(f)
    BY <2>2 DEF SameProgress
  <2>7. PlanInv' /\ \A f \in Executors : Ahead(f)' = Ahead(f)
    BY <1>1, <2>2, <2>6, NoProgress
  <2>8. \A f \in Executors : m \notin incoming[f] \cup drained[f]
    BY <1>1 DEF PlaceInv
  <2>9. PICK e \in Executors : e = m.to
    BY <2>3
  <2>10. CASE incoming' = [incoming EXCEPT ![m.to] = @ \cup {m}] /\ lost' = lost
    <3>1. /\ incoming'[e] = incoming[e] \cup {m}
          /\ \A f \in Executors \ {e} : incoming'[f] = incoming[f]
      BY <1>1, <2>9, <2>10 DEF Shape
    <3>2. PlaceInv'
      <4>1. \A t : To(t)' = To(t)
        BY <2>2, ScheduleSame
      <4>2. ASSUME NEW f \in Executors
            PROVE  /\ \A n \in incoming'[f] \cup drained[f] : n.to = f /\ n \notin net' \cup lost
                   /\ incoming'[f] \cap drained[f] = {}
                   /\ \A t \in todo[f] : To(t)' = f
        <5>1. CASE f = e
          BY <1>1, <2>2, <2>8, <2>9, <3>1, <4>1, <5>1 DEF PlaceInv
        <5>2. CASE f # e
          BY <1>1, <2>2, <3>1, <4>1, <5>2 DEF PlaceInv
        <5> QED
          BY <5>1, <5>2
      <4> QED
        BY <1>1, <2>2, <2>10, <4>2 DEF PlaceInv
    <3>3. InFlight' = InFlight
      <4>1. \A n : n \in InFlight' <=> n \in InFlight
        BY <2>2, <2>10, <3>1 DEF InFlight
      <4> QED
        BY <4>1
    <3> QED
      BY <2>2, <2>5, <2>7, <3>2, <3>3 DEF Kept, Stays
  <2>11. CASE incoming' = incoming /\ lost' = lost \cup {m}
    <3>1. PlaceInv'
      <4>1. \A t : To(t)' = To(t)
        BY <2>2, ScheduleSame
      <4>2. \A f \in Executors : \A n \in incoming[f] \cup drained[f] : n # m
        BY <2>8
      <4> QED
        BY <1>1, <2>2, <2>11, <4>1, <4>2 DEF PlaceInv
    <3>2. InFlight' = InFlight
      BY <2>2, <2>11 DEF InFlight
    <3> QED
      BY <2>2, <2>5, <2>7, <3>1, <3>2 DEF Kept, Stays
  <2> QED
    BY <2>2, <2>10, <2>11
<1> QED
  BY <1>2, <1>3 DEF NetworkStep

\* The accounts stay as they are, and the transactions executed.
NothingHappens ==
  /\ UNCHANGED <<log, done>>
  /\ \A a \in Accounts : CurrentState(a)' = CurrentState(a)

LEMMA KeptIsSerial ==
  ASSUME Inv, Kept
  PROVE  Inv' /\ NothingHappens
<1>1. QueueInv' /\ AccountInv'
  BY Staying DEF Inv, Kept
<1>2. UNCHANGED <<log, done, store>> /\ InFlight' = InFlight
  BY DEF Kept, Stays
<1>3. \A a \in Accounts : CurrentState(a)' = CurrentState(a)
  BY <1>2 DEF CurrentState
<1> QED
  BY <1>1, <1>2, <1>3 DEF Inv, Kept, NothingHappens

-----------------------------------------------------------------------------
(* The queues *)

LEMMA QueueFacts ==
  ASSUME Shape, NEW e \in Executors, NEW a \in Accounts
  PROVE  /\ queues[e][a] \in Seq(Pendings) /\ Len(queues[e][a]) \in Nat
         /\ DOMAIN queues[e][a] = 1 .. Len(queues[e][a])
         /\ \A i \in DOMAIN queues[e][a] : queues[e][a][i].tx \in Positions /\ queues[e][a][i].tx \in Nat
         /\ \A t : AtHead(e, a, t) => 1 \in DOMAIN queues[e][a] /\ queues[e][a][1].tx = t
<1>1. queues[e][a] \in Seq(Pendings)
  BY DEF Shape
<1>2. \A p \in Positions : p \in Nat
  BY LogFacts DEF Shape, Positions
<1>3. \A p \in Pendings : p.tx \in Positions
  BY DEF Pendings
<1> QED
  BY <1>1, <1>2, <1>3 DEF AtHead

\* The first transaction of a queue is there once, and before all the others.
LEMMA HeadFacts ==
  ASSUME Shape, NEW e \in Executors, NEW a \in Accounts, InLine(e, a), NEW t, AtHead(e, a, t)
  PROVE  /\ t \in Positions /\ Head(queues[e][a]) = Pending(e, t)
         /\ a \in Needs(e, t) /\ t \notin Ahead(e) /\ ~Finished(e, t) /\ t \notin done
         /\ \A u : Waits(e, a, u) => t = u \/ t < u
<1>1. PICK q : q = queues[e][a]
  OBVIOUS
<1>2. /\ q \in Seq(Pendings) /\ Len(q) \in Nat /\ DOMAIN q = 1 .. Len(q)
      /\ \A i \in DOMAIN q : q[i].tx \in Positions /\ q[i].tx \in Nat
      /\ 1 \in DOMAIN q /\ q[1].tx = t
  BY <1>1, QueueFacts
<1>3. /\ \A i \in DOMAIN q : /\ q[i] = Pending(e, q[i].tx)
                             /\ a \in Needs(e, q[i].tx) /\ q[i].tx \notin Ahead(e)
                             /\ ~Finished(e, q[i].tx)
      /\ \A i, j \in DOMAIN q : i < j => q[i].tx < q[j].tx
  BY <1>1 DEF InLine
<1>4. Head(q) = q[1]
  BY <1>2
<1>5. \A i \in DOMAIN q : i = 1 \/ t < q[i].tx
  BY <1>2, <1>3
<1>6. ~Finished(e, t)
  BY <1>2, <1>3
<1>7. t \notin done
  BY <1>6 DEF Finished
<1> QED
  BY <1>1, <1>2, <1>3, <1>4, <1>5, <1>6, <1>7 DEF Waits

\* What waits is behind the first of the queue.
LEMMA HeadWaits ==
  ASSUME Shape, NEW e \in Executors, NEW a \in Accounts, NEW t, Waits(e, a, t)
  PROVE  /\ queues[e][a] # << >> /\ AtHead(e, a, Head(queues[e][a]).tx)
<1>1. queues[e][a] \in Seq(Pendings) /\ queues[e][a] # << >>
  BY QueueFacts DEF Waits
<1> QED
  BY <1>1 DEF AtHead

\* An executor's part in any other transaction is as it was.
Beside(f, t) ==
  \A u \in Positions : u # t => /\ u \in Ahead(f)' <=> u \in Ahead(f)
                                /\ Finished(f, u)' <=> Finished(f, u)

LEMMA RestKeeps ==
  ASSUME NEW f \in Executors, NEW a \in Accounts, NEW t, InLine(f, a), Accounted(f, a), Beside(f, t),
         UNCHANGED <<log, newScheduler>>, queues'[f][a] = queues[f][a],
         \/ t \notin Positions
         \/ a \notin Needs(f, t)
         \/ (t \in Ahead(f)' <=> t \in Ahead(f)) /\ (Finished(f, t)' <=> Finished(f, t))
         \/ ~Waits(f, a, t) /\ t \notin Ahead(f)' /\ Finished(f, t)'
  PROVE  InLine(f, a)' /\ Accounted(f, a)'
<1>1. /\ Positions' = Positions
      /\ \A u : Needs(f, u)' = Needs(f, u) /\ Pending(f, u)' = Pending(f, u)
  BY ScheduleSame
<1>2. PICK q : q = queues[f][a] /\ q = queues'[f][a]
  OBVIOUS
<1>3. \A i \in DOMAIN q : /\ q[i].tx \in Positions /\ q[i] = Pending(f, q[i].tx)
                          /\ a \in Needs(f, q[i].tx) /\ q[i].tx \notin Ahead(f)
                          /\ ~Finished(f, q[i].tx)
  BY <1>2 DEF InLine
<1>4. \A i, j \in DOMAIN q : i < j => q[i].tx < q[j].tx
  BY <1>2 DEF InLine
<1>5. \A i \in DOMAIN q : q[i].tx \notin Ahead(f)' /\ ~Finished(f, q[i].tx)'
  <2> SUFFICES ASSUME NEW i \in DOMAIN q PROVE q[i].tx \notin Ahead(f)' /\ ~Finished(f, q[i].tx)'
    OBVIOUS
  <2>1. CASE q[i].tx = t
    <3>1. Waits(f, a, t)
      BY <1>2, <2>1 DEF Waits
    <3> QED
      BY <1>3, <2>1, <3>1
  <2>2. CASE q[i].tx # t
    BY <1>3, <2>2 DEF Beside
  <2> QED
    BY <2>1, <2>2
<1>6. ASSUME NEW u \in Positions, a \in Needs(f, u)
      PROVE  IF u \in Ahead(f)' THEN ~Finished(f, u)'
             ELSE Finished(f, u)' \/ \E i \in DOMAIN q : q[i].tx = u
  <2>1. IF u \in Ahead(f) THEN ~Finished(f, u)
        ELSE Finished(f, u) \/ \E i \in DOMAIN q : q[i].tx = u
    BY <1>2, <1>6 DEF Accounted, Waits
  <2>2. CASE u = t
    BY <1>6, <2>1, <2>2
  <2>3. CASE u # t
    BY <2>1, <2>3 DEF Beside
  <2> QED
    BY <2>2, <2>3
<1>7. InLine(f, a)'
  BY <1>1, <1>2, <1>3, <1>4, <1>5 DEF InLine
<1>8. Accounted(f, a)'
  BY <1>1, <1>2, <1>6 DEF Accounted, Waits
<1> QED
  BY <1>7, <1>8

\* The next transaction joins a queue.
LEMMA AppendKeeps ==
  ASSUME Shape, NEW f \in Executors, NEW a \in Accounts, NEW t \in Positions,
         InLine(f, a), Accounted(f, a), Beside(f, t),
         UNCHANGED <<log, newScheduler>>, queues'[f][a] = Append(queues[f][a], Pending(f, t)),
         a \in Needs(f, t), \A u \in Positions : u \notin Ahead(f) => u < t,
         t \notin Ahead(f)', ~Finished(f, t)'
  PROVE  InLine(f, a)' /\ Accounted(f, a)'
<1>1. /\ Positions' = Positions
      /\ \A u : Needs(f, u)' = Needs(f, u) /\ Pending(f, u)' = Pending(f, u)
  BY ScheduleSame
<1>2. PICK q, r, p : q = queues[f][a] /\ r = queues'[f][a] /\ p = Pending(f, t)
  OBVIOUS
<1>3. /\ q \in Seq(Pendings) /\ Len(q) \in Nat /\ DOMAIN q = 1 .. Len(q)
      /\ \A i \in DOMAIN q : q[i].tx \in Nat
  BY <1>2, QueueFacts
<1>4. /\ r = Append(q, p) /\ DOMAIN r = 1 .. Len(q) + 1 /\ r[Len(q) + 1] = p /\ p.tx = t
      /\ \A i \in DOMAIN q : i \in DOMAIN r /\ r[i] = q[i]
      /\ \A i \in DOMAIN r : i = Len(q) + 1 \/ i \in DOMAIN q
  BY <1>2, <1>3 DEF Pending
<1>5. \A i \in DOMAIN q : /\ q[i].tx \in Positions /\ q[i] = Pending(f, q[i].tx)
                          /\ a \in Needs(f, q[i].tx) /\ q[i].tx \notin Ahead(f)
                          /\ ~Finished(f, q[i].tx)
  BY <1>2 DEF InLine
<1>6. \A i, j \in DOMAIN q : i < j => q[i].tx < q[j].tx
  BY <1>2 DEF InLine
<1>7. \A i \in DOMAIN q : q[i].tx < t
  BY <1>5
<1>8. t \in Nat
  BY TxFacts DEF Shape
<1>9. \A i \in DOMAIN q : q[i].tx # t
  BY <1>3, <1>7, <1>8
<1>10. \A i \in DOMAIN q : q[i].tx \notin Ahead(f)' /\ ~Finished(f, q[i].tx)'
  BY <1>5, <1>9 DEF Beside
<1>11. \A i \in DOMAIN r : /\ r[i].tx \in Positions /\ r[i] = Pending(f, r[i].tx)
                           /\ a \in Needs(f, r[i].tx) /\ r[i].tx \notin Ahead(f)'
                           /\ ~Finished(f, r[i].tx)'
  <2> SUFFICES ASSUME NEW i \in DOMAIN r
               PROVE  /\ r[i].tx \in Positions /\ r[i] = Pending(f, r[i].tx)
                      /\ a \in Needs(f, r[i].tx) /\ r[i].tx \notin Ahead(f)'
                      /\ ~Finished(f, r[i].tx)'
    OBVIOUS
  <2>1. CASE i = Len(q) + 1
    BY <1>2, <1>4, <2>1
  <2>2. CASE i \in DOMAIN q
    BY <1>4, <1>5, <1>10, <2>2
  <2> QED
    BY <1>4, <2>1, <2>2
<1>12. \A i, j \in DOMAIN r : i < j => r[i].tx < r[j].tx
  <2> SUFFICES ASSUME NEW i \in DOMAIN r, NEW j \in DOMAIN r, i < j PROVE r[i].tx < r[j].tx
    OBVIOUS
  <2>1. i \in DOMAIN q
    BY <1>3, <1>4
  <2> QED
    BY <1>4, <1>6, <1>7, <2>1
<1>13. ASSUME NEW u \in Positions, a \in Needs(f, u)
       PROVE  IF u \in Ahead(f)' THEN ~Finished(f, u)'
              ELSE Finished(f, u)' \/ \E i \in DOMAIN r : r[i].tx = u
  <2>1. IF u \in Ahead(f) THEN ~Finished(f, u)
        ELSE Finished(f, u) \/ \E i \in DOMAIN q : q[i].tx = u
    BY <1>2, <1>13 DEF Accounted, Waits
  <2>2. CASE u = t
    BY <1>3, <1>4, <2>2
  <2>3. CASE u # t
    BY <1>4, <2>1, <2>3 DEF Beside
  <2> QED
    BY <2>2, <2>3
<1>14. InLine(f, a)'
  BY <1>1, <1>2, <1>11, <1>12 DEF InLine
<1>15. Accounted(f, a)'
  BY <1>1, <1>2, <1>13 DEF Accounted, Waits
<1> QED
  BY <1>14, <1>15

\* The first transaction leaves a queue, finished.
LEMMA PopKeeps ==
  ASSUME Shape, NEW f \in Executors, NEW a \in Accounts, NEW t,
         InLine(f, a), Accounted(f, a), Beside(f, t), AtHead(f, a, t),
         UNCHANGED <<log, newScheduler>>, queues'[f][a] = Tail(queues[f][a]),
         t \notin Ahead(f)', Finished(f, t)'
  PROVE  InLine(f, a)' /\ Accounted(f, a)'
<1>1. /\ Positions' = Positions
      /\ \A u : Needs(f, u)' = Needs(f, u) /\ Pending(f, u)' = Pending(f, u)
  BY ScheduleSame
<1>2. PICK q, r : q = queues[f][a] /\ r = queues'[f][a]
  OBVIOUS
<1>3. /\ q \in Seq(Pendings) /\ Len(q) \in Nat /\ DOMAIN q = 1 .. Len(q)
      /\ \A i \in DOMAIN q : q[i].tx \in Nat
      /\ 1 \in DOMAIN q /\ q[1].tx = t
  BY <1>2, QueueFacts
<1>4. /\ r = Tail(q) /\ Len(r) = Len(q) - 1 /\ DOMAIN r = 1 .. Len(q) - 1
      /\ \A i \in DOMAIN r : i + 1 \in DOMAIN q /\ r[i] = q[i + 1]
  BY <1>2, <1>3
<1>5. \A i \in DOMAIN q : /\ q[i].tx \in Positions /\ q[i] = Pending(f, q[i].tx)
                          /\ a \in Needs(f, q[i].tx) /\ q[i].tx \notin Ahead(f)
                          /\ ~Finished(f, q[i].tx)
  BY <1>2 DEF InLine
<1>6. \A i, j \in DOMAIN q : i < j => q[i].tx < q[j].tx
  BY <1>2 DEF InLine
<1>7. \A i \in DOMAIN r : r[i].tx # t
  <2> SUFFICES ASSUME NEW i \in DOMAIN r PROVE r[i].tx # t
    OBVIOUS
  <2>1. i + 1 \in DOMAIN q /\ 1 < i + 1 /\ r[i] = q[i + 1]
    BY <1>3, <1>4
  <2>2. q[1].tx < q[i + 1].tx
    BY <1>3, <1>6, <2>1
  <2> QED
    BY <1>3, <2>1, <2>2
<1>8. \A i \in DOMAIN r : /\ r[i].tx \in Positions /\ r[i] = Pending(f, r[i].tx)
                          /\ a \in Needs(f, r[i].tx) /\ r[i].tx \notin Ahead(f)'
                          /\ ~Finished(f, r[i].tx)'
  BY <1>4, <1>5, <1>7 DEF Beside
<1>9. \A i, j \in DOMAIN r : i < j => r[i].tx < r[j].tx
  <2> SUFFICES ASSUME NEW i \in DOMAIN r, NEW j \in DOMAIN r, i < j PROVE r[i].tx < r[j].tx
    OBVIOUS
  <2>1. i + 1 \in DOMAIN q /\ j + 1 \in DOMAIN q /\ i + 1 < j + 1
    BY <1>3, <1>4
  <2> QED
    BY <1>4, <1>6, <2>1
<1>10. ASSUME NEW u \in Positions, a \in Needs(f, u)
       PROVE  IF u \in Ahead(f)' THEN ~Finished(f, u)'
              ELSE Finished(f, u)' \/ \E i \in DOMAIN r : r[i].tx = u
  <2>1. IF u \in Ahead(f) THEN ~Finished(f, u)
        ELSE Finished(f, u) \/ \E i \in DOMAIN q : q[i].tx = u
    BY <1>2, <1>10 DEF Accounted, Waits
  <2>2. CASE u = t
    BY <2>2
  <2>3. CASE u # t
    <3>1. ASSUME NEW i \in DOMAIN q, q[i].tx = u PROVE \E j \in DOMAIN r : r[j].tx = u
      <4>1. i # 1
        BY <1>3, <2>3, <3>1
      <4>2. i - 1 \in DOMAIN r /\ (i - 1) + 1 = i
        BY <1>3, <1>4, <4>1
      <4>3. r[i - 1] = q[i]
        BY <1>4, <4>2
      <4> QED
        BY <3>1, <4>2, <4>3
    <3> QED
      BY <2>1, <2>3, <3>1 DEF Beside
  <2> QED
    BY <2>2, <2>3
<1>11. InLine(f, a)'
  BY <1>1, <1>2, <1>8, <1>9 DEF InLine
<1>12. Accounted(f, a)'
  BY <1>1, <1>2, <1>10 DEF Accounted, Waits
<1> QED
  BY <1>11, <1>12

-----------------------------------------------------------------------------
(* Where the accounts are *)

LEMMA FirstFacts ==
  ASSUME Shape, AccountInv, NEW a \in Accounts, NEW t, First(t, a)
  PROVE  /\ t \in Positions /\ a \in On(t) /\ t - 1 \in 0 .. Len(log.txs) /\ Frontier(a, t - 1)
         /\ \A e \in Executors : store[e][a] # NotHere => At(t - 1)[a] = e
         /\ \A u : First(u, a) => u = t
<1>1. t \in Positions /\ a \in On(t) /\ t \notin done /\ \A u \in Positions : a \in On(u) /\ u < t => u \in done
  BY DEF First
<1>2. t \in Nat /\ t - 1 \in 0 .. Len(log.txs) /\ \A u \in Positions : u \in Nat
  BY <1>1, TxFacts DEF Shape
<1>3. PICK k \in 0 .. Len(log.txs) : Frontier(a, k)
  BY DEF AccountInv
<1>4. k < t
  BY <1>1, <1>2, <1>3 DEF Frontier
<1>5. Frontier(a, t - 1)
  <2> SUFFICES ASSUME NEW u \in Positions, a \in On(u) PROVE u \in done <=> u <= t - 1
    BY DEF Frontier
  <2>1. u \in done <=> u <= k
    BY <1>3 DEF Frontier
  <2>2. u < t => u \in done
    BY <1>1
  <2> QED
    BY <1>2, <1>4, <2>1, <2>2
<1>6. ASSUME NEW u, First(u, a) PROVE u = t
  <2>1. u \in Positions /\ a \in On(u) /\ u \notin done /\ \A v \in Positions : a \in On(v) /\ v < u => v \in done
    BY <1>6 DEF First
  <2> QED
    BY <1>1, <1>2, <2>1
<1> QED
  BY <1>1, <1>2, <1>5, <1>6 DEF AccountInv

\* A transaction not executed is, or is behind, the next one on each of its accounts.
LEMMA FirstOn ==
  ASSUME Shape, NEW t \in Positions, NEW a \in On(t), t \notin done
  PROVE  \E u \in Positions : First(u, a) /\ u <= t
<1>1. PICK S : S = {u \in Positions : a \in On(u) /\ u \notin done}
  OBVIOUS
<1>2. \A u \in Positions : u \in Nat
  BY TxFacts DEF Shape
<1>3. S \in SUBSET Nat /\ t \in S
  BY <1>1, <1>2
<1>4. PICK u \in S : \A v \in S : u <= v
  BY <1>3, LeastNumber
<1>5. \A v \in Positions : a \in On(v) /\ v < u => v \in done
  BY <1>1, <1>2, <1>3, <1>4
<1> QED
  BY <1>1, <1>3, <1>4, <1>5 DEF First

\* A message is for the next transaction on its account.
LEMMA SentFacts ==
  ASSUME Shape, AccountInv, NEW m \in InFlight
  PROVE  /\ m \in Transfers /\ m.tx \in Positions /\ m.account \in Accounts /\ m.account \in On(m.tx)
         /\ First(m.tx, m.account) /\ m.to = To(m.tx) /\ m.state \in AccountState
         /\ \A e \in Executors : store[e][m.account] = NotHere
<1>1. m \in Transfers
  BY DEF Shape, InFlight
<1>2. First(m.tx, m.account) /\ m.to = To(m.tx)
  BY DEF AccountInv, Sent
<1>3. m.account \in Accounts /\ m.state \in AccountState
  BY <1>1 DEF Transfers
<1>4. \A e \in Executors : store[e][m.account] = NotHere
  BY <1>3 DEF AccountInv
<1> QED
  BY <1>1, <1>2, <1>3, <1>4 DEF First

\* What an executor holds, behind no other transaction, is there for that transaction.
LEMMA HeldIsFirst ==
  ASSUME Shape, QueueInv, AccountInv, NEW e \in Executors, NEW t \in Positions, NEW a \in Needs(e, t),
         t \notin done, store[e][a] # NotHere, \A u \in Positions : u < t => u \notin Ahead(e),
         \A u : Waits(e, a, u) => t <= u
  PROVE  First(t, a) /\ At(t - 1)[a] = e
<1>1. a \in On(t) /\ a \in Accounts /\ t \in Nat /\ \A u \in Positions : u \in Nat
  BY NeedsFacts, TxFacts DEF Shape
<1>2. PICK u \in Positions : First(u, a) /\ u <= t
  BY <1>1, FirstOn
<1>3. a \in On(u) /\ At(u - 1)[a] = e
  BY <1>1, <1>2, FirstFacts
<1>4. a \in Mine(e, u) /\ a \in Needs(e, u)
  BY <1>3, NeedsFacts DEF Mine, Shape
<1>5. ASSUME u < t PROVE FALSE
  <2>1. Finished(e, u) \/ Waits(e, a, u)
    BY <1>1, <1>4, <1>5 DEF QueueInv, Accounted
  <2>2. ~Waits(e, a, u)
    BY <1>1, <1>5
  <2>3. u \notin done
    BY <1>2 DEF First
  <2>4. Away(a, u)
    BY <1>4, <2>1, <2>2, <2>3 DEF Finished
  <2>5. PICK m \in InFlight : m.account = a
    BY <2>4 DEF Away
  <2> QED
    BY <2>5, SentFacts
<1>6. u = t
  BY <1>1, <1>2, <1>5
<1> QED
  BY <1>2, <1>3, <1>6

-----------------------------------------------------------------------------
(* The state of an account *)

Here(a) == ({store[e][a] : e \in Executors} \ {NotHere})
              \cup {m.state : m \in {n \in InFlight : n.account = a}}

StatesAre ==
  /\ \A a \in Accounts : \A e \in Executors : store[e][a] # NotHere => CurrentState(a) = store[e][a]
  /\ \A m \in InFlight : CurrentState(m.account) = m.state
  /\ \A a \in Accounts : CurrentState(a) \in AccountState

LEMMA StatesFollow == Shape /\ AccountInv => StatesAre
<1> SUFFICES ASSUME Shape, AccountInv PROVE StatesAre
  OBVIOUS
<1>1. \A a : CurrentState(a) = CHOOSE s \in Here(a) : TRUE
  BY DEF CurrentState, Here
<1>2. ASSUME NEW a \in Accounts, NEW e \in Executors, store[e][a] # NotHere
      PROVE  CurrentState(a) = store[e][a]
  <2>1. PICK k \in 0 .. Len(log.txs) : Frontier(a, k)
    BY DEF AccountInv
  <2>2. \A f \in Executors : store[f][a] # NotHere => f = e
    BY <1>2, <2>1 DEF AccountInv
  <2>3. \A m \in InFlight : m.account # a
    BY <1>2 DEF AccountInv
  <2>4. Here(a) = {store[e][a]}
    BY <1>2, <2>2, <2>3 DEF Here
  <2> QED
    BY <1>1, <2>4
<1>3. ASSUME NEW m \in InFlight PROVE CurrentState(m.account) = m.state
  <2>1. \A e \in Executors : store[e][m.account] = NotHere
    BY SentFacts
  <2>2. {n \in InFlight : n.account = m.account} = {m}
    BY DEF AccountInv
  <2>3. Here(m.account) = {m.state}
    BY <2>1, <2>2 DEF Here
  <2> QED
    BY <1>1, <2>3
<1>4. ASSUME NEW a \in Accounts PROVE CurrentState(a) \in AccountState
  <2>1. CASE \E e \in Executors : store[e][a] # NotHere
    BY <1>2, <2>1 DEF Shape
  <2>2. CASE \E m \in InFlight : m.account = a
    BY <1>3, <2>2, SentFacts
  <2> QED
    BY <2>1, <2>2 DEF AccountInv
<1> QED
  BY <1>2, <1>3, <1>4 DEF StatesAre

LEMMA CurrentSame ==
  ASSUME NEW a \in Accounts, \A e \in Executors : store'[e][a] = store[e][a],
         \A m : m.account = a => (m \in InFlight' <=> m \in InFlight)
  PROVE  CurrentState(a)' = CurrentState(a)
<1>1. CurrentState(a) = CHOOSE s \in Here(a) : TRUE
  BY DEF CurrentState, Here
<1>2. CurrentState(a)' = CHOOSE s \in Here(a)' : TRUE
  BY DEF CurrentState, Here
<1>3. Here(a)' = Here(a)
  <2>1. {n \in InFlight' : n.account = a} = {n \in InFlight : n.account = a}
    OBVIOUS
  <2>2. {store'[e][a] : e \in Executors} = {store[e][a] : e \in Executors}
    OBVIOUS
  <2> QED
    BY <2>1, <2>2 DEF Here
<1> QED
  BY <1>1, <1>2, <1>3

-----------------------------------------------------------------------------
(* A transaction takes effect, or its accounts leave *)

TakesEffect(t) ==
  /\ t \in Positions /\ t \notin done /\ done' = done \cup {t} /\ UNCHANGED log
  /\ \A a \in On(t) : First(t, a)
  /\ \A a \in Accounts :
       CurrentState(a)' = IF a \in On(t) THEN Executed([b \in Accounts |-> CurrentState(b)], Tx(t))[a]
                          ELSE CurrentState(a)

\* An executor runs a transaction on accounts it held and accounts it was sent.
Runs(e, t, gone, bank) ==
  /\ To(t) = e /\ \A a \in On(t) : First(t, a)
  /\ gone \subseteq InFlight /\ \A m \in gone : m.tx = t
  /\ \A a \in On(t) : \/ store[e][a] # NotHere /\ bank[a] = store[e][a]
                      \/ \E m \in gone : m.account = a /\ bank[a] = m.state
  /\ \A a \in Accounts \ On(t) : bank[a] = store[e][a]
  /\ UNCHANGED <<log, newScheduler>>
  /\ InFlight' = InFlight \ gone
  /\ done' = done \cup {t}
  /\ store' = [store EXCEPT ![e] = Executed(bank, Tx(t))]

LEMMA RunFacts ==
  ASSUME Shape, AccountInv, NEW e \in Executors, NEW t \in Positions, NEW gone, NEW bank \in Banks,
         Runs(e, t, gone, bank)
  PROVE  /\ On(t) # {} /\ t \notin done
         /\ \A m \in InFlight : m.account \in On(t) => m \in gone
         /\ \A m \in InFlight : m \notin gone => m.tx # t
         /\ \A a \in On(t) : a \in Accounts /\ bank[a] = CurrentState(a) /\ bank[a] \in AccountState
         /\ \A f \in Executors \ {e} : \A a \in On(t) : store[f][a] = NotHere
         /\ \A f \in Executors : \A a \in Accounts :
              store'[f][a] = IF f = e /\ a \in On(t) THEN Executed(bank, Tx(t))[a] ELSE store[f][a]
         /\ \A a \in On(t) : Executed(bank, Tx(t))[a] \in AccountState
         /\ store' \in [Executors -> [Accounts -> AccountState \cup {NotHere}]]
<1>1. /\ To(t) = e /\ \A a \in On(t) : First(t, a)
      /\ gone \subseteq InFlight /\ \A m \in gone : m.tx = t
      /\ \A a \in On(t) : \/ store[e][a] # NotHere /\ bank[a] = store[e][a]
                          \/ \E m \in gone : m.account = a /\ bank[a] = m.state
      /\ \A a \in Accounts \ On(t) : bank[a] = store[e][a]
      /\ store' = [store EXCEPT ![e] = Executed(bank, Tx(t))]
  BY DEF Runs
<1>2. /\ On(t) \subseteq Accounts /\ On(t) # {} /\ IsTransaction(Tx(t), Accounts)
      /\ RequiredAccounts(Tx(t)) = On(t)
  BY TxFacts DEF Shape, On
<1>3. StatesAre
  BY StatesFollow
<1>4. ASSUME NEW m \in InFlight, m.account \in On(t) PROVE m \in gone
  <2>1. store[e][m.account] = NotHere
    BY SentFacts
  <2>2. PICK n \in gone : n.account = m.account
    BY <1>1, <1>4, <2>1
  <2>3. n = m
    BY <1>1, <2>2 DEF AccountInv
  <2> QED
    BY <2>3
<1>5. ASSUME NEW a \in On(t)
      PROVE  bank[a] = CurrentState(a) /\ bank[a] \in AccountState
  <2>1. CASE store[e][a] # NotHere /\ bank[a] = store[e][a]
    BY <1>2, <1>3, <2>1 DEF StatesAre
  <2>2. CASE \E m \in gone : m.account = a /\ bank[a] = m.state
    BY <1>1, <1>2, <1>3, <2>2 DEF StatesAre
  <2> QED
    BY <1>1, <2>1, <2>2
<1>6. ASSUME NEW f \in Executors \ {e}, NEW a \in On(t) PROVE store[f][a] = NotHere
  <2>1. CASE store[e][a] # NotHere
    <3>1. First(t, a) /\ a \in Accounts
      BY <1>1, <1>2
    <3>2. store[f][a] # NotHere => e = f
      BY <2>1, <3>1, FirstFacts
    <3> QED
      BY <3>2
  <2>2. CASE \E m \in gone : m.account = a
    BY <1>1, <2>2, SentFacts
  <2> QED
    BY <1>1, <2>1, <2>2
<1>7. PICK after : after = Executed(bank, Tx(t))
  OBVIOUS
<1>8. /\ after \in Banks /\ \A a \in On(t) : after[a] \in AccountState
      /\ \A a \in Accounts \ On(t) : after[a] = bank[a]
  BY <1>2, <1>5, <1>7, ExecutedTyped
<1>9. store' = [store EXCEPT ![e] = after]
  BY <1>1, <1>7
<1>10. \A f \in Executors : \A a \in Accounts :
         store'[f][a] = IF f = e /\ a \in On(t) THEN after[a] ELSE store[f][a]
  <2>1. after \in [Accounts -> AccountState \cup {NotHere}]
    BY <1>8 DEF Banks
  <2>2. \A f \in Executors : store'[f] = IF f = e THEN after ELSE store[f]
    BY <1>9 DEF Shape
  <2> QED
    BY <1>1, <1>8, <2>2
<1>11. store' \in [Executors -> [Accounts -> AccountState \cup {NotHere}]]
  BY <1>8, <1>9 DEF Shape, Banks
<1>12. t \notin done
  BY <1>1, <1>2 DEF First
<1>13. ASSUME NEW m \in InFlight, m \notin gone PROVE m.tx # t
  BY <1>4, <1>13, SentFacts
<1> QED
  BY <1>2, <1>4, <1>5, <1>6, <1>7, <1>8, <1>10, <1>11, <1>12, <1>13

LEMMA RunTakesEffect ==
  ASSUME Shape, AccountInv, NEW e \in Executors, NEW t \in Positions, NEW gone, NEW bank \in Banks,
         Runs(e, t, gone, bank), StatesAre'
  PROVE  TakesEffect(t)
<1>1. /\ On(t) # {} /\ t \notin done
      /\ \A m \in InFlight : m.account \in On(t) => m \in gone
      /\ \A a \in On(t) : a \in Accounts /\ bank[a] = CurrentState(a) /\ bank[a] \in AccountState
      /\ \A f \in Executors : \A a \in Accounts :
           store'[f][a] = IF f = e /\ a \in On(t) THEN Executed(bank, Tx(t))[a] ELSE store[f][a]
      /\ \A a \in On(t) : Executed(bank, Tx(t))[a] \in AccountState
  BY RunFacts
<1>2. /\ \A a \in On(t) : First(t, a)
      /\ UNCHANGED log /\ InFlight' = InFlight \ gone /\ done' = done \cup {t}
      /\ \A m \in gone : m.tx = t
      /\ gone \subseteq InFlight
  BY DEF Runs
<1>3. PICK now : now = [b \in Accounts |-> CurrentState(b)]
  OBVIOUS
<1>4. now \in Banks /\ \A a \in On(t) : bank[a] = now[a]
  <2>1. \A a \in Accounts : CurrentState(a) \in AccountState
    BY StatesFollow DEF StatesAre
  <2> QED
    BY <1>1, <1>3, <2>1 DEF Banks
<1>5. IsTransaction(Tx(t), Accounts) /\ RequiredAccounts(Tx(t)) = On(t)
  BY TxFacts DEF Shape, On
<1>6. ASSUME NEW a \in Accounts
      PROVE  CurrentState(a)' = IF a \in On(t) THEN Executed(now, Tx(t))[a] ELSE CurrentState(a)
  <2>1. CASE a \in On(t)
    <3>1. Executed(bank, Tx(t))[a] = Executed(now, Tx(t))[a]
      BY <1>4, <1>5, <2>1, ExecutedAgrees
    <3>2. store'[e][a] = Executed(bank, Tx(t))[a] /\ store'[e][a] # NotHere
      BY <1>1, <2>1, DataFusionAssumption
    <3>3. CurrentState(a)' = store'[e][a]
      BY <3>2 DEF StatesAre
    <3> QED
      BY <2>1, <3>1, <3>2, <3>3
  <2>2. CASE a \notin On(t)
    <3>1. \A f \in Executors : store'[f][a] = store[f][a]
      BY <1>1, <2>2
    <3>2. \A m \in gone : m.account # a
      BY <1>2, <2>2, SentFacts
    <3>3. \A m : m.account = a => (m \in InFlight' <=> m \in InFlight)
      BY <1>2, <3>2
    <3> QED
      BY <2>2, <3>1, <3>3, CurrentSame
  <2> QED
    BY <2>1, <2>2
<1> QED
  BY <1>1, <1>2, <1>3, <1>6 DEF TakesEffect

LEMMA RunKeeps ==
  ASSUME Shape, AccountInv, NEW e \in Executors, NEW t \in Positions, NEW gone, NEW bank \in Banks,
         Runs(e, t, gone, bank)
  PROVE  /\ AccountInv'
         /\ \A f \in Executors : Finished(f, t)'
         /\ \A f \in Executors : \A u : u # t => (Finished(f, u)' <=> Finished(f, u))
         /\ \A f \in Executors \ {e} : Needs(f, t) # {} => Finished(f, t)
<1>1. /\ On(t) # {} /\ t \notin done
      /\ \A m \in InFlight : m.account \in On(t) => m \in gone
      /\ \A m \in InFlight : m \notin gone => m.tx # t
      /\ \A a \in On(t) : a \in Accounts
      /\ \A f \in Executors \ {e} : \A a \in On(t) : store[f][a] = NotHere
      /\ \A f \in Executors : \A a \in Accounts :
           store'[f][a] = IF f = e /\ a \in On(t) THEN Executed(bank, Tx(t))[a] ELSE store[f][a]
      /\ \A a \in On(t) : Executed(bank, Tx(t))[a] \in AccountState
  BY RunFacts
<1>2. /\ To(t) = e /\ \A a \in On(t) : First(t, a)
      /\ gone \subseteq InFlight /\ \A m \in gone : m.tx = t
      /\ \A a \in On(t) : store[e][a] # NotHere \/ \E m \in gone : m.account = a
      /\ UNCHANGED <<log, newScheduler>>
      /\ InFlight' = InFlight \ gone
      /\ done' = done \cup {t}
  BY DEF Runs
<1>3. /\ Positions' = Positions /\ \A k : At(k)' = At(k)
      /\ \A u : To(u)' = To(u) /\ On(u)' = On(u)
      /\ \A f, u : Mine(f, u)' = Mine(f, u) /\ Needs(f, u)' = Needs(f, u)
  BY <1>2, ScheduleSame
<1>4. /\ \A u \in Positions : u \in Nat
      /\ Len(log.txs) \in Nat /\ t \in 0 .. Len(log.txs) /\ t - 1 \in 0 .. Len(log.txs)
  BY TxFacts, LogFacts DEF Shape
<1>5. \A a, u : u # t => (Away(a, u)' <=> Away(a, u))
  BY <1>2 DEF Away
<1>6. \A f \in Executors : \A u : u # t => (Finished(f, u)' <=> Finished(f, u))
  BY <1>2, <1>3, <1>5 DEF Finished
<1>7. \A f \in Executors : Finished(f, t)'
  BY <1>2 DEF Finished
<1>8. ASSUME NEW f \in Executors \ {e}, Needs(f, t) # {} PROVE Finished(f, t)
  <2> SUFFICES ASSUME NEW a \in Mine(f, t) PROVE Away(a, t)
    BY <1>2 DEF Finished
  <2>1. a \in On(t) /\ At(t - 1)[a] = f
    BY DEF Mine
  <2>2. store[e][a] = NotHere
    <3>1. First(t, a) /\ a \in Accounts
      BY <1>1, <1>2, <2>1
    <3>2. store[e][a] # NotHere => At(t - 1)[a] = e
      BY <3>1, FirstFacts
    <3> QED
      BY <2>1, <3>2
  <2> QED
    BY <1>2, <2>1, <2>2 DEF Away
<1>9. ASSUME NEW a \in Accounts, a \notin On(t), NEW k PROVE Frontier(a, k)' <=> Frontier(a, k)
  <2>1. \A u \in Positions : a \in On(u) => (u \in done' <=> u \in done)
    BY <1>2, <1>9
  <2> QED
    BY <1>3, <2>1 DEF Frontier
<1>10. ASSUME NEW a \in On(t)
       PROVE  /\ Frontier(a, t)'
              /\ \A k \in 0 .. Len(log.txs) : Frontier(a, k)' => At(k)[a] = e
  <2>1. a \in Accounts /\ First(t, a) /\ Frontier(a, t - 1)
    BY <1>1, <1>2, FirstFacts
  <2>2. \A u \in Positions : a \in On(u) => (u \in done <=> u <= t - 1)
    BY <2>1 DEF Frontier
  <2>3. \A u \in Positions : a \in On(u) => (u \in done' <=> u <= t)
    BY <1>2, <1>4, <2>2
  <2>4. ASSUME NEW k \in 0 .. Len(log.txs), Frontier(a, k)' PROVE At(k)[a] = e
    <3>1. \A u \in Positions : a \in On(u) => (u \in done' <=> u <= k)
      BY <1>3, <2>4 DEF Frontier
    <3>2. t <= k
      BY <1>2, <3>1
    <3>3. \A u \in Positions : t < u /\ u <= k => a \notin On(u)
      BY <1>4, <2>3, <3>1
    <3>4. At(k)[a] = At(t)[a]
      <4>1. t \in Nat /\ k \in Nat /\ t <= k /\ k <= Len(log.txs)
        BY <1>4, <3>2
      <4>2. log \in Logs /\ newScheduler \in Schedulers
        BY DEF Shape
      <4> QED
        BY <2>1, <3>3, <4>1, <4>2, OwnerStays
    <3>5. At(t) = Gathered(At(t - 1), On(t), e)
      BY <1>2, ScheduleFacts DEF Shape
    <3> QED
      BY <2>1, <3>4, <3>5 DEF Gathered
  <2>5. Frontier(a, t)'
    BY <1>3, <2>3 DEF Frontier
  <2> QED
    BY <2>4, <2>5
<1>11. Len(log.txs)' = Len(log.txs)
  BY <1>2
<1>12. ASSUME NEW a \in Accounts
       PROVE  /\ \E k \in 0 .. Len(log.txs) : Frontier(a, k)'
              /\ (\E f \in Executors : store'[f][a] # NotHere) \/ (\E m \in InFlight' : m.account = a)
              /\ \A f \in Executors : store'[f][a] # NotHere =>
                   /\ \A m \in InFlight' : m.account # a
                   /\ \A k \in 0 .. Len(log.txs) : Frontier(a, k)' => At(k)[a] = f
  <2>1. CASE a \in On(t)
    <3>1. \E k \in 0 .. Len(log.txs) : Frontier(a, k)'
      BY <1>4, <1>10, <2>1
    <3>2. store'[e][a] # NotHere
      BY <1>1, <2>1, DataFusionAssumption
    <3>3. \A f \in Executors \ {e} : store'[f][a] = NotHere
      BY <1>1, <2>1
    <3>4. \A m \in InFlight' : m.account # a
      BY <1>1, <1>2, <2>1
    <3> QED
      BY <1>10, <2>1, <3>1, <3>2, <3>3, <3>4
  <2>2. CASE a \notin On(t)
    <3>1. \A f \in Executors : store'[f][a] = store[f][a]
      BY <1>1, <2>2
    <3>2. \A k : Frontier(a, k)' <=> Frontier(a, k)
      BY <1>9, <2>2
    <3>3. \A m \in gone : m.account # a
      BY <1>2, <2>2, SentFacts
    <3>4. \A m : m.account = a => (m \in InFlight' <=> m \in InFlight)
      BY <1>2, <3>3
    <3>5. /\ \E k \in 0 .. Len(log.txs) : Frontier(a, k)
          /\ (\E f \in Executors : store[f][a] # NotHere) \/ (\E m \in InFlight : m.account = a)
          /\ \A f \in Executors : store[f][a] # NotHere =>
               /\ \A m \in InFlight : m.account # a
               /\ \A k \in 0 .. Len(log.txs) : Frontier(a, k) => At(k)[a] = f
      BY DEF AccountInv
    <3> QED
      BY <3>1, <3>2, <3>4, <3>5
  <2> QED
    BY <2>1, <2>2
<1>13. ASSUME NEW m \in InFlight' PROVE Sent(m)'
  <2>1. m \in InFlight /\ m.tx # t /\ m.account \notin On(t)
    BY <1>1, <1>2
  <2>2. /\ First(m.tx, m.account)
        /\ m.to = To(m.tx) /\ At(m.tx - 1)[m.account] # m.to
        /\ \A b \in Mine(At(m.tx - 1)[m.account], m.tx) : Away(b, m.tx)
    BY <2>1 DEF AccountInv, Sent
  <2>3. First(m.tx, m.account)'
    BY <1>2, <1>3, <2>1, <2>2 DEF First
  <2> QED
    BY <1>3, <1>5, <2>1, <2>2, <2>3 DEF Sent
<1>14. \A m, n \in InFlight' : m.account = n.account => m = n
  BY <1>2 DEF AccountInv
<1>15. AccountInv'
  BY <1>3, <1>11, <1>12, <1>13, <1>14 DEF AccountInv
<1> QED
  BY <1>6, <1>7, <1>8, <1>15

\* An executor sends the accounts it has of a transaction to where it runs.
Leaves(e, t) ==
  /\ To(t) # e /\ t \notin done
  /\ \A a \in Mine(e, t) : First(t, a) /\ store[e][a] # NotHere
  /\ UNCHANGED <<log, newScheduler, done>>
  /\ InFlight' = InFlight \cup StateTransfers(e, t, Mine(e, t), To(t))
  /\ store' = [store EXCEPT ![e] = [a \in Accounts |->
                 IF a \in Mine(e, t) THEN NotHere ELSE store[e][a]]]

LEMMA LeaveFacts ==
  ASSUME Shape, AccountInv, NEW e \in Executors, NEW t \in Positions, Leaves(e, t)
  PROVE  /\ StateTransfers(e, t, Mine(e, t), To(t)) \subseteq Transfers
         /\ \A m \in StateTransfers(e, t, Mine(e, t), To(t)) :
              /\ m.tx = t /\ m.account \in Mine(e, t) /\ m.to = To(t) /\ m.state = store[e][m.account]
              /\ m \notin InFlight
         /\ \A a \in Mine(e, t) : /\ a \in Accounts /\ a \in On(t) /\ At(t - 1)[a] = e
                                  /\ \E m \in StateTransfers(e, t, Mine(e, t), To(t)) : m.account = a
         /\ \A m, n \in StateTransfers(e, t, Mine(e, t), To(t)) : m.account = n.account => m = n
         /\ store' \in [Executors -> [Accounts -> AccountState \cup {NotHere}]]
         /\ \A f \in Executors : \A a \in Accounts :
              store'[f][a] = IF f = e /\ a \in Mine(e, t) THEN NotHere ELSE store[f][a]
<1>1. /\ \A a \in Mine(e, t) : store[e][a] # NotHere
      /\ store' = [store EXCEPT ![e] = [a \in Accounts |->
                     IF a \in Mine(e, t) THEN NotHere ELSE store[e][a]]]
  BY DEF Leaves
<1>2. PICK mine, to : mine = Mine(e, t) /\ to = To(t)
  OBVIOUS
<1>3. PICK sent : sent = StateTransfers(e, t, mine, to)
  OBVIOUS
<1>4. sent = {[tx |-> t, account |-> a, state |-> store[e][a], to |-> to] : a \in mine}
  BY <1>3 DEF StateTransfers
<1>5. \A a \in mine : a \in Accounts /\ a \in On(t) /\ At(t - 1)[a] = e
  BY <1>2, TxFacts DEF Mine, Shape
<1>6. to \in Executors
  BY <1>2, ScheduleFacts DEF Shape
<1>7. \A a \in mine : store[e][a] \in AccountState
  BY <1>1, <1>2, <1>5 DEF Shape
<1>8. sent \subseteq Transfers
  BY <1>4, <1>5, <1>6, <1>7 DEF Transfers, Positions
<1>9. \A m \in sent : m.tx = t /\ m.account \in mine /\ m.to = to /\ m.state = store[e][m.account]
  BY <1>4
<1>10. \A a \in mine : \E m \in sent : m.account = a
  <2> SUFFICES ASSUME NEW a \in mine PROVE \E m \in sent : m.account = a
    OBVIOUS
  <2>1. PICK m : m = [tx |-> t, account |-> a, state |-> store[e][a], to |-> to]
    OBVIOUS
  <2>2. m \in sent /\ m.account = a
    BY <1>4, <2>1
  <2> QED
    BY <2>2
<1>11. \A m, n \in sent : m.account = n.account => m = n
  <2> SUFFICES ASSUME NEW m \in sent, NEW n \in sent, m.account = n.account PROVE m = n
    OBVIOUS
  <2>1. PICK a \in mine : m = [tx |-> t, account |-> a, state |-> store[e][a], to |-> to]
    BY <1>4
  <2>2. PICK b \in mine : n = [tx |-> t, account |-> b, state |-> store[e][b], to |-> to]
    BY <1>4
  <2> QED
    BY <2>1, <2>2
<1>12. \A m \in sent : m \notin InFlight
  <2> SUFFICES ASSUME NEW m \in sent, m \in InFlight PROVE FALSE
    OBVIOUS
  <2>1. store[e][m.account] = NotHere
    BY SentFacts
  <2> QED
    BY <1>1, <1>2, <1>9, <2>1
<1>13. store' \in [Executors -> [Accounts -> AccountState \cup {NotHere}]]
  BY <1>1 DEF Shape
<1>14. \A f \in Executors : \A a \in Accounts :
         store'[f][a] = IF f = e /\ a \in mine THEN NotHere ELSE store[f][a]
  BY <1>1, <1>2 DEF Shape
<1> QED
  BY <1>2, <1>3, <1>5, <1>8, <1>9, <1>10, <1>11, <1>12, <1>13, <1>14

LEMMA LeaveKeeps ==
  ASSUME Shape, AccountInv, NEW e \in Executors, NEW t \in Positions, Leaves(e, t)
  PROVE  /\ AccountInv'
         /\ Finished(e, t)'
         /\ \A f \in Executors : \A u : f # e \/ u # t => (Finished(f, u)' <=> Finished(f, u))
<1>1. PICK mine, to : mine = Mine(e, t) /\ to = To(t)
  OBVIOUS
<1>2. PICK sent : sent = StateTransfers(e, t, mine, to)
  OBVIOUS
<1>3. /\ to # e /\ t \notin done
      /\ \A a \in mine : First(t, a) /\ store[e][a] # NotHere
      /\ UNCHANGED <<log, newScheduler, done>>
      /\ InFlight' = InFlight \cup sent
  BY <1>1, <1>2 DEF Leaves
<1>4. /\ \A m \in sent : m.tx = t /\ m.account \in mine /\ m.to = to
      /\ \A a \in mine : a \in Accounts /\ a \in On(t) /\ At(t - 1)[a] = e /\ \E m \in sent : m.account = a
      /\ \A m, n \in sent : m.account = n.account => m = n
      /\ \A f \in Executors : \A a \in Accounts :
           store'[f][a] = IF f = e /\ a \in mine THEN NotHere ELSE store[f][a]
  BY <1>1, <1>2, LeaveFacts
<1>5. /\ Positions' = Positions /\ \A k : At(k)' = At(k)
      /\ \A u : To(u)' = To(u) /\ On(u)' = On(u)
      /\ \A f, u : Mine(f, u)' = Mine(f, u) /\ Needs(f, u)' = Needs(f, u)
  BY <1>3, ScheduleSame
<1>6. \A a, u : Away(a, u)' <=> Away(a, u) \/ (u = t /\ a \in mine)
  BY <1>3, <1>4 DEF Away
<1>7. \A m \in InFlight : m.account \notin mine
  <2> SUFFICES ASSUME NEW m \in InFlight, m.account \in mine PROVE FALSE
    OBVIOUS
  <2>1. store[e][m.account] = NotHere
    BY SentFacts
  <2> QED
    BY <1>3, <2>1
<1>8. Finished(e, t)'
  BY <1>1, <1>3, <1>5, <1>6 DEF Finished
<1>9. ASSUME NEW f \in Executors, NEW u, f # e \/ u # t PROVE Finished(f, u)' <=> Finished(f, u)
  <2>1. ASSUME NEW a \in Mine(f, u) PROVE Away(a, u)' <=> Away(a, u)
    <3>1. ~(u = t /\ a \in mine)
      BY <1>4, <1>9, <2>1 DEF Mine
    <3> QED
      BY <1>6, <3>1
  <2> QED
    BY <1>3, <1>5, <2>1 DEF Finished
<1>10. \A a, k : Frontier(a, k)' <=> Frontier(a, k)
  BY <1>3, <1>5 DEF Frontier
<1>11. \A u, a : First(u, a)' <=> First(u, a)
  BY <1>3, <1>5 DEF First
<1>12. Len(log.txs)' = Len(log.txs)
  BY <1>3
<1>13. ASSUME NEW a \in Accounts
       PROVE  /\ \E k \in 0 .. Len(log.txs) : Frontier(a, k)'
              /\ (\E f \in Executors : store'[f][a] # NotHere) \/ (\E m \in InFlight' : m.account = a)
              /\ \A f \in Executors : store'[f][a] # NotHere =>
                   /\ \A m \in InFlight' : m.account # a
                   /\ \A k \in 0 .. Len(log.txs) : Frontier(a, k)' => At(k)[a] = f
  <2>1. /\ \E k \in 0 .. Len(log.txs) : Frontier(a, k)
        /\ (\E f \in Executors : store[f][a] # NotHere) \/ (\E m \in InFlight : m.account = a)
        /\ \A f \in Executors : store[f][a] # NotHere =>
             /\ \A m \in InFlight : m.account # a
             /\ \A k \in 0 .. Len(log.txs) : Frontier(a, k) => At(k)[a] = f
    BY DEF AccountInv
  <2>2. CASE a \in mine
    <3>1. \A f \in Executors : store[f][a] # NotHere => f = e
      BY <1>3, <2>1, <2>2
    <3>2. \A f \in Executors : store'[f][a] = NotHere
      BY <1>4, <2>2, <3>1
    <3> QED
      BY <1>3, <1>4, <1>10, <2>1, <2>2, <3>2
  <2>3. CASE a \notin mine
    <3>1. \A f \in Executors : store'[f][a] = store[f][a]
      BY <1>4, <2>3
    <3>2. \A m \in sent : m.account # a
      BY <1>4, <2>3
    <3> QED
      BY <1>3, <1>10, <2>1, <3>1, <3>2
  <2> QED
    BY <2>2, <2>3
<1>14. ASSUME NEW m \in InFlight' PROVE Sent(m)'
  <2>1. CASE m \in InFlight
    <3>1. /\ First(m.tx, m.account)
          /\ m.to = To(m.tx) /\ At(m.tx - 1)[m.account] # m.to
          /\ \A b \in Mine(At(m.tx - 1)[m.account], m.tx) : Away(b, m.tx)
      BY <2>1 DEF AccountInv, Sent
    <3> QED
      BY <1>5, <1>6, <1>11, <3>1 DEF Sent
  <2>2. CASE m \in sent
    <3>1. /\ m.tx = t /\ First(t, m.account) /\ m.to = To(t) /\ At(t - 1)[m.account] = e
          /\ \A b \in Mine(e, t) : Away(b, t)'
      BY <1>1, <1>3, <1>4, <1>6, <2>2
    <3> QED
      BY <1>1, <1>3, <1>5, <1>11, <3>1 DEF Sent
  <2> QED
    BY <1>3, <2>1, <2>2
<1>15. \A m, n \in InFlight' : m.account = n.account => m = n
  <2>1. \A m, n \in InFlight : m.account = n.account => m = n
    BY DEF AccountInv
  <2> QED
    BY <1>3, <1>4, <1>7, <2>1
<1>16. AccountInv'
  BY <1>5, <1>12, <1>13, <1>14, <1>15 DEF AccountInv
<1> QED
  BY <1>8, <1>9, <1>16

LEMMA LeaveChangesNothing ==
  ASSUME Shape, AccountInv, NEW e \in Executors, NEW t \in Positions, Leaves(e, t), StatesAre'
  PROVE  NothingHappens
<1>1. PICK mine, to : mine = Mine(e, t) /\ to = To(t)
  OBVIOUS
<1>2. PICK sent : sent = StateTransfers(e, t, mine, to)
  OBVIOUS
<1>3. /\ \A a \in mine : store[e][a] # NotHere
      /\ UNCHANGED <<log, done>> /\ InFlight' = InFlight \cup sent
  BY <1>1, <1>2 DEF Leaves
<1>4. /\ \A m \in sent : m.account \in mine /\ m.state = store[e][m.account]
      /\ \A a \in mine : \E m \in sent : m.account = a
      /\ \A f \in Executors : \A a \in Accounts :
           store'[f][a] = IF f = e /\ a \in mine THEN NotHere ELSE store[f][a]
  BY <1>1, <1>2, LeaveFacts
<1>5. ASSUME NEW a \in Accounts PROVE CurrentState(a)' = CurrentState(a)
  <2>1. CASE a \in mine
    <3>1. CurrentState(a) = store[e][a]
      BY <1>3, <2>1, StatesFollow DEF StatesAre
    <3>2. PICK m \in sent : m.account = a
      BY <1>4, <2>1
    <3>3. CurrentState(a)' = m.state
      BY <1>3, <3>2 DEF StatesAre
    <3> QED
      BY <1>4, <3>1, <3>2, <3>3
  <2>2. CASE a \notin mine
    <3>1. \A f \in Executors : store'[f][a] = store[f][a]
      BY <1>4, <2>2
    <3>2. \A m : m.account = a => (m \in InFlight' <=> m \in InFlight)
      BY <1>3, <1>4, <2>2
    <3> QED
      BY <3>1, <3>2, CurrentSame
  <2> QED
    BY <2>1, <2>2
<1> QED
  BY <1>3, <1>5 DEF NothingHappens

-----------------------------------------------------------------------------
(* The queues when a transaction is handled *)

\* An executor finishes a transaction, as it handles it or from the head of its queues.
FromQueues(e, t) ==
  \/ t \in Ahead(e) /\ queues' = queues
  \/ /\ \A a \in Needs(e, t) : AtHead(e, a, t)
     /\ queues' = [queues EXCEPT ![e] = [a \in Accounts |->
                    IF a \in Needs(e, t) THEN Tail(queues[e][a]) ELSE queues[e][a]]]

PassedOn(e, t) ==
  /\ \A f \in Executors \ {e} : Ahead(f)' = Ahead(f)
  /\ \A u : u # t => (u \in Ahead(e)' <=> u \in Ahead(e))
  /\ t \notin Ahead(e)'

LEMMA FinishKeeps ==
  ASSUME Shape, QueueInv, NEW e \in Executors, NEW t \in Positions, UNCHANGED <<log, newScheduler>>,
         PassedOn(e, t), FromQueues(e, t), Finished(e, t)',
         \A f \in Executors : \A u : u # t => (Finished(f, u)' <=> Finished(f, u)),
         \A f \in Executors \ {e} : Needs(f, t) # {} => (Finished(f, t)' <=> Finished(f, t))
  PROVE  QueueInv'
<1>1. \A f \in Executors : Beside(f, t)
  BY DEF PassedOn, Beside
<1>2. ASSUME NEW f \in Executors, NEW a \in Accounts PROVE InLine(f, a)' /\ Accounted(f, a)'
  <2>1. InLine(f, a) /\ Accounted(f, a)
    BY DEF QueueInv
  <2>2. CASE f # e
    <3>1. queues'[f][a] = queues[f][a]
      BY <2>2 DEF Shape, FromQueues
    <3>2. a \notin Needs(f, t) \/ ((t \in Ahead(f)' <=> t \in Ahead(f)) /\ (Finished(f, t)' <=> Finished(f, t)))
      BY <2>2 DEF PassedOn
    <3> QED
      BY <1>1, <2>1, <3>1, <3>2, RestKeeps
  <2>3. CASE f = e /\ t \in Ahead(e) /\ queues' = queues
    <3>1. ~Waits(f, a, t)
      BY <2>1, <2>3 DEF InLine, Waits
    <3>2. ~Waits(f, a, t) /\ t \notin Ahead(f)' /\ Finished(f, t)' /\ queues'[f][a] = queues[f][a]
      BY <2>3, <3>1 DEF PassedOn
    <3> QED
      BY <1>1, <2>1, <3>2, RestKeeps
  <2>4. CASE /\ f = e /\ \A b \in Needs(e, t) : AtHead(e, b, t)
             /\ queues' = [queues EXCEPT ![e] = [b \in Accounts |->
                            IF b \in Needs(e, t) THEN Tail(queues[e][b]) ELSE queues[e][b]]]
    <3>1. queues'[f][a] = IF a \in Needs(f, t) THEN Tail(queues[f][a]) ELSE queues[f][a]
      BY <2>4 DEF Shape
    <3>2. CASE a \in Needs(f, t)
      <4>1. AtHead(f, a, t) /\ t \notin Ahead(f)' /\ Finished(f, t)' /\ queues'[f][a] = Tail(queues[f][a])
        BY <2>4, <3>1, <3>2 DEF PassedOn
      <4> QED
        BY <1>1, <2>1, <4>1, PopKeeps
    <3>3. CASE a \notin Needs(f, t)
      <4>1. queues'[f][a] = queues[f][a]
        BY <3>1, <3>3
      <4> QED
        BY <1>1, <2>1, <3>3, <4>1, RestKeeps
    <3> QED
      BY <3>2, <3>3
  <2> QED
    BY <2>2, <2>3, <2>4 DEF FromQueues
<1> QED
  BY <1>2 DEF QueueInv

\* A transaction joins the queues of the accounts it needs.
LEMMA EnqueueKeeps ==
  ASSUME Shape, QueueInv, AccountInv, NEW e \in Executors, NEW t \in Positions,
         UNCHANGED <<log, newScheduler, store, done>>, InFlight' = InFlight,
         t \in Ahead(e), PassedOn(e, t), \A u \in Positions : u \notin Ahead(e) => u < t,
         queues' = [queues EXCEPT ![e] = [a \in Accounts |->
                     IF a \in Needs(e, t) THEN Append(queues[e][a], Pending(e, t)) ELSE queues[e][a]]]
  PROVE  QueueInv' /\ AccountInv'
<1>1. AccountInv' /\ \A f, u : Finished(f, u)' <=> Finished(f, u)
  BY AccountSame
<1>2. \A f \in Executors : Beside(f, t)
  BY <1>1 DEF PassedOn, Beside
<1>3. ASSUME NEW f \in Executors, NEW a \in Accounts PROVE InLine(f, a)' /\ Accounted(f, a)'
  <2>1. InLine(f, a) /\ Accounted(f, a)
    BY DEF QueueInv
  <2>2. CASE f # e
    <3>1. queues'[f][a] = queues[f][a] /\ Ahead(f)' = Ahead(f)
      BY <2>2 DEF Shape, PassedOn
    <3>2. (t \in Ahead(f)' <=> t \in Ahead(f)) /\ (Finished(f, t)' <=> Finished(f, t))
      BY <1>1, <3>1
    <3> QED
      BY <1>2, <2>1, <3>1, <3>2, RestKeeps
  <2>3. CASE f = e /\ a \notin Needs(f, t)
    <3>1. queues'[f][a] = queues[f][a]
      BY <2>3 DEF Shape
    <3> QED
      BY <1>2, <2>1, <2>3, <3>1, RestKeeps
  <2>4. CASE f = e /\ a \in Needs(f, t)
    <3>1. queues'[f][a] = Append(queues[f][a], Pending(f, t))
      BY <2>4 DEF Shape
    <3>2. ~Finished(f, t)
      BY <2>1, <2>4 DEF Accounted
    <3>3. t \notin Ahead(f)' /\ ~Finished(f, t)' /\ \A u \in Positions : u \notin Ahead(f) => u < t
      BY <1>1, <2>4, <3>2 DEF PassedOn
    <3> QED
      BY <1>2, <2>1, <2>4, <3>1, <3>3, AppendKeeps
  <2> QED
    BY <2>2, <2>3, <2>4
<1> QED
  BY <1>1, <1>3 DEF QueueInv

LEMMA KeepsRunning ==
  ASSUME Inv, Shape', PlanInv', PlaceInv', NEW e \in Executors, NEW t \in Positions, NEW gone,
         NEW bank \in Banks, Runs(e, t, gone, bank), PassedOn(e, t), FromQueues(e, t)
  PROVE  Inv' /\ TakesEffect(t)
<1>1. Shape /\ QueueInv /\ AccountInv
  BY DEF Inv
<1>2. /\ AccountInv'
      /\ \A f \in Executors : Finished(f, t)'
      /\ \A f \in Executors : \A u : u # t => (Finished(f, u)' <=> Finished(f, u))
      /\ \A f \in Executors \ {e} : Needs(f, t) # {} => Finished(f, t)
  BY <1>1, RunKeeps
<1>3. UNCHANGED <<log, newScheduler>>
  BY DEF Runs
<1>4. QueueInv'
  BY <1>1, <1>2, <1>3, FinishKeeps
<1>5. StatesAre'
  BY <1>2, StatesFollow, PTL
<1>6. TakesEffect(t)
  BY <1>1, <1>5, RunTakesEffect
<1> QED
  BY <1>2, <1>4, <1>6 DEF Inv

LEMMA KeepsLeaving ==
  ASSUME Inv, Shape', PlanInv', PlaceInv', NEW e \in Executors, NEW t \in Positions,
         Leaves(e, t), PassedOn(e, t), FromQueues(e, t)
  PROVE  Inv' /\ NothingHappens
<1>1. Shape /\ QueueInv /\ AccountInv
  BY DEF Inv
<1>2. /\ AccountInv'
      /\ Finished(e, t)'
      /\ \A f \in Executors : \A u : f # e \/ u # t => (Finished(f, u)' <=> Finished(f, u))
  BY <1>1, LeaveKeeps
<1>3. UNCHANGED <<log, newScheduler>>
  BY DEF Leaves
<1>4. /\ \A f \in Executors : \A u : u # t => (Finished(f, u)' <=> Finished(f, u))
      /\ \A f \in Executors \ {e} : Needs(f, t) # {} => (Finished(f, t)' <=> Finished(f, t))
  BY <1>2
<1>5. QueueInv'
  BY <1>1, <1>2, <1>3, <1>4, FinishKeeps
<1>6. StatesAre'
  BY <1>2, StatesFollow, PTL
<1>7. NothingHappens
  BY <1>1, <1>6, LeaveChangesNothing
<1> QED
  BY <1>2, <1>5, <1>7 DEF Inv

-----------------------------------------------------------------------------
(* One transaction of a batch *)

\* The first of the plan is the first of what is ahead.
LEMMA HandleFirst ==
  ASSUME Shape, PlanInv, NEW e \in Executors, NEW p \in plan[e], \A q \in plan[e] : p.tx <= q.tx
  PROVE  \E t \in Positions : /\ p = Pending(e, t) /\ t \in Ahead(e)
                              /\ \A u \in Positions : u \notin Ahead(e) <=> u < t
<1>1. PICK h \in Nat, k \in Nat : Progress(e, h, k)
  BY DEF PlanInv
<1>2. /\ Ahead(e) = {t \in Positions : t > h}
      /\ Until(e) \in Nat /\ Until(e) <= Len(log.txs) /\ h <= k /\ k <= Until(e)
  BY <1>1, AheadOf
<1>3. plan[e] = {Pending(e, t) : t \in h + 1 .. k} /\ \A t : Pending(e, t).tx = t
  BY <1>1 DEF Progress, Pending
<1>4. PICK t \in h + 1 .. k : p = Pending(e, t)
  BY <1>3
<1>5. t = h + 1
  <2>1. h + 1 \in h + 1 .. k
    BY <1>1, <1>4
  <2>2. Pending(e, h + 1) \in plan[e]
    BY <1>3, <2>1
  <2>3. Pending(e, t).tx <= Pending(e, h + 1).tx
    BY <1>4, <2>2
  <2>4. t <= h + 1
    BY <1>3, <2>3
  <2> QED
    BY <1>1, <1>4, <2>4
<1>6. Len(log.txs) \in Nat /\ \A u \in Positions : u \in Nat
  BY LogFacts DEF Shape, Positions
<1>7. t \in Positions
  BY <1>1, <1>2, <1>4, <1>6 DEF Positions
<1>8. \A u \in Positions : u \notin Ahead(e) <=> u < t
  BY <1>1, <1>2, <1>5, <1>6
<1>9. t \in Ahead(e)
  BY <1>1, <1>2, <1>5, <1>7
<1> QED
  BY <1>4, <1>7, <1>8, <1>9

LEMMA HandleProgress ==
  ASSUME Shape, PlanInv, Shape', NEW e \in Executors, phase[e] = "execute",
         NEW t \in Positions, t \in Ahead(e), \A u \in Positions : u \notin Ahead(e) <=> u < t,
         Pending(e, t) \in plan[e],
         plan' = [plan EXCEPT ![e] = @ \ {Pending(e, t)}],
         UNCHANGED <<log, newScheduler, phase, next, batch, owners, loads, partition>>
  PROVE  PlanInv' /\ PassedOn(e, t)
<1>1. PICK h \in Nat, k \in Nat : Progress(e, h, k)
  BY DEF PlanInv
<1>2. Ahead(e) = {u \in Positions : u > h}
  BY <1>1, AheadOf
<1>3. plan[e] = {Pending(e, u) : u \in h + 1 .. k} /\ \A u : Pending(e, u).tx = u
  BY <1>1 DEF Progress, Pending
<1>4. Len(log.txs) \in Nat /\ \A u \in Positions : u \in Nat
  BY LogFacts DEF Shape, Positions
<1>5. t \in h + 1 .. k
  BY <1>3
<1>6. t = h + 1
  <2>1. h + 1 \in Positions
    BY <1>1, <1>4, <1>5 DEF Positions
  <2>2. h + 1 \in Ahead(e)
    BY <1>1, <1>2, <2>1
  <2>3. ~(h + 1 < t)
    BY <2>1, <2>2
  <2> QED
    BY <1>1, <1>5, <2>3
<1>7. plan'[e] = {Pending(e, u) : u \in t + 1 .. k}
  <2>1. plan'[e] = plan[e] \ {Pending(e, t)}
    BY DEF Shape
  <2>2. \A x : x \in plan'[e] <=> \E u \in t + 1 .. k : x = Pending(e, u)
    <3>1. \A u \in h + 1 .. k : u \in t + 1 .. k \/ u = t
      BY <1>1, <1>6
    <3>2. \A u \in t + 1 .. k : u \in h + 1 .. k /\ u # t
      BY <1>1, <1>6
    <3>3. \A u : u # t => Pending(e, u) # Pending(e, t)
      BY <1>3
    <3> QED
      BY <1>3, <2>1, <3>1, <3>2, <3>3
  <2> QED
    BY <2>2
<1>8. Progress(e, t, k)'
  <2>1. Begun(e)' = Begun(e) /\ Until(e)' = Until(e) /\ NumBatches' = NumBatches
    BY DEF Begun, Until, Start, NumBatches
  <2>2. After(k)' = After(k) /\ At(k)' = At(k)
    BY ScheduleSame
  <2>3. plan'[e] = {Pending(e, u)' : u \in t + 1 .. k}
    BY <1>7, ScheduleSame
  <2>4. t \in 0 .. k
    BY <1>1, <1>5
  <2> QED
    BY <1>1, <2>1, <2>2, <2>3, <2>4 DEF Progress
<1>9. \A f \in Executors \ {e} : SameProgress(f)
  BY DEF Shape, SameProgress
<1>10. /\ PlanInv' /\ Ahead(e)' = {u \in Positions : u > t}
       /\ \A f \in Executors \ {e} : Ahead(f)' = Ahead(f)
  <2>1. t \in Nat
    BY <1>4
  <2> QED
    BY <1>1, <1>8, <1>9, <2>1, ProgressMade
<1>11. \A u : u # t => (u \in Ahead(e)' <=> u \in Ahead(e))
  <2>1. \A u \in Positions : u # t => (u > t <=> u > h)
    BY <1>1, <1>4, <1>6
  <2> QED
    BY <1>2, <1>10, <2>1
<1>12. t \notin Ahead(e)'
  <2>1. ~(t > t)
    BY <1>4
  <2> QED
    BY <1>10, <2>1
<1> QED
  BY <1>10, <1>11, <1>12 DEF PassedOn

\* Whoever is ready to execute is the next one on its accounts.
LEMMA ReadyIsFirst ==
  ASSUME Shape, PlanInv, QueueInv, AccountInv, NEW e \in Executors, NEW t \in Positions, t \notin done,
         \A u \in Positions : u < t => u \notin Ahead(e), IsReadyToExecute(e, t, Needs(e, t))
  PROVE  \A a \in Needs(e, t) : First(t, a) /\ At(t - 1)[a] = e /\ store[e][a] # NotHere
<1> SUFFICES ASSUME NEW a \in Needs(e, t)
             PROVE  First(t, a) /\ At(t - 1)[a] = e /\ store[e][a] # NotHere
  OBVIOUS
<1>1. store[e][a] # NotHere /\ (queues[e][a] = << >> \/ AtHead(e, a, t))
  BY DEF IsReadyToExecute
<1>2. a \in Accounts /\ InLine(e, a)
  BY NeedsFacts DEF Shape, QueueInv
<1>3. ASSUME NEW u, Waits(e, a, u) PROVE t <= u
  <2>1. AtHead(e, a, t)
    BY <1>1, <1>2, <1>3, HeadWaits
  <2>2. PICK i \in DOMAIN queues[e][a] : queues[e][a][i].tx = u
    BY <1>3 DEF Waits
  <2>3. u \in Nat /\ t \in Nat
    BY <1>2, <2>2, QueueFacts, TxFacts DEF Shape
  <2>4. t = u \/ t < u
    BY <1>2, <1>3, <2>1, HeadFacts
  <2> QED
    BY <2>3, <2>4
<1> QED
  BY <1>1, <1>3, HeldIsFirst

\* What is at the head of a queue that its account is ready for heads all its queues.
LEMMA HeadIsReady ==
  ASSUME Shape, PlanInv, QueueInv, NEW e \in Executors, NEW a \in Accounts, NEW t, AtHead(e, a, t)
  PROVE  /\ t \in Positions /\ Head(queues[e][a]) = Pending(e, t) /\ t \notin done /\ a \in Needs(e, t)
         /\ t \notin Ahead(e) /\ \A u \in Positions : u < t => u \notin Ahead(e)
         /\ \A b \in Needs(e, t) : IsReadyToExecute(e, t, {b}) => AtHead(e, b, t)
<1>1. /\ t \in Positions /\ Head(queues[e][a]) = Pending(e, t) /\ t \notin done /\ a \in Needs(e, t)
      /\ t \notin Ahead(e) /\ ~Finished(e, t)
  BY HeadFacts DEF QueueInv
<1>2. \A u \in Positions : u < t => u \notin Ahead(e)
  <2>1. PICK h \in Nat, k \in Nat : Progress(e, h, k)
    BY DEF PlanInv
  <2>2. Ahead(e) = {u \in Positions : u > h}
    BY <2>1, AheadOf
  <2>3. \A u \in Positions : u \in Nat
    BY TxFacts DEF Shape
  <2> QED
    BY <1>1, <2>1, <2>2, <2>3
<1>3. ASSUME NEW b \in Needs(e, t), IsReadyToExecute(e, t, {b}) PROVE AtHead(e, b, t)
  <2>1. b \in Accounts
    BY <1>1, NeedsFacts DEF Shape
  <2>2. Waits(e, b, t)
    BY <1>1, <2>1 DEF QueueInv, Accounted
  <2>3. queues[e][b] # << >>
    BY <2>2 DEF Waits
  <2> QED
    BY <1>3, <2>3 DEF IsReadyToExecute
<1> QED
  BY <1>1, <1>2, <1>3

\* What no step of handle_transaction_by_locality and drain_pending_queues touches.
Apart ==
  UNCHANGED <<log, newScheduler, inbox, next, buffer, batch, owners, loads, phase, partition,
              incoming, lost, gaps>>

LEMMA ApartShape ==
  ASSUME Shape, Apart, plan' \in [Executors -> SUBSET Pendings],
         queues' \in [Executors -> [Accounts -> Seq(Pendings)]],
         store' \in [Executors -> [Accounts -> AccountState \cup {NotHere}]],
         net' \subseteq Transfers, drained' \in [Executors -> SUBSET Transfers],
         todo' \in [Executors -> SUBSET Positions], work' \in [Executors -> SUBSET Accounts],
         done' \subseteq Positions
  PROVE  Shape'
  BY DEF Shape, Apart, Positions, Pendings, Localities, Transfers, Dispatched, NumBatches

\* An executor runs t on the accounts it holds.
LEMMA KeepsRunningHere ==
  ASSUME Inv, Apart, NEW e \in Executors, NEW t \in Positions, To(t) = e, t \notin done,
         \A u \in Positions : u < t => u \notin Ahead(e), IsReadyToExecute(e, t, On(t)),
         ExecuteWith(e, t, {}), FromQueues(e, t), Shape' => PlanInv' /\ PassedOn(e, t),
         plan' \in [Executors -> SUBSET Pendings],
         queues' \in [Executors -> [Accounts -> Seq(Pendings)]],
         work' \in [Executors -> SUBSET Accounts], UNCHANGED <<net, drained, todo>>
  PROVE  Inv' /\ TakesEffect(t)
<1>1. Shape /\ PlanInv /\ QueueInv /\ AccountInv /\ PlaceInv
  BY DEF Inv
<1>2. Needs(e, t) = On(t)
  BY <1>1, NeedsFacts DEF Shape
<1>3. \A a \in On(t) : First(t, a) /\ store[e][a] # NotHere
  BY <1>1, <1>2, ReadyIsFirst
<1>4. PICK bank : bank = store[e]
  OBVIOUS
<1>5. bank \in Banks
  BY <1>1, <1>4 DEF Shape, Banks
<1>6. store' = [store EXCEPT ![e] = Executed(bank, Tx(t))] /\ done' = done \cup {t}
  <2>1. [a \in Accounts |-> store[e][a]] = bank
    BY <1>4, <1>5 DEF Banks
  <2> QED
    BY <2>1 DEF ExecuteWith
<1>7. PICK gone : gone = {}
  OBVIOUS
<1>8. Runs(e, t, gone, bank)
  <2>1. InFlight' = InFlight \ gone
    BY <1>7 DEF InFlight, Apart
  <2> QED
    BY <1>3, <1>4, <1>6, <1>7, <2>1 DEF Runs, Apart
<1>9. store' \in [Executors -> [Accounts -> AccountState \cup {NotHere}]]
  BY <1>1, <1>5, <1>8, RunFacts
<1>10. Shape'
  <2>1. /\ net' \subseteq Transfers /\ drained' \in [Executors -> SUBSET Transfers]
        /\ todo' \in [Executors -> SUBSET Positions] /\ done' \subseteq Positions
    BY <1>1, <1>6 DEF Shape
  <2> QED
    BY <1>1, <1>9, <2>1, ApartShape
<1>11. PlaceInv'
  <2>1. \A u : To(u)' = To(u)
    BY ScheduleSame DEF Apart
  <2> QED
    BY <1>1, <2>1 DEF PlaceInv, Apart
<1> QED
  BY <1>5, <1>8, <1>10, <1>11, KeepsRunning

\* An executor sends the accounts of t that it holds.
LEMMA KeepsMigratingOut ==
  ASSUME Inv, Apart, NEW e \in Executors, NEW t \in Positions, To(t) # e, t \notin done,
         \A u \in Positions : u < t => u \notin Ahead(e), IsReadyToExecute(e, t, Mine(e, t)),
         MigrateOut(e, t, Mine(e, t), To(t)), FromQueues(e, t),
         Shape' => PlanInv' /\ PassedOn(e, t),
         plan' \in [Executors -> SUBSET Pendings],
         queues' \in [Executors -> [Accounts -> Seq(Pendings)]],
         UNCHANGED <<work, done, drained, todo>>
  PROVE  Inv' /\ NothingHappens
<1>1. Shape /\ PlanInv /\ QueueInv /\ AccountInv /\ PlaceInv
  BY DEF Inv
<1>2. Needs(e, t) = Mine(e, t)
  BY <1>1, NeedsFacts DEF Shape
<1>3. \A a \in Mine(e, t) : First(t, a) /\ store[e][a] # NotHere
  BY <1>1, <1>2, ReadyIsFirst
<1>4. PICK sent : sent = StateTransfers(e, t, Mine(e, t), To(t))
  OBVIOUS
<1>5. net' = net \cup sent
  BY <1>4 DEF MigrateOut
<1>6. Leaves(e, t)
  <2>1. InFlight' = InFlight \cup sent
    BY <1>5 DEF InFlight, Apart
  <2>2. store' = [store EXCEPT ![e] = [a \in Accounts |->
                    IF a \in Mine(e, t) THEN NotHere ELSE store[e][a]]]
    BY <1>1 DEF MigrateOut, Shape
  <2> QED
    BY <1>3, <1>4, <2>1, <2>2 DEF Leaves, Apart
<1>7. /\ sent \subseteq Transfers /\ \A m \in sent : m \notin InFlight
      /\ store' \in [Executors -> [Accounts -> AccountState \cup {NotHere}]]
  BY <1>1, <1>4, <1>6, LeaveFacts
<1>8. Shape'
  <2>1. /\ net' \subseteq Transfers /\ drained' \in [Executors -> SUBSET Transfers]
        /\ todo' \in [Executors -> SUBSET Positions] /\ done' \subseteq Positions
        /\ work' \in [Executors -> SUBSET Accounts]
    BY <1>1, <1>5, <1>7 DEF Shape
  <2> QED
    BY <1>1, <1>7, <2>1, ApartShape
<1>9. PlaceInv'
  <2>1. \A u : To(u)' = To(u)
    BY ScheduleSame DEF Apart
  <2>2. \A m \in sent : m \notin lost /\ \A f \in Executors : m \notin incoming[f] \cup drained[f]
    BY <1>7 DEF InFlight
  <2> QED
    BY <1>1, <1>5, <2>1, <2>2 DEF PlaceInv, Apart
<1> QED
  BY <1>6, <1>8, <1>9, KeepsLeaving

LEMMA KeepsHandling ==
  ASSUME Inv, NEW e \in Executors, HandleTransaction(e)
  PROVE  Inv' /\ (NothingHappens \/ \E t : TakesEffect(t))
<1>1. Shape /\ PlanInv /\ QueueInv /\ AccountInv /\ PlaceInv
  BY DEF Inv
<1>2. Apart /\ UNCHANGED <<drained, todo, work>> /\ phase[e] = "execute"
  BY DEF HandleTransaction, Apart, batchVars, schedulerVars, lossVars
<1>3. PICK p \in plan[e] :
        /\ \A q \in plan[e] : p.tx <= q.tx
        /\ plan' = [plan EXCEPT ![e] = @ \ {p}]
        /\ \/ /\ p.locality.kind = "local"
              /\ HandleLocal(e, p)
           \/ /\ p.locality.kind = "out"
              /\ HandleMigrateOut(e, p)
           \/ /\ p.locality.kind = "in"
              /\ Enqueue(e, RequiredAccounts(Tx(p.tx)), p)
              /\ UNCHANGED <<store, done, net>>
           \/ /\ p.locality.kind = "others"
              /\ UNCHANGED <<queues, store, done, net>>
  BY DEF HandleTransaction
<1>4. PICK t \in Positions : /\ p = Pending(e, t) /\ t \in Ahead(e)
                             /\ \A u \in Positions : u \notin Ahead(e) <=> u < t
  BY <1>1, <1>3, HandleFirst
<1>5. PICK l : l = p.locality
  OBVIOUS
<1>6. /\ p \in Pendings /\ p.tx = t /\ l.dest = To(t) /\ RequiredAccounts(Tx(p.tx)) = On(t)
      /\ l.kind \in {"local", "in"} <=> To(t) = e
      /\ l.kind = "out" <=> To(t) # e /\ Mine(e, t) # {}
      /\ l.kind = "out" => l.moved = Mine(e, t)
      /\ l.kind = "others" <=> To(t) # e /\ Mine(e, t) = {}
  BY <1>1, <1>4, <1>5, PendingFacts DEF Shape, On
<1>7. /\ To(t) = e => Needs(e, t) = On(t)
      /\ To(t) # e => Needs(e, t) = Mine(e, t)
      /\ Needs(e, t) \subseteq Accounts /\ On(t) # {}
  BY <1>1, NeedsFacts, TxFacts DEF Shape
<1>8. ASSUME Needs(e, t) # {} PROVE t \notin done
  <2>1. PICK a \in Needs(e, t) : a \in Accounts
    BY <1>7, <1>8
  <2>2. ~Finished(e, t)
    BY <1>1, <1>4, <2>1 DEF QueueInv, Accounted
  <2> QED
    BY <2>2 DEF Finished
<1>9. plan' \in [Executors -> SUBSET Pendings]
  BY <1>1, <1>3 DEF Shape
<1>10. ASSUME Shape' PROVE PlanInv' /\ PassedOn(e, t)
  <2>1. UNCHANGED <<log, newScheduler, phase, next, batch, owners, loads, partition>>
    BY <1>2 DEF Apart
  <2> QED
    BY <1>1, <1>2, <1>3, <1>4, <1>10, <2>1, HandleProgress
<1>11. CASE l.kind = "local" /\ IsReadyToExecute(e, t, On(t)) /\ ExecuteWith(e, t, {})
            /\ UNCHANGED <<queues, net>>
  <2>1. To(t) = e /\ t \notin done
    BY <1>6, <1>7, <1>8, <1>11
  <2>2. queues' \in [Executors -> [Accounts -> Seq(Pendings)]] /\ work' \in [Executors -> SUBSET Accounts]
    BY <1>1, <1>2, <1>11 DEF Shape
  <2>3. FromQueues(e, t)
    BY <1>4, <1>11 DEF FromQueues
  <2> QED
    BY <1>2, <1>4, <1>9, <1>10, <1>11, <2>1, <2>2, <2>3, KeepsRunningHere
<1>12. CASE l.kind = "out" /\ IsReadyToExecute(e, t, Mine(e, t)) /\ MigrateOut(e, t, Mine(e, t), To(t))
            /\ UNCHANGED <<queues, done>>
  <2>1. To(t) # e /\ t \notin done
    BY <1>6, <1>7, <1>8, <1>12
  <2>2. queues' \in [Executors -> [Accounts -> Seq(Pendings)]]
    BY <1>1, <1>12 DEF Shape
  <2>3. FromQueues(e, t)
    BY <1>4, <1>12 DEF FromQueues
  <2> QED
    BY <1>2, <1>4, <1>9, <1>10, <1>12, <2>1, <2>2, <2>3, KeepsMigratingOut
<1>13. CASE /\ queues' = [queues EXCEPT ![e] = [a \in Accounts |->
                            IF a \in Needs(e, t) THEN Append(queues[e][a], p) ELSE queues[e][a]]]
            /\ UNCHANGED <<store, done, net>>
  <2>1. queues' \in [Executors -> [Accounts -> Seq(Pendings)]]
    <3>1. \A a \in Accounts : Append(queues[e][a], p) \in Seq(Pendings)
      BY <1>1, <1>6 DEF Shape
    <3> QED
      BY <1>1, <1>13, <3>1 DEF Shape
  <2>2. InFlight' = InFlight
    BY <1>2, <1>13 DEF InFlight, Apart
  <2>3. Shape'
    <3>1. /\ store' \in [Executors -> [Accounts -> AccountState \cup {NotHere}]]
          /\ net' \subseteq Transfers /\ drained' \in [Executors -> SUBSET Transfers]
          /\ todo' \in [Executors -> SUBSET Positions] /\ work' \in [Executors -> SUBSET Accounts]
          /\ done' \subseteq Positions
      BY <1>1, <1>2, <1>13 DEF Shape
    <3> QED
      BY <1>1, <1>2, <1>9, <2>1, <3>1, ApartShape
  <2>4. PlanInv' /\ PassedOn(e, t)
    BY <1>10, <2>3
  <2>5. QueueInv' /\ AccountInv'
    <3>1. \A u \in Positions : u \notin Ahead(e) => u < t
      BY <1>4
    <3>2. UNCHANGED <<log, newScheduler, store, done>>
      BY <1>2, <1>13 DEF Apart
    <3> QED
      BY <1>1, <1>4, <1>13, <2>2, <2>4, <3>1, <3>2, EnqueueKeeps
  <2>6. PlaceInv'
    <3>1. \A u : To(u)' = To(u)
      BY <1>2, ScheduleSame DEF Apart
    <3> QED
      BY <1>1, <1>2, <1>13, <3>1 DEF PlaceInv, Apart
  <2>7. NothingHappens
    <3>1. \A a \in Accounts : CurrentState(a)' = CurrentState(a)
      BY <1>13, <2>2 DEF CurrentState
    <3> QED
      BY <1>2, <1>13, <3>1 DEF NothingHappens, Apart
  <2> QED
    BY <2>3, <2>4, <2>5, <2>6, <2>7 DEF Inv
<1>14. ASSUME NEW accts, accts = Needs(e, t), Enqueue(e, accts, p)
       PROVE  queues' = [queues EXCEPT ![e] = [a \in Accounts |->
                           IF a \in Needs(e, t) THEN Append(queues[e][a], p) ELSE queues[e][a]]]
  BY <1>1, <1>14 DEF Enqueue, Shape
<1>15. CASE l.kind = "local" /\ HandleLocal(e, p)
  <2>1. CASE IsReadyToExecute(e, t, On(t))
    <3>1. ExecuteWith(e, t, {}) /\ UNCHANGED <<queues, net>>
      BY <1>6, <1>15, <2>1 DEF HandleLocal
    <3> QED
      BY <1>11, <1>15, <2>1, <3>1
  <2>2. CASE ~IsReadyToExecute(e, t, On(t))
    <3>1. Enqueue(e, On(t), p) /\ UNCHANGED <<store, done, net>>
      BY <1>6, <1>15, <2>2 DEF HandleLocal
    <3>2. On(t) = Needs(e, t)
      BY <1>6, <1>7, <1>15
    <3> QED
      BY <1>13, <1>14, <3>1, <3>2
  <2> QED
    BY <2>1, <2>2
<1>16. CASE l.kind = "out" /\ HandleMigrateOut(e, p)
  <2>1. l.moved = Mine(e, t) /\ l.dest = To(t) /\ Mine(e, t) = Needs(e, t)
    BY <1>6, <1>7, <1>16
  <2>2. CASE IsReadyToExecute(e, t, Mine(e, t))
    <3>1. MigrateOut(e, t, Mine(e, t), To(t)) /\ UNCHANGED <<queues, done>>
      BY <1>5, <1>6, <1>16, <2>1, <2>2 DEF HandleMigrateOut
    <3> QED
      BY <1>12, <1>16, <2>2, <3>1
  <2>3. CASE ~IsReadyToExecute(e, t, Mine(e, t))
    <3>1. Enqueue(e, Mine(e, t), p) /\ UNCHANGED <<store, done, net>>
      BY <1>5, <1>6, <1>16, <2>1, <2>3 DEF HandleMigrateOut
    <3> QED
      BY <1>13, <1>14, <2>1, <3>1
  <2> QED
    BY <2>2, <2>3
<1>17. CASE l.kind = "in" /\ Enqueue(e, RequiredAccounts(Tx(p.tx)), p) /\ UNCHANGED <<store, done, net>>
  BY <1>6, <1>7, <1>13, <1>14, <1>17
<1>18. CASE l.kind = "others" /\ UNCHANGED <<queues, store, done, net>>
  <2>1. Needs(e, t) = {}
    BY <1>6, <1>7, <1>18
  <2>2. queues = [queues EXCEPT ![e] = [a \in Accounts |-> queues[e][a]]]
    BY <1>1 DEF Shape
  <2>3. [a \in Accounts |-> IF a \in Needs(e, t) THEN Append(queues[e][a], p) ELSE queues[e][a]]
          = [a \in Accounts |-> queues[e][a]]
    BY <2>1
  <2> QED
    BY <1>13, <1>18, <2>2, <2>3
<1> QED
  BY <1>3, <1>5, <1>15, <1>16, <1>17, <1>18

-----------------------------------------------------------------------------
(* process_incoming_transfers and drain_pending_queues *)

LEMMA PassedSame ==
  ASSUME Shape, PlanInv, Apart, UNCHANGED plan, NEW e \in Executors, NEW t, t \notin Ahead(e)
  PROVE  PlanInv' /\ PassedOn(e, t) /\ \A f \in Executors : Ahead(f)' = Ahead(f)
<1>1. \A f \in Executors : SameProgress(f)
  BY DEF Apart, SameProgress
<1>2. PlanInv' /\ \A f \in Executors : Ahead(f)' = Ahead(f)
  BY <1>1, NoProgress DEF Apart
<1> QED
  BY <1>2 DEF PassedOn

LEMMA PopShape ==
  ASSUME Shape, NEW e \in Executors, NEW accts \in SUBSET Accounts, NEW t,
         \A a \in accts : AtHead(e, a, t), Pop(e, accts)
  PROVE  /\ queues' \in [Executors -> [Accounts -> Seq(Pendings)]]
         /\ queues' = [queues EXCEPT ![e] = [a \in Accounts |->
                        IF a \in accts THEN Tail(queues[e][a]) ELSE queues[e][a]]]
<1>1. queues' = [queues EXCEPT ![e] = [a \in Accounts |->
                   IF a \in accts THEN Tail(queues[e][a]) ELSE queues[e][a]]]
  BY DEF Pop, Shape
<1>2. \A a \in accts : Tail(queues[e][a]) \in Seq(Pendings)
  BY DEF AtHead, Shape
<1>3. queues' \in [Executors -> [Accounts -> Seq(Pendings)]]
  BY <1>1, <1>2 DEF Shape
<1> QED
  BY <1>1, <1>3

LEMMA KeepsDrainingHead ==
  ASSUME Inv, NEW e \in Executors, NEW a \in work[e], DrainHead(e, a)
  PROVE  Inv' /\ (NothingHappens \/ \E t : TakesEffect(t))
<1>1. Shape /\ PlanInv /\ QueueInv /\ AccountInv /\ PlaceInv /\ a \in Accounts
  BY DEF Inv, Shape
<1>2. Apart /\ UNCHANGED <<plan, drained, todo>>
  BY DEF DrainHead, Apart, batchVars, schedulerVars, lossVars
<1>3. plan' \in [Executors -> SUBSET Pendings]
  BY <1>1, <1>2 DEF Shape
<1>4. PICK p, t : p = Head(queues[e][a]) /\ t = p.tx
  OBVIOUS
<1>5. \/ /\ queues[e][a] # << >> /\ p.locality.kind = "local" /\ IsReadyToExecute(e, t, On(t))
         /\ Pop(e, On(t)) /\ ExecuteWith(e, t, {})
         /\ work' = [work EXCEPT ![e] = @ \cup On(t)]
         /\ UNCHANGED net
      \/ /\ queues[e][a] # << >> /\ p.locality.kind = "out" /\ IsReadyToExecute(e, t, p.locality.moved)
         /\ Pop(e, p.locality.moved)
         /\ MigrateOut(e, t, p.locality.moved, p.locality.dest)
         /\ UNCHANGED <<work, done>>
      \/ /\ work' = [work EXCEPT ![e] = @ \ {a}]
         /\ UNCHANGED <<queues, store, net, done>>
  BY <1>4 DEF DrainHead, CanRun, CanLeave, On
<1>6. ASSUME queues[e][a] # << >>
      PROVE  /\ t \in Positions /\ p = Pending(e, t) /\ t \notin done
             /\ t \notin Ahead(e) /\ \A u \in Positions : u < t => u \notin Ahead(e)
             /\ \A b \in Needs(e, t) : IsReadyToExecute(e, t, {b}) => AtHead(e, b, t)
  <2>1. AtHead(e, a, t)
    BY <1>4, <1>6 DEF AtHead
  <2> QED
    BY <1>1, <1>4, <2>1, HeadIsReady
<1>7. ASSUME NEW accts, IsReadyToExecute(e, t, accts)
      PROVE  \A b \in accts : IsReadyToExecute(e, t, {b})
  BY <1>7 DEF IsReadyToExecute
<1>8. ASSUME t \in Positions
      PROVE  /\ To(t) = e => Needs(e, t) = On(t)
             /\ To(t) # e => Needs(e, t) = Mine(e, t)
             /\ On(t) \subseteq Accounts /\ Mine(e, t) \subseteq Accounts
  BY <1>1, <1>8, NeedsFacts, TxFacts DEF Shape
<1>9. CASE /\ queues[e][a] # << >> /\ p.locality.kind = "local" /\ IsReadyToExecute(e, t, On(t))
           /\ Pop(e, On(t)) /\ ExecuteWith(e, t, {})
           /\ work' = [work EXCEPT ![e] = @ \cup On(t)]
           /\ UNCHANGED net
  <2>1. /\ t \in Positions /\ p = Pending(e, t) /\ t \notin done
        /\ t \notin Ahead(e) /\ \A u \in Positions : u < t => u \notin Ahead(e)
    BY <1>6, <1>9
  <2>2. To(t) = e
    BY <1>1, <1>9, <2>1, PendingFacts DEF Shape
  <2>3. Needs(e, t) = On(t) /\ On(t) \subseteq Accounts
    BY <1>8, <2>1, <2>2
  <2>4. \A b \in On(t) : AtHead(e, b, t)
    BY <1>6, <1>7, <1>9, <2>3
  <2>5. PICK accts : accts = On(t)
    OBVIOUS
  <2>6. /\ queues' \in [Executors -> [Accounts -> Seq(Pendings)]]
        /\ queues' = [queues EXCEPT ![e] = [b \in Accounts |->
                       IF b \in accts THEN Tail(queues[e][b]) ELSE queues[e][b]]]
    <3>1. accts \in SUBSET Accounts /\ Pop(e, accts) /\ \A b \in accts : AtHead(e, b, t)
      BY <1>9, <2>3, <2>4, <2>5
    <3> QED
      BY <1>1, <3>1, PopShape
  <2>7. FromQueues(e, t)
    BY <2>3, <2>4, <2>5, <2>6 DEF FromQueues
  <2>8. work' \in [Executors -> SUBSET Accounts]
    BY <1>1, <1>9, <2>3 DEF Shape
  <2>9. PlanInv' /\ PassedOn(e, t)
    BY <1>1, <1>2, <2>1, PassedSame
  <2> QED
    BY <1>2, <1>3, <1>9, <2>1, <2>2, <2>6, <2>7, <2>8, <2>9, KeepsRunningHere
<1>10. CASE /\ queues[e][a] # << >> /\ p.locality.kind = "out" /\ IsReadyToExecute(e, t, p.locality.moved)
            /\ Pop(e, p.locality.moved)
            /\ MigrateOut(e, t, p.locality.moved, p.locality.dest)
            /\ UNCHANGED <<work, done>>
  <2>1. /\ t \in Positions /\ p = Pending(e, t) /\ t \notin done
        /\ t \notin Ahead(e) /\ \A u \in Positions : u < t => u \notin Ahead(e)
    BY <1>6, <1>10
  <2>2. To(t) # e /\ p.locality.moved = Mine(e, t) /\ p.locality.dest = To(t)
    BY <1>1, <1>10, <2>1, PendingFacts DEF Shape
  <2>3. Needs(e, t) = Mine(e, t) /\ Mine(e, t) \subseteq Accounts
    BY <1>8, <2>1, <2>2
  <2>4. PICK accts : accts = Mine(e, t)
    OBVIOUS
  <2>5. IsReadyToExecute(e, t, accts) /\ Pop(e, accts) /\ MigrateOut(e, t, Mine(e, t), To(t))
    BY <1>10, <2>2, <2>4
  <2>6. \A b \in accts : AtHead(e, b, t)
    BY <1>6, <1>7, <1>10, <2>3, <2>4, <2>5
  <2>7. /\ queues' \in [Executors -> [Accounts -> Seq(Pendings)]]
        /\ queues' = [queues EXCEPT ![e] = [b \in Accounts |->
                       IF b \in accts THEN Tail(queues[e][b]) ELSE queues[e][b]]]
    <3>1. accts \in SUBSET Accounts
      BY <2>3, <2>4
    <3> QED
      BY <1>1, <2>5, <2>6, <3>1, PopShape
  <2>8. FromQueues(e, t)
    BY <2>3, <2>4, <2>6, <2>7 DEF FromQueues
  <2>9. PlanInv' /\ PassedOn(e, t)
    BY <1>1, <1>2, <2>1, PassedSame
  <2>10. IsReadyToExecute(e, t, Mine(e, t))
    BY <2>4, <2>5
  <2> QED
    BY <1>2, <1>3, <1>10, <2>1, <2>2, <2>5, <2>7, <2>8, <2>9, <2>10, KeepsMigratingOut
<1>11. CASE /\ work' = [work EXCEPT ![e] = @ \ {a}]
            /\ UNCHANGED <<queues, store, net, done>>
  <2>1. Shape'
    <3>1. work' \in [Executors -> SUBSET Accounts]
      BY <1>1, <1>11 DEF Shape
    <3>2. /\ queues' \in [Executors -> [Accounts -> Seq(Pendings)]]
          /\ store' \in [Executors -> [Accounts -> AccountState \cup {NotHere}]]
          /\ net' \subseteq Transfers /\ drained' \in [Executors -> SUBSET Transfers]
          /\ todo' \in [Executors -> SUBSET Positions] /\ done' \subseteq Positions
      BY <1>1, <1>2, <1>11 DEF Shape
    <3> QED
      BY <1>1, <1>2, <1>3, <3>1, <3>2, ApartShape
  <2>2. PlanInv' /\ \A f \in Executors : Ahead(f)' = Ahead(f)
    <3>1. \A f \in Executors : SameProgress(f)
      BY <1>2 DEF Apart, SameProgress
    <3> QED
      BY <1>1, <1>2, <3>1, NoProgress DEF Apart
  <2>3. PlaceInv' /\ InFlight' = InFlight
    <3>1. \A u : To(u)' = To(u)
      BY <1>2, ScheduleSame DEF Apart
    <3> QED
      BY <1>1, <1>2, <1>11, <3>1 DEF PlaceInv, InFlight, Apart
  <2>4. Kept
    BY <1>2, <1>11, <2>1, <2>2, <2>3 DEF Kept, Stays, Apart
  <2> QED
    BY <2>4, KeptIsSerial
<1> QED
  BY <1>5, <1>9, <1>10, <1>11

\* As many transfers of t as it misses accounts: they are the transfers of all of them.
LEMMA AllArrived ==
  ASSUME Shape, AccountInv, PlaceInv, NEW e \in Executors, NEW t \in Positions, To(t) = e,
         Cardinality(Arrived(e, t)) = Cardinality(On(t) \ Mine(e, t))
  PROVE  \A a \in On(t) \ Mine(e, t) : \E m \in Arrived(e, t) : m.account = a
<1>1. PICK S, T : S = Arrived(e, t) /\ T = On(t) \ Mine(e, t)
  OBVIOUS
<1>2. IsFiniteSet(T) /\ Cardinality(S) = Cardinality(T)
  <2>1. IsFiniteSet(On(t)) /\ T \in SUBSET On(t)
    BY <1>1, TxFacts DEF Shape
  <2> QED
    BY <1>1, <2>1, FS_Subset
<1>3. ASSUME NEW m \in S PROVE m \in InFlight /\ m.account \in T
  <2>1. m \in InFlight /\ m.tx = t
    BY <1>1 DEF Arrived, InFlight
  <2>2. At(m.tx - 1)[m.account] # m.to /\ m.to = To(m.tx) /\ m.account \in On(m.tx)
    BY <2>1, SentFacts DEF AccountInv, Sent
  <2> QED
    BY <1>1, <2>1, <2>2 DEF Mine
<1>4. \A m, n \in S : m.account = n.account => m = n
  BY <1>3 DEF AccountInv
<1>5. PICK f : f = [m \in S |-> m.account]
  OBVIOUS
<1>6. f \in Injection(S, T)
  BY <1>3, <1>4, <1>5 DEF Injection, IsInjective
<1>7. f \in Surjection(S, T)
  BY <1>2, <1>6, FS_Injection
<1>8. \A a \in T : \E m \in S : f[m] = a
  BY <1>7 DEF Surjection
<1> QED
  BY <1>1, <1>5, <1>8

\* An executor runs t once the accounts it missed have arrived.
LEMMA KeepsMigratingIn ==
  ASSUME Inv, NEW e \in Executors, NEW t \in todo[e], MigrateIn(e, t), CanMigrateIn(e, t)
  PROVE  Inv' /\ TakesEffect(t)
<1>1. Shape /\ PlanInv /\ QueueInv /\ AccountInv /\ PlaceInv /\ t \in Positions /\ To(t) = e
  BY DEF Inv, Shape, PlaceInv
<1>2. /\ Apart /\ UNCHANGED <<plan, net>>
      /\ todo' = [todo EXCEPT ![e] = @ \ {t}]
      /\ Pop(e, On(t)) /\ ExecuteWith(e, t, Arrived(e, t))
      /\ drained' = [drained EXCEPT ![e] = @ \ Arrived(e, t)]
      /\ work' = [work EXCEPT ![e] = @ \cup On(t)]
  BY DEF MigrateIn, Apart, batchVars, schedulerVars, lossVars, On
<1>3. /\ On(t) \subseteq Accounts /\ Tx(t).src \in On(t) /\ Needs(e, t) = On(t)
  BY <1>1, TxFacts, NeedsFacts DEF Shape
<1>4. \A a \in On(t) : AtHead(e, a, t)
  BY DEF CanMigrateIn, On
<1>5. /\ Head(queues[e][Tx(t).src]) = Pending(e, t) /\ t \notin done
      /\ t \notin Ahead(e) /\ \A u \in Positions : u < t => u \notin Ahead(e)
  <2>1. PICK a \in Accounts : a = Tx(t).src /\ AtHead(e, a, t)
    BY <1>3, <1>4
  <2> QED
    BY <1>1, <2>1, HeadIsReady
<1>6. Pending(e, t).locality.moved = On(t) \ Mine(e, t)
  BY <1>1, PendingFacts DEF Shape
<1>7. PICK gone : gone = Arrived(e, t)
  OBVIOUS
<1>8. /\ gone \subseteq drained[e] /\ \A m \in drained[e] : m \in gone <=> m.tx = t
      /\ gone \subseteq InFlight
  BY <1>7 DEF Arrived, InFlight
<1>9. \A a \in On(t) : store[e][a] # NotHere \/ \E m \in gone : m.account = a
  <2>1. /\ Cardinality(gone) = Cardinality(On(t) \ Mine(e, t))
        /\ \A a \in On(t) : a \in On(t) \ Mine(e, t) \/ store[e][a] # NotHere
    BY <1>5, <1>6, <1>7 DEF CanMigrateIn, On
  <2>2. \A a \in On(t) \ Mine(e, t) : \E m \in gone : m.account = a
    BY <1>1, <1>7, <2>1, AllArrived
  <2> QED
    BY <2>1, <2>2
<1>10. ASSUME NEW a \in On(t) PROVE First(t, a)
  <2>1. CASE \E m \in gone : m.account = a
    <3>1. PICK m \in gone : m.account = a
      BY <2>1
    <3>2. First(m.tx, m.account) /\ m.tx = t
      BY <1>1, <1>8, SentFacts
    <3> QED
      BY <3>1, <3>2
  <2>2. CASE store[e][a] # NotHere
    <3>1. \A u : Waits(e, a, u) => t <= u
      <4> SUFFICES ASSUME NEW u, Waits(e, a, u) PROVE t <= u
        OBVIOUS
      <4>1. a \in Accounts /\ InLine(e, a) /\ AtHead(e, a, t)
        BY <1>1, <1>3, <1>4 DEF QueueInv
      <4>2. t = u \/ t < u
        BY <1>1, <4>1, HeadFacts
      <4>3. t \in Nat /\ u \in Nat
        BY <1>1, <4>1, QueueFacts, TxFacts DEF Shape, Waits
      <4> QED
        BY <4>2, <4>3
    <3> QED
      BY <1>1, <1>3, <1>5, <2>2, <3>1, HeldIsFirst
  <2> QED
    BY <1>9, <2>1, <2>2
<1>11. PICK bank : bank = [a \in Accounts |->
                             IF \E m \in gone : m.account = a
                             THEN (CHOOSE m \in gone : m.account = a).state
                             ELSE store[e][a]]
  OBVIOUS
<1>12. /\ \A a \in Accounts : (\E m \in gone : m.account = a) =>
            \E m \in gone : m.account = a /\ bank[a] = m.state
       /\ \A a \in Accounts : ~(\E m \in gone : m.account = a) => bank[a] = store[e][a]
  BY <1>11
<1>13. bank \in Banks
  <2>1. ASSUME NEW a \in Accounts PROVE bank[a] \in AccountState \cup {NotHere}
    <3>1. CASE \E m \in gone : m.account = a
      <4>1. PICK m \in gone : bank[a] = m.state
        BY <1>12, <3>1
      <4> QED
        BY <1>1, <1>8, <4>1, SentFacts
    <3>2. CASE ~(\E m \in gone : m.account = a)
      <4>1. bank[a] = store[e][a]
        BY <1>12, <3>2
      <4>2. store[e] \in [Accounts -> AccountState \cup {NotHere}]
        BY <1>1 DEF Shape
      <4> QED
        BY <4>1, <4>2
    <3> QED
      BY <3>1, <3>2
  <2> QED
    BY <1>11, <2>1 DEF Banks
<1>14. \A m \in gone : m.tx = t /\ m.account \in On(t)
  BY <1>1, <1>8, SentFacts
<1>15. /\ drained'[e] = drained[e] \ gone
       /\ \A f \in Executors \ {e} : drained'[f] = drained[f]
       /\ drained' \in [Executors -> SUBSET Transfers]
  BY <1>1, <1>2, <1>7 DEF Shape
<1>16. InFlight' = InFlight \ gone
  <2>1. ASSUME NEW m \in gone
        PROVE  /\ m \notin net \cup lost /\ m \notin incoming[e]
               /\ \A f \in Executors \ {e} : m \notin incoming[f] \cup drained[f]
    BY <1>1, <1>8 DEF PlaceInv
  <2>2. UNCHANGED <<net, lost, incoming>>
    BY <1>2 DEF Apart
  <2>3. \A m : m \in InFlight' <=> m \in InFlight /\ m \notin gone
    <3> TAKE m
    <3>1. m \in InFlight' <=> \/ m \in net \cup lost
                              \/ \E f \in Executors : m \in incoming[f] \cup drained'[f]
      BY <2>2 DEF InFlight
    <3>2. m \in InFlight <=> \/ m \in net \cup lost
                             \/ \E f \in Executors : m \in incoming[f] \cup drained[f]
      BY DEF InFlight
    <3>3. CASE m \in gone
      <4>1. \A f \in Executors : m \notin incoming[f] \cup drained'[f]
        BY <1>15, <2>1, <3>3
      <4> QED
        BY <2>1, <3>1, <3>3, <4>1
    <3>4. CASE m \notin gone
      <4>1. \A f \in Executors : m \in drained'[f] <=> m \in drained[f]
        BY <1>15, <3>4
      <4> QED
        BY <3>1, <3>2, <3>4, <4>1
    <3> QED
      BY <3>3, <3>4
  <2> QED
    BY <2>3
<1>17. Runs(e, t, gone, bank)
  <2>1. store' = [store EXCEPT ![e] = Executed(bank, Tx(t))] /\ done' = done \cup {t}
    BY <1>2, <1>7, <1>11 DEF ExecuteWith
  <2>2. \A a \in On(t) : \/ store[e][a] # NotHere /\ bank[a] = store[e][a]
                         \/ \E m \in gone : m.account = a /\ bank[a] = m.state
    BY <1>3, <1>9, <1>12
  <2>3. \A a \in Accounts \ On(t) : bank[a] = store[e][a]
    BY <1>12, <1>14
  <2>4. UNCHANGED <<log, newScheduler>>
    BY <1>2 DEF Apart
  <2> QED
    BY <1>1, <1>8, <1>10, <1>14, <1>16, <2>1, <2>2, <2>3, <2>4 DEF Runs
<1>18. PICK accts : accts = On(t)
  OBVIOUS
<1>19. /\ queues' \in [Executors -> [Accounts -> Seq(Pendings)]]
       /\ queues' = [queues EXCEPT ![e] = [b \in Accounts |->
                      IF b \in accts THEN Tail(queues[e][b]) ELSE queues[e][b]]]
  <2>1. accts \in SUBSET Accounts /\ Pop(e, accts) /\ \A b \in accts : AtHead(e, b, t)
    BY <1>2, <1>3, <1>4, <1>18
  <2> QED
    BY <1>1, <2>1, PopShape
<1>20. FromQueues(e, t)
  BY <1>3, <1>4, <1>18, <1>19 DEF FromQueues
<1>21. PlanInv' /\ PassedOn(e, t)
  BY <1>1, <1>2, <1>5, PassedSame
<1>22. Shape'
  <2>1. store' \in [Executors -> [Accounts -> AccountState \cup {NotHere}]]
    BY <1>1, <1>13, <1>17, RunFacts
  <2>2. /\ plan' \in [Executors -> SUBSET Pendings] /\ net' \subseteq Transfers
        /\ todo' \in [Executors -> SUBSET Positions]
    BY <1>1, <1>2 DEF Shape
  <2>3. work' \in [Executors -> SUBSET Accounts]
    BY <1>1, <1>2, <1>3 DEF Shape
  <2>4. done' \subseteq Positions
    BY <1>1, <1>17 DEF Shape, Runs
  <2> QED
    BY <1>1, <1>2, <1>15, <1>19, <2>1, <2>2, <2>3, <2>4, ApartShape
<1>23. PlaceInv'
  <2>1. \A u : To(u)' = To(u)
    BY <1>2, ScheduleSame DEF Apart
  <2>2. \A f \in Executors : drained'[f] \subseteq drained[f] /\ todo'[f] \subseteq todo[f]
    BY <1>1, <1>2, <1>15 DEF Shape
  <2>3. UNCHANGED <<net, lost, incoming>>
    BY <1>2 DEF Apart
  <2> QED
    BY <1>1, <2>1, <2>2, <2>3 DEF PlaceInv
<1> QED
  BY <1>1, <1>13, <1>17, <1>20, <1>21, <1>22, <1>23, KeepsRunning

LEMMA KeepsLooking ==
  ASSUME Inv, NEW e \in Executors, NEW t \in todo[e], MigrateIn(e, t)
  PROVE  Inv' /\ (NothingHappens \/ \E u : TakesEffect(u))
<1>1. CASE CanMigrateIn(e, t)
  BY <1>1, KeepsMigratingIn
<1>2. CASE ~CanMigrateIn(e, t)
  <2>1. Shape /\ PlanInv /\ PlaceInv
    BY DEF Inv
  <2>2. Apart /\ UNCHANGED <<plan, net, queues, store, done, drained, work>>
        /\ todo' = [todo EXCEPT ![e] = @ \ {t}]
    BY <1>2 DEF MigrateIn, Apart, batchVars, schedulerVars, lossVars
  <2>3. todo' \in [Executors -> SUBSET Positions] /\ \A f \in Executors : todo'[f] \subseteq todo[f]
    BY <2>1, <2>2 DEF Shape
  <2>4. Shape'
    <3>1. /\ plan' \in [Executors -> SUBSET Pendings]
          /\ queues' \in [Executors -> [Accounts -> Seq(Pendings)]]
          /\ store' \in [Executors -> [Accounts -> AccountState \cup {NotHere}]]
          /\ net' \subseteq Transfers /\ drained' \in [Executors -> SUBSET Transfers]
          /\ work' \in [Executors -> SUBSET Accounts] /\ done' \subseteq Positions
      BY <2>1, <2>2 DEF Shape
    <3> QED
      BY <2>1, <2>2, <2>3, <3>1, ApartShape
  <2>5. PlanInv' /\ \A f \in Executors : Ahead(f)' = Ahead(f)
    <3>1. \A f \in Executors : SameProgress(f)
      BY <2>2 DEF Apart, SameProgress
    <3> QED
      BY <2>1, <2>2, <3>1, NoProgress DEF Apart
  <2>6. PlaceInv' /\ InFlight' = InFlight
    <3>1. \A u : To(u)' = To(u)
      BY <2>2, ScheduleSame DEF Apart
    <3> QED
      BY <2>1, <2>2, <2>3, <3>1 DEF PlaceInv, InFlight, Apart
  <2>7. Kept
    BY <2>2, <2>4, <2>5, <2>6 DEF Kept, Stays, Apart
  <2> QED
    BY <2>7, KeptIsSerial
<1> QED
  BY <1>1, <1>2

-----------------------------------------------------------------------------
(* The executors start, and take a step *)

\* The executors at boot, whichever batches are on their way.
LEMMA StartInv ==
  ASSUME NEW sent, StartWith(sent), sent \subseteq Dispatched
  PROVE  Inv
<1>1. /\ log \in Logs /\ newScheduler \in Schedulers
      /\ inbox = [e \in Executors |-> sent] /\ next = [e \in Executors |-> 1]
      /\ buffer = [e \in Executors |-> {}] /\ phase = [e \in Executors |-> "idle"]
      /\ batch = [e \in Executors |-> {}] /\ owners = [e \in Executors |-> InitialPartition]
      /\ loads = [e \in Executors |-> NoLoad] /\ plan = [e \in Executors |-> {}]
      /\ partition = [e \in Executors |-> InitialPartition]
      /\ queues = [e \in Executors |-> [a \in Accounts |-> << >>]]
      /\ store = [e \in Executors |-> [a \in Accounts |->
                   IF InitialPartition[a] = e THEN InitialBank[a] ELSE NotHere]]
      /\ net = {} /\ lost = {} /\ done = {} /\ gaps = {}
      /\ incoming = [e \in Executors |-> {}] /\ drained = [e \in Executors |-> {}]
      /\ todo = [e \in Executors |-> {}] /\ work = [e \in Executors |-> {}]
  BY DEF StartWith, NoLoad
<1>2. /\ NumBatches \in Nat /\ 1 \in 1 .. NumBatches + 1 /\ Start(1) = 0 /\ Len(log.txs) \in Nat
      /\ \A t \in Positions : t \in Nat /\ t > 0
  BY <1>1, LogFacts DEF Positions
<1>3. /\ InitialPartition \in [Accounts -> Executors] /\ InitialBank \in [Accounts -> AccountState]
      /\ NotHere \notin AccountState
  BY DataFusionAssumption
<1>4. InFlight = {}
  BY <1>1 DEF InFlight
<1>5. Shape
  <2>1. \A e \in Executors : store[e] \in [Accounts -> AccountState \cup {NotHere}]
    BY <1>1, <1>3
  <2>2. /\ store \in [Executors -> [Accounts -> AccountState \cup {NotHere}]]
        /\ inbox \in [Executors -> SUBSET (1 .. NumBatches)]
        /\ next \in [Executors -> 1 .. NumBatches + 1]
    BY <1>1, <1>2, <2>1 DEF Dispatched
  <2>3. /\ owners \in [Executors -> [Accounts -> Executors]]
        /\ partition \in [Executors -> [Accounts -> Executors]]
        /\ NoLoad \in [Executors -> Nat] /\ loads \in [Executors -> [Executors -> Nat]]
    BY <1>1, <1>3 DEF NoLoad
  <2>4. queues \in [Executors -> [Accounts -> Seq(Pendings)]]
    BY <1>1
  <2> QED
    BY <1>1, <2>2, <2>3, <2>4 DEF Shape
<1>6. After(0) = Boot /\ At(0) = InitialPartition
  BY <1>1, ScheduleFacts DEF At, Boot
<1>7. ASSUME NEW e \in Executors PROVE Progress(e, 0, 0)
  <2>1. Begun(e) = 1 /\ Until(e) = 0 /\ phase[e] = "idle"
    BY <1>1, <1>2 DEF Begun, Until
  <2>2. plan[e] = {Pending(e, t) : t \in 0 + 1 .. 0}
    BY <1>1
  <2>3. batch[e] = 0 + 1 .. Until(e)
    BY <1>1, <2>1
  <2>4. partition[e] = At(0) /\ After(0).batch = Begun(e) /\ After(0).owners = At(0) /\ After(0).loads = NoLoad
    BY <1>1, <1>6, <2>1 DEF Boot
  <2> QED
    BY <2>1, <2>2, <2>3, <2>4 DEF Progress
<1>8. PlanInv
  BY <1>7 DEF PlanInv
<1>9. \A e \in Executors : Ahead(e) = Positions
  BY <1>2, <1>5, <1>7, AheadOf
<1>10. QueueInv
  <2> SUFFICES ASSUME NEW e \in Executors, NEW a \in Accounts PROVE InLine(e, a) /\ Accounted(e, a)
    BY DEF QueueInv
  <2>1. queues[e][a] = << >>
    BY <1>1
  <2>2. InLine(e, a)
    BY <2>1 DEF InLine
  <2>3. ASSUME NEW t \in Positions, a \in Needs(e, t) PROVE ~Finished(e, t)
    <3>1. t \notin done /\ \A b : ~Away(b, t)
      BY <1>1, <1>4 DEF Away
    <3>2. To(t) # e => a \in Mine(e, t)
      BY <2>3 DEF Needs
    <3> QED
      BY <3>1, <3>2 DEF Finished
  <2> QED
    BY <1>9, <2>2, <2>3 DEF Accounted
<1>11. AccountInv
  <2> SUFFICES ASSUME NEW a \in Accounts
               PROVE  /\ \E k \in 0 .. Len(log.txs) : Frontier(a, k)
                      /\ \E e \in Executors : store[e][a] # NotHere
                      /\ \A e \in Executors : store[e][a] # NotHere =>
                           \A k \in 0 .. Len(log.txs) : Frontier(a, k) => At(k)[a] = e
    BY <1>4 DEF AccountInv
  <2>1. Frontier(a, 0) /\ 0 \in 0 .. Len(log.txs)
    BY <1>1, <1>2 DEF Frontier
  <2>2. InitialPartition[a] \in Executors /\ store[InitialPartition[a]][a] # NotHere
    BY <1>1, <1>3
  <2>3. ASSUME NEW e \in Executors, store[e][a] # NotHere, NEW k \in 0 .. Len(log.txs), Frontier(a, k)
        PROVE  At(k)[a] = e
    <3>1. InitialPartition[a] = e
      BY <1>1, <2>3
    <3>2. \A t \in Positions : 0 < t /\ t <= k => a \notin On(t)
      BY <1>1, <2>3 DEF Frontier
    <3>3. At(k)[a] = At(0)[a]
      <4>1. k \in Nat /\ 0 <= k /\ k <= Len(log.txs) /\ 0 \in Nat
        BY <1>2
      <4> QED
        BY <1>1, <3>2, <4>1, OwnerStays
    <3> QED
      BY <1>6, <3>1, <3>3
  <2> QED
    BY <2>1, <2>2, <2>3
<1>12. PlaceInv
  BY <1>1 DEF PlaceInv
<1> QED
  BY <1>5, <1>8, <1>10, <1>11, <1>12 DEF Inv

LEMMA ExecutorNext ==
  ASSUME Inv, (\E e \in Executors : Step(e)) \/ NetworkStep
  PROVE  Inv' /\ (NothingHappens \/ \E t : TakesEffect(t))
<1>1. ASSUME NEW e \in Executors, Step(e)
      PROVE  Inv' /\ (NothingHappens \/ \E t : TakesEffect(t))
  <2>1. CASE (\E s \in inbox[e] : ProcessExecute(e, s)) \/ ProcessBuffered(e)
    BY <2>1, KeepsReceiving, KeptIsSerial
  <2>2. CASE ScheduleTransaction(e)
    BY <2>2, KeepsScheduling, KeptIsSerial
  <2>3. CASE HandleTransaction(e)
    BY <2>3, KeepsHandling
  <2>4. CASE EndOfTransactions(e) \/ QuietBatch(e)
    BY <2>4, KeepsDraining, KeptIsSerial
  <2>5. CASE \E t \in todo[e] : MigrateIn(e, t)
    BY <2>5, KeepsLooking
  <2>6. CASE \E a \in work[e] : DrainHead(e, a)
    BY <2>6, KeepsDrainingHead
  <2>7. CASE FinishBatch(e)
    BY <2>7, KeepsFinishing, KeptIsSerial
  <2> QED
    BY <1>1, <2>1, <2>2, <2>3, <2>4, <2>5, <2>6, <2>7 DEF Step, BatchStep
<1>2. CASE NetworkStep
  BY <1>2, KeepsNetwork, KeptIsSerial
<1> QED
  BY <1>1, <1>2

-----------------------------------------------------------------------------
(* What takes effect is a step of SerialBank *)

LEMMA CurrentTyped ==
  ASSUME Shape, AccountInv, NEW a \in Accounts
  PROVE  CurrentState(a) \in AccountState
<1>1. CurrentState(a) = CHOOSE s \in Here(a) : TRUE
  BY DEF CurrentState, Here
<1>2. \A s \in Here(a) : s \in AccountState
  <2>1. \A e \in Executors : store[e][a] \in AccountState \cup {NotHere}
    BY DEF Shape
  <2>2. \A m \in InFlight : m.state \in AccountState
    BY SentFacts
  <2> QED
    BY <2>1, <2>2 DEF Here
<1>3. Here(a) # {}
  <2>1. CASE \E e \in Executors : store[e][a] # NotHere
    BY <2>1 DEF Here
  <2>2. CASE \E m \in InFlight : m.account = a
    BY <2>2 DEF Here
  <2> QED
    BY <2>1, <2>2 DEF AccountInv
<1> QED
  BY <1>1, <1>2, <1>3

LEMMA EffectIsSerial ==
  ASSUME Inv, NEW t, TakesEffect(t)
  PROVE  Bank!Next
<1>1. PICK bank : bank = [a \in Accounts |-> CurrentState(a)]
  OBVIOUS
<1>2. Shape /\ AccountInv /\ t \in Positions /\ t \in 1 .. Len(log.txs)
  BY DEF Inv, TakesEffect, Positions
<1>3. \A a \in Accounts : CurrentState(a) \in AccountState
  BY <1>2, CurrentTyped
<1>4. bank \in Banks /\ \A a \in Accounts : bank[a] \in AccountState
  BY <1>1, <1>3 DEF Banks
<1>5. IsTransaction(Tx(t), Accounts) /\ t \in Nat /\ On(t) \subseteq Accounts /\ Len(log.txs) \in Nat
  BY <1>2, TxFacts, LogFacts DEF Shape
<1>6. Executed(bank, Tx(t)) \in Banks /\ \A a \in Accounts \ On(t) : Executed(bank, Tx(t))[a] = bank[a]
  <2>1. \A a \in RequiredAccounts(Tx(t)) : bank[a] \in AccountState
    BY <1>4, <1>5 DEF On
  <2> QED
    BY <1>4, <1>5, <2>1, ExecutedTyped DEF On
<1>7. ASSUME NEW a \in Accounts PROVE CurrentState(a)' = Executed(bank, Tx(t))[a]
  BY <1>1, <1>6 DEF TakesEffect
<1>8. [a \in Accounts |-> CurrentState(a)]' = Executed(bank, log.txs[t])
  BY <1>6, <1>7 DEF Banks, Tx
<1>9. \A j \in 1 .. t - 1 : Bank!Conflict(t, j) => j \in done
  <2> SUFFICES ASSUME NEW j \in 1 .. t - 1, Bank!Conflict(t, j) PROVE j \in done
    OBVIOUS
  <2>1. j \in Positions /\ j < t
    BY <1>2, <1>5 DEF Positions
  <2>2. On(j) \cap On(t) # {}
    BY DEF Bank!Conflict, On, Tx, RequiredAccounts, Bank!RequiredAccounts
  <2> QED
    BY <2>1, <2>2 DEF TakesEffect, First
<1>10. Bank!Executed(bank, log.txs[t]) = Executed(bank, log.txs[t])
  BY DEF Bank!Executed, Executed, Bank!Deposit, Deposit, Bank!TransactSavings, TransactSavings,
         Bank!WriteCheck, WriteCheck, Bank!CanDebit, CanDebit, Bank!Debit, Debit,
         Bank!Credit, Credit
<1>11. Bank!Execute(t)
  BY <1>1, <1>8, <1>9, <1>10 DEF Bank!Execute, TakesEffect
<1> QED
  BY <1>2, <1>11 DEF Bank!Next

LEMMA NothingIsSerial ==
  ASSUME NothingHappens
  PROVE  UNCHANGED Bank!bankVars
  BY DEF NothingHappens, Bank!bankVars

LEMMA StartIsSerial ==
  ASSUME NEW sent, StartWith(sent), sent \subseteq Dispatched
  PROVE  Bank!Init
<1>1. log \in Logs /\ done = {} /\ Inv
  BY StartInv DEF StartWith
<1>2. log.txs \in Seq(Transaction(Accounts))
  BY <1>1, DataFusionAssumption DEF IsLog
<1>3. InFlight = {}
  BY DEF StartWith, InFlight
<1>4. \A a \in Accounts : CurrentState(a) = InitialBank[a]
  <2> SUFFICES ASSUME NEW a \in Accounts PROVE CurrentState(a) = InitialBank[a]
    OBVIOUS
  <2>1. CurrentState(a) = CHOOSE s \in Here(a) : TRUE
    BY DEF CurrentState, Here
  <2>2. \A e \in Executors : store[e][a] = IF InitialPartition[a] = e THEN InitialBank[a] ELSE NotHere
    BY DEF StartWith
  <2>3. InitialPartition[a] \in Executors /\ InitialBank[a] # NotHere
    BY DataFusionAssumption
  <2>4. \A s : s \in Here(a) <=> s = InitialBank[a]
    BY <1>3, <2>2, <2>3 DEF Here
  <2>5. Here(a) = {InitialBank[a]}
    BY <2>4
  <2> QED
    BY <2>1, <2>5
<1>5. [a \in Accounts |-> CurrentState(a)] = InitialBank
  BY <1>4, DataFusionAssumption
<1> QED
  BY <1>1, <1>2, <1>5 DEF Bank!Init, Transaction, Bank!Transaction, Kinds, Bank!Kinds

-----------------------------------------------------------------------------
(* The replay *)

\* What the sequencer has of a batch, and what it tells the worker that reported it.
Report(s) == [batch |-> s, digest |-> Digest(s), worker |-> Assigned(s)]
Reported(s) == [worker |-> Assigned(s), digest |-> Digest(s)]
Command(s) == [digest |-> Digest(s), sequence |-> s]

\* All that is said of a batch follows from its index, and a worker stores what it
\* generated since it started.
ReplayInv ==
  /\ source \in {"dispatcher", "replay"}
  /\ generated \in [Workers -> SUBSET Dispatched]
  /\ batches \in [Workers -> SUBSET {Digest(s) : s \in Dispatched}]
  /\ commands \in [Workers -> Seq({Command(s) : s \in Dispatched})]
  /\ \A w \in Workers :
       /\ \A s \in generated[w] : Assigned(s) = w /\ Digest(s) \in batches[w]
       /\ \A i \in DOMAIN commands[w] : Assigned(commands[w][i].sequence) = w
  /\ reports \subseteq {Report(s) : s \in Dispatched}
  /\ digests \in [Dispatched -> {NoReport} \cup {Reported(s) : s \in Dispatched}]
  /\ \A s \in Dispatched : digests[s] = NoReport \/ digests[s] = Reported(s)
  /\ sequence \in 0 .. NumBatches /\ unreported \subseteq Dispatched

LEMMA AssignedIs ==
  ASSUME NEW s \in Int
  PROVE  Assigned(s) \in Workers
<1>1. NumWorkers \in Nat /\ NumWorkers > 0 /\ s - 1 \in Int
  BY ReplayAssumption
<1>2. (s - 1) % NumWorkers \in 0 .. NumWorkers - 1
  BY <1>1
<1> QED
  BY <1>2 DEF Assigned, Workers

LEMMA ReplayInitInv ==
  ASSUME ReplayInit
  PROVE  Inv /\ ReplayInv /\ Bank!Init
<1>1. PICK sent \in SUBSET Dispatched : StartWith(sent) /\ source \in {"dispatcher", "replay"}
  BY DEF ReplayInit, Init
<1>2. Inv /\ Bank!Init
  BY <1>1, StartInv, StartIsSerial
<1>3. NumBatches \in Nat
  BY <1>2, LogFacts DEF Inv, Shape
<1>4. ReplayInv
  BY <1>1, <1>3 DEF ReplayInit, ReplayInv
<1> QED
  BY <1>2, <1>4

\* The first command that waits at a Router, and the others.
LEMMA CommandFacts ==
  ASSUME ReplayInv, NEW w \in Workers, commands[w] # << >>
  PROVE  /\ Head(commands[w]).sequence \in Dispatched
         /\ Tail(commands[w]) \in Seq({Command(s) : s \in Dispatched})
         /\ \A i \in DOMAIN Tail(commands[w]) : Assigned(Tail(commands[w])[i].sequence) = w
<1>1. PICK C : C = {Command(s) : s \in Dispatched}
  OBVIOUS
<1>2. commands[w] \in Seq(C) /\ \A i \in DOMAIN commands[w] : Assigned(commands[w][i].sequence) = w
  BY <1>1 DEF ReplayInv
<1>3. Head(commands[w]) \in C /\ Tail(commands[w]) \in Seq(C)
  BY <1>2
<1>4. \A i \in DOMAIN Tail(commands[w]) : Tail(commands[w])[i] = commands[w][i + 1] /\ i + 1 \in DOMAIN commands[w]
  BY <1>2
<1> QED
  BY <1>1, <1>2, <1>3, <1>4 DEF Command

\* Losing the commands that wait at a worker loses batches of the log.
LEMMA MissFacts ==
  ASSUME Shape, NEW lostCommands, Miss(lostCommands), \A c \in lostCommands : c.sequence \in Dispatched
  PROVE  gaps' \subseteq Executors \X Dispatched
  BY DEF Miss, Shape

\* What a step of the replay may do to the executors.
Feeds ==
  /\ UNCHANGED executorVars
  /\ inbox' \in [Executors -> SUBSET (1 .. NumBatches)]
  /\ gaps' \subseteq Executors \X Dispatched

LEMMA KeepsGenerating ==
  ASSUME Shape, ReplayInv, NEW w \in Workers, Generate(w)
  PROVE  ReplayInv' /\ Feeds
<1>1. PICK s \in MyAssignments(w) :
        /\ batches' = [batches EXCEPT ![w] = @ \cup {Digest(s)}]
        /\ reports' = reports \cup {[batch |-> s, digest |-> Digest(s), worker |-> w]}
        /\ generated' = [generated EXCEPT ![w] = @ \cup {s}]
  BY DEF Generate
<1>2. UNCHANGED <<source, digests, sequence, commands, unreported, faults, inbox, gaps, executorVars>>
  BY DEF Generate, sequencerVars
<1>3. s \in Dispatched /\ Assigned(s) = w
  BY DEF MyAssignments
<1>4. UNCHANGED log /\ Dispatched' = Dispatched
  BY <1>2 DEF executorVars, Dispatched, NumBatches
<1>5. reports' \subseteq {Report(r) : r \in Dispatched}
  BY <1>1, <1>3 DEF ReplayInv, Report
<1>6. /\ generated' \in [Workers -> SUBSET Dispatched]
      /\ batches' \in [Workers -> SUBSET {Digest(r) : r \in Dispatched}]
  BY <1>1, <1>3 DEF ReplayInv
<1>7. ASSUME NEW v \in Workers, NEW r \in generated'[v]
      PROVE  Assigned(r) = v /\ Digest(r) \in batches'[v]
  <2>1. CASE v = w
    BY <1>1, <1>3, <2>1 DEF ReplayInv
  <2>2. CASE v # w
    BY <1>1, <2>2 DEF ReplayInv
  <2> QED
    BY <2>1, <2>2
<1>8. ReplayInv'
  BY <1>2, <1>4, <1>5, <1>6, <1>7 DEF ReplayInv, Digest, Report, Reported, Command, Assigned, NumBatches
<1> QED
  BY <1>2, <1>8 DEF Feeds, Shape

LEMMA KeepsCollecting ==
  ASSUME Shape, ReplayInv, NEW r \in reports, Collect(r)
  PROVE  ReplayInv' /\ Feeds
<1>1. /\ reports' = reports \ {r}
      /\ digests' = [digests EXCEPT ![r.batch] = [worker |-> r.worker, digest |-> r.digest]]
      /\ UNCHANGED <<source, generated, batches, sequence, commands, unreported, faults,
                     inbox, gaps, executorVars>>
  BY DEF Collect
<1>2. PICK s \in Dispatched : r = Report(s)
  BY DEF ReplayInv
<1>3. digests' = [digests EXCEPT ![s] = Reported(s)]
  BY <1>1, <1>2 DEF Report, Reported
<1>4. UNCHANGED log /\ Dispatched' = Dispatched
  BY <1>1 DEF executorVars, Dispatched, NumBatches
<1>5. /\ digests' \in [Dispatched -> {NoReport} \cup {Reported(q) : q \in Dispatched}]
      /\ \A q \in Dispatched : digests'[q] = NoReport \/ digests'[q] = Reported(q)
  BY <1>3 DEF ReplayInv
<1>6. ReplayInv'
  BY <1>1, <1>4, <1>5 DEF ReplayInv, Digest, Report, Reported, Command, Assigned, NumBatches
<1> QED
  BY <1>1, <1>6 DEF Feeds, Shape

LEMMA KeepsCommanding ==
  ASSUME Shape, ReplayInv, SendExecute
  PROVE  ReplayInv' /\ Feeds
<1>1. PICK s : s = sequence + 1
  OBVIOUS
<1>2. s \in Dispatched /\ digests[s] # NoReport
  <2>1. sequence \in 0 .. NumBatches /\ sequence < NumBatches /\ Collected = Dispatched
    BY DEF SendExecute, ReplayInv
  <2>2. NumBatches \in Nat
    BY LogFacts DEF Shape
  <2>3. s \in Dispatched
    BY <1>1, <2>1, <2>2 DEF Dispatched
  <2> QED
    BY <2>1, <2>3 DEF Collected
<1>3. digests[s] = Reported(s)
  BY <1>2 DEF ReplayInv
<1>4. /\ commands' = [commands EXCEPT ![digests[s].worker] =
                        Append(@, [digest |-> digests[s].digest, sequence |-> s])]
      /\ sequence' = s
      /\ UNCHANGED <<source, generated, batches, reports, digests, unreported, faults, inbox, gaps,
                     executorVars>>
  BY <1>1 DEF SendExecute, generatorVars
<1>5. PICK w : w = Assigned(s)
  OBVIOUS
<1>6. s \in 1 .. NumBatches /\ w \in Workers
  BY <1>2, <1>5, AssignedIs DEF Dispatched
<1>7. commands' = [commands EXCEPT ![w] = Append(@, Command(s))]
  BY <1>3, <1>4, <1>5 DEF Reported, Command
<1>8. PICK C : C = {Command(q) : q \in Dispatched}
  OBVIOUS
<1>9. commands \in [Workers -> Seq(C)] /\ Command(s) \in C
  BY <1>2, <1>8 DEF ReplayInv
<1>10. commands' \in [Workers -> Seq(C)]
  BY <1>6, <1>7, <1>9
<1>11. ASSUME NEW v \in Workers, NEW i \in DOMAIN commands'[v]
       PROVE  Assigned(commands'[v][i].sequence) = v
  <2>1. CASE v = w
    <3>1. commands'[v] = Append(commands[v], Command(s)) /\ commands[v] \in Seq(C)
      BY <1>6, <1>7, <1>9, <2>1
    <3>2. commands'[v][i] = Command(s) \/ (i \in DOMAIN commands[v] /\ commands'[v][i] = commands[v][i])
      BY <3>1
    <3> QED
      BY <1>5, <2>1, <3>2 DEF ReplayInv, Command
  <2>2. CASE v # w
    <3>1. commands'[v] = commands[v]
      BY <1>6, <1>7, <1>9, <2>2
    <3> QED
      BY <3>1 DEF ReplayInv
  <2> QED
    BY <2>1, <2>2
<1>12. UNCHANGED log /\ Dispatched' = Dispatched
  BY <1>4 DEF executorVars, Dispatched, NumBatches
<1>13. sequence' \in 0 .. NumBatches
  BY <1>4, <1>6
<1>14. ReplayInv'
  BY <1>4, <1>8, <1>10, <1>11, <1>12, <1>13
     DEF ReplayInv, Digest, Report, Reported, Command, Assigned, NumBatches
<1> QED
  BY <1>4, <1>14 DEF Feeds, Shape

\* The first command leaves the queue of a Router.
LEMMA KeepsTakingCommand ==
  ASSUME Shape, ReplayInv, NEW w \in Workers, Route(w) \/ LoseCommand(w)
  PROVE  ReplayInv' /\ Feeds
<1>1. /\ commands[w] # << >>
      /\ commands' = [commands EXCEPT ![w] = Tail(@)]
      /\ UNCHANGED <<source, generated, batches, reports, digests, sequence, unreported, executorVars>>
  BY DEF Route, LoseCommand, generatorVars, sequencerVars
<1>2. /\ Head(commands[w]).sequence \in Dispatched
      /\ Tail(commands[w]) \in Seq({Command(s) : s \in Dispatched})
      /\ \A i \in DOMAIN Tail(commands[w]) : Assigned(Tail(commands[w])[i].sequence) = w
  BY <1>1, CommandFacts
<1>3. commands' \in [Workers -> Seq({Command(s) : s \in Dispatched})]
  BY <1>1, <1>2 DEF ReplayInv
<1>4. ASSUME NEW v \in Workers, NEW i \in DOMAIN commands'[v]
      PROVE  Assigned(commands'[v][i].sequence) = v
  <2>1. CASE v = w
    BY <1>1, <1>2, <2>1 DEF ReplayInv
  <2>2. CASE v # w
    BY <1>1, <2>2 DEF ReplayInv
  <2> QED
    BY <2>1, <2>2
<1>5. UNCHANGED log /\ Dispatched' = Dispatched
  BY <1>1 DEF executorVars, Dispatched, NumBatches
<1>6. ReplayInv'
  BY <1>1, <1>3, <1>4, <1>5 DEF ReplayInv, Digest, Report, Reported, Command, Assigned, NumBatches
<1>7. CASE Route(w)
  <2>1. inbox' = [e \in Executors |-> inbox[e] \cup {Head(commands[w]).sequence}] /\ UNCHANGED gaps
    BY <1>7 DEF Route
  <2>2. inbox' \in [Executors -> SUBSET (1 .. NumBatches)]
    BY <1>2, <2>1 DEF Shape, Dispatched
  <2> QED
    BY <1>1, <1>6, <2>1, <2>2 DEF Feeds, Shape
<1>8. CASE LoseCommand(w)
  <2>1. Miss({Head(commands[w])}) /\ UNCHANGED inbox
    BY <1>8 DEF LoseCommand
  <2>2. gaps' \subseteq Executors \X Dispatched
    BY <1>2, <2>1, MissFacts
  <2> QED
    BY <1>1, <1>6, <2>1, <2>2 DEF Feeds, Shape
<1> QED
  BY <1>7, <1>8

LEMMA KeepsLosingReport ==
  ASSUME Shape, ReplayInv, NEW r \in reports, LoseReport(r)
  PROVE  ReplayInv' /\ Feeds
<1>1. /\ reports' = reports \ {r} /\ unreported' = unreported \cup {r.batch}
      /\ UNCHANGED <<source, generated, batches, digests, sequence, commands, inbox, gaps, executorVars>>
  BY DEF LoseReport, sequencerVars
<1>2. r.batch \in Dispatched
  BY DEF ReplayInv, Report
<1>3. UNCHANGED log /\ Dispatched' = Dispatched
  BY <1>1 DEF executorVars, Dispatched, NumBatches
<1>4. ReplayInv'
  BY <1>1, <1>2, <1>3 DEF ReplayInv, Digest, Report, Reported, Command, Assigned, NumBatches
<1> QED
  BY <1>1, <1>4 DEF Feeds, Shape

LEMMA KeepsRestarting ==
  ASSUME Shape, ReplayInv, NEW w \in Workers, RestartWorker(w)
  PROVE  ReplayInv' /\ Feeds
<1>1. /\ generated' = [generated EXCEPT ![w] = {}]
      /\ \E kept \in {{}, batches[w]} : batches' = [batches EXCEPT ![w] = kept]
      /\ reports' = {r \in reports : r.worker # w}
      /\ commands' = [commands EXCEPT ![w] = << >>]
      /\ Miss(Range(commands[w]))
      /\ UNCHANGED <<source, digests, sequence, unreported, inbox, executorVars>>
  BY DEF RestartWorker, sequencerVars
<1>2. UNCHANGED log /\ Dispatched' = Dispatched
  BY <1>1 DEF executorVars, Dispatched, NumBatches
<1>3. /\ generated' \in [Workers -> SUBSET Dispatched]
      /\ batches' \in [Workers -> SUBSET {Digest(s) : s \in Dispatched}]
  BY <1>1 DEF ReplayInv
<1>4. commands' \in [Workers -> Seq({Command(s) : s \in Dispatched})]
  BY <1>1 DEF ReplayInv
<1>5. ASSUME NEW v \in Workers
      PROVE  /\ \A s \in generated'[v] : Assigned(s) = v /\ Digest(s) \in batches'[v]
             /\ \A i \in DOMAIN commands'[v] : Assigned(commands'[v][i].sequence) = v
  <2>1. CASE v = w
    <3>1. generated'[v] = {} /\ commands'[v] = << >>
      BY <1>1, <2>1 DEF ReplayInv
    <3> QED
      BY <3>1
  <2>2. CASE v # w
    <3>1. generated'[v] = generated[v] /\ commands'[v] = commands[v] /\ batches'[v] = batches[v]
      BY <1>1, <2>2 DEF ReplayInv
    <3> QED
      BY <3>1 DEF ReplayInv
  <2> QED
    BY <2>1, <2>2
<1>6. ReplayInv'
  BY <1>1, <1>2, <1>3, <1>4, <1>5 DEF ReplayInv, Digest, Report, Reported, Command, Assigned, NumBatches
<1>7. gaps' \subseteq Executors \X Dispatched
  <2>1. commands[w] \in Seq({Command(s) : s \in Dispatched})
    BY DEF ReplayInv
  <2>2. \A c \in Range(commands[w]) : c.sequence \in Dispatched
    BY <2>1 DEF Range, Command
  <2> QED
    BY <1>1, <2>2, MissFacts
<1> QED
  BY <1>1, <1>6, <1>7 DEF Feeds, Shape

LEMMA ReplayStepFeeds ==
  ASSUME Shape, ReplayInv, ReplayStep
  PROVE  ReplayInv' /\ Feeds
<1>1. CASE \E r \in reports : Collect(r)
  BY <1>1, KeepsCollecting
<1>2. CASE \E w \in Workers : Generate(w)
  BY <1>2, KeepsGenerating
<1>3. CASE \E w \in Workers : Route(w) \/ LoseCommand(w)
  BY <1>3, KeepsTakingCommand
<1>4. CASE \E w \in Workers : RestartWorker(w)
  BY <1>4, KeepsRestarting
<1>5. CASE \E r \in reports : LoseReport(r)
  BY <1>5, KeepsLosingReport
<1> QED
  BY <1>1, <1>2, <1>3, <1>4, <1>5, KeepsCommanding DEF ReplayStep, ReplayTask

LEMMA ReplayNextInv ==
  ASSUME Inv, ReplayInv, [ReplayNext]_allVars
  PROVE  /\ Inv' /\ ReplayInv' /\ (NothingHappens \/ \E t : TakesEffect(t))
<1>1. Shape
  BY DEF Inv
<1>2. ASSUME UNCHANGED <<replayVars, log>> PROVE ReplayInv'
  <2>1. UNCHANGED <<source, generated, batches, reports, digests, sequence, commands, unreported, log>>
    BY <1>2 DEF replayVars, generatorVars, sequencerVars
  <2>2. Dispatched' = Dispatched
    BY <2>1 DEF Dispatched, NumBatches
  <2> QED
    BY <2>1, <2>2 DEF ReplayInv, Digest, Report, Reported, Command, Assigned, NumBatches
<1>3. CASE ((\E e \in Executors : ExecutorStep(e)) \/ NetworkStep) /\ UNCHANGED replayVars
  <2>1. (\E e \in Executors : Step(e)) \/ NetworkStep
    BY <1>3 DEF ExecutorStep, Step
  <2>2. Inv' /\ (NothingHappens \/ \E t : TakesEffect(t))
    BY <2>1, ExecutorNext
  <2>3. UNCHANGED log
    BY <2>2 DEF NothingHappens, TakesEffect
  <2> QED
    BY <1>2, <1>3, <2>2, <2>3
<1>4. CASE ReplayStep
  <2>1. ReplayInv' /\ Feeds
    BY <1>1, <1>4, ReplayStepFeeds
  <2>2. Kept
    BY <2>1, KeepsOutside DEF Feeds
  <2> QED
    BY <2>1, <2>2, KeptIsSerial
<1>5. CASE UNCHANGED allVars
  <2>1. UNCHANGED executorVars /\ UNCHANGED <<inbox, gaps, log, replayVars>>
    BY <1>5 DEF allVars, vars, executorVars, schedulerVars, transferVars
  <2>2. Kept
    BY <1>1, <2>1, KeepsOutside DEF Shape
  <2> QED
    BY <1>2, <2>1, <2>2, KeptIsSerial
<1> QED
  BY <1>3, <1>4, <1>5 DEF ReplayNext

-----------------------------------------------------------------------------
(* The theorems *)

\* The invariants that the other theorems rest on: how far an executor has followed
\* the schedule that the log determines, what its queues hold and where every account
\* is (execute_batch, execute_migrate_out, process_incoming_transfers), and what the
\* workers and the sequencer of a replay know (replay_sequencer.rs).
THEOREM Invariance == ReplaySpec => [](Inv /\ ReplayInv)
<1>1. Inv /\ ReplayInv /\ [ReplayNext]_allVars => Inv' /\ ReplayInv'
  BY ReplayNextInv
<1> QED
  BY ReplayInitInv, <1>1, PTL DEF ReplaySpec

\* The state of the executors is well-typed, whatever is lost (batch_executor.rs).
THEOREM TypeCorrect == ReplaySpec => []TypeOK
<1>1. Inv => TypeOK
  <2> SUFFICES ASSUME Inv PROVE TypeOK
    OBVIOUS
  <2>1. Shape
    BY DEF Inv
  <2>2. InFlight \subseteq Transfers
    BY <2>1 DEF Shape, InFlight
  <2>3. ASSUME NEW e \in Executors
        PROVE  /\ inbox[e] \subseteq 1 .. NumBatches /\ buffer[e] \subseteq 1 .. NumBatches
               /\ next[e] \in 1 .. NumBatches + 1
               /\ phase[e] \in {"idle", "schedule", "execute", "incoming"}
               /\ partition[e] \in [Accounts -> Executors]
               /\ \A a \in Accounts : store[e][a] = NotHere \/ store[e][a] \in AccountState
               /\ todo[e] \subseteq 1 .. Len(log.txs) /\ work[e] \subseteq Accounts
    <3>1. store[e] \in [Accounts -> AccountState \cup {NotHere}]
      BY <2>1 DEF Shape
    <3>2. \A a \in Accounts : store[e][a] = NotHere \/ store[e][a] \in AccountState
      BY <3>1
    <3> QED
      BY <2>1, <3>2 DEF Shape, Positions
  <2> QED
    BY <2>1, <2>2, <2>3 DEF TypeOK, Shape, Positions
<1> QED
  BY Invariance, <1>1, PTL

\* An account is in exactly one store or in exactly one transfer, which may be lost
\* (execute_migrate_out, process_incoming_transfers, handle_executor_message).
THEOREM AccountsAreOnce == ReplaySpec => []AccountOnce
<1>1. Inv => AccountOnce
  <2> SUFFICES ASSUME Inv, NEW a \in Accounts
               PROVE  Cardinality({e \in Executors : store[e][a] # NotHere})
                        + Cardinality({m \in InFlight : m.account = a}) = 1
    BY DEF AccountOnce
  <2>1. PICK holders, messages : /\ holders = {e \in Executors : store[e][a] # NotHere}
                                 /\ messages = {m \in InFlight : m.account = a}
    OBVIOUS
  <2>2. AccountInv
    BY DEF Inv
  <2>3. CASE holders # {}
    <3>1. PICK e \in Executors : e \in holders
      BY <2>1, <2>3
    <3>2. messages = {}
      BY <2>1, <2>2, <3>1 DEF AccountInv
    <3>3. PICK k \in 0 .. Len(log.txs) : Frontier(a, k)
      BY <2>2 DEF AccountInv
    <3>4. \A f \in holders : At(k)[a] = f
      BY <2>1, <2>2, <3>3 DEF AccountInv
    <3>5. holders = {e}
      BY <3>1, <3>4
    <3>6. Cardinality(holders) = 1 /\ Cardinality(messages) = 0
      BY <3>2, <3>5, FS_Singleton, FS_EmptySet
    <3> QED
      BY <2>1, <3>6
  <2>4. CASE holders = {}
    <3>1. PICK m \in InFlight : m \in messages
      BY <2>1, <2>2, <2>4 DEF AccountInv
    <3>2. messages = {m}
      BY <2>1, <2>2, <3>1 DEF AccountInv
    <3>3. Cardinality(holders) = 0 /\ Cardinality(messages) = 1
      BY <2>4, <3>2, FS_Singleton, FS_EmptySet
    <3> QED
      BY <2>1, <3>3
  <2> QED
    BY <2>3, <2>4
<1> QED
  BY Invariance, <1>1, PTL

\* Executors that scheduled the same batches agree on who owns every account, in
\* whatever order they iterate their hash maps (batch_executor.rs:303,
\* schedule_transaction_new).
THEOREM PartitionsAgree == ReplaySpec => []PartitionAgreement
<1>1. Inv => PartitionAgreement
  <2> SUFFICES ASSUME Inv, NEW e \in Executors, phase[e] # "schedule",
                      NEW f \in Executors, phase[f] # "schedule", Begun(e) = Begun(f)
               PROVE  partition[e] = partition[f]
    BY DEF PartitionAgreement, Begun
  <2>1. \A g \in Executors : phase[g] # "schedule" => partition[g] = At(Start(Begun(g)))
    BY DEF Inv, PlanInv, Progress, Until
  <2> QED
    BY <2>1
<1> QED
  BY Invariance, <1>1, PTL

\* The state of the replay is well-typed (replay_sequencer.rs,
\* replay_batch_generator.rs).
THEOREM ReplayTypeCorrect == ReplaySpec => []ReplayTypeOK
<1>1. Inv /\ ReplayInv => ReplayTypeOK
  <2> SUFFICES ASSUME Inv, ReplayInv PROVE ReplayTypeOK
    OBVIOUS
  <2>1. PICK digestOf : digestOf = [batch : Dispatched, seed : Dispatched]
    OBVIOUS
  <2>2. \A s \in Dispatched : Digest(s) \in digestOf /\ Assigned(s) \in Workers
    BY <2>1, AssignedIs DEF Digest, Dispatched
  <2>3. ASSUME NEW w \in Workers
        PROVE  /\ generated[w] \subseteq MyAssignments(w) /\ batches[w] \subseteq digestOf
               /\ Range(commands[w]) \subseteq [digest : digestOf, sequence : Dispatched]
    <3>1. generated[w] \subseteq MyAssignments(w) /\ batches[w] \subseteq digestOf
      BY <2>2 DEF ReplayInv, MyAssignments
    <3>2. commands[w] \in Seq({Command(s) : s \in Dispatched})
      BY DEF ReplayInv
    <3>3. \A c \in Range(commands[w]) : \E s \in Dispatched : c = Command(s)
      BY <3>2 DEF Range
    <3> QED
      BY <2>2, <3>1, <3>3 DEF Command
  <2>4. reports \subseteq [batch : Dispatched, digest : digestOf, worker : Workers]
    BY <2>2 DEF ReplayInv, Report
  <2>5. \A s \in Collected : digests[s] \in [worker : Workers, digest : digestOf]
    BY <2>2 DEF ReplayInv, Collected, Reported
  <2> QED
    BY <2>1, <2>3, <2>4, <2>5 DEF ReplayTypeOK, ReplayInv
<1> QED
  BY Invariance, <1>1, PTL

\* Though reports get lost and workers start again, an Execute names the batch recorded
\* at its position and goes to a worker that stores this batch or is about to generate
\* it again (ReplaySequencer, ReplayBatchGenerator).
THEOREM ReplaysInOrder == ReplaySpec => []ReplayInOrder
<1>1. ReplayInv => ReplayInOrder
  <2> SUFFICES ASSUME ReplayInv, NEW w \in Workers, NEW c \in Range(commands[w])
               PROVE  /\ c.digest.batch = c.sequence
                      /\ c.digest \in batches[w] \/ c.sequence \in MyAssignments(w) \ generated[w]
    BY DEF ReplayInOrder
  <2>1. commands[w] \in Seq({Command(s) : s \in Dispatched})
    BY DEF ReplayInv
  <2>2. PICK i \in DOMAIN commands[w] : c = commands[w][i]
    BY DEF Range
  <2>3. PICK s \in Dispatched : c = Command(s)
    BY <2>1, <2>2
  <2>4. Assigned(s) = w /\ c.sequence = s /\ c.digest = Digest(s)
    <3>1. Assigned(commands[w][i].sequence) = w
      BY DEF ReplayInv
    <3>2. c.sequence = s /\ c.digest = Digest(s)
      BY <2>3 DEF Command
    <3> QED
      BY <2>2, <3>1, <3>2
  <2>5. s \in generated[w] => Digest(s) \in batches[w]
    BY DEF ReplayInv
  <2> QED
    BY <2>4, <2>5 DEF MyAssignments, Digest
<1> QED
  BY Invariance, <1>1, PTL

\* The executors of a validator, dispatched or replayed, implement SerialBank: every
\* transaction that takes effect does so once, after all the earlier ones on its
\* accounts and on the balances they left, whichever executors ran them
\* (execute_single_local_transaction, process_incoming_transfers,
\* drain_pending_queues).
THEOREM ExecutesSerially == ReplaySpec => SerialExecution
<1>1. ReplayInit => Bank!Init
  BY ReplayInitInv
<1>2. Inv /\ ReplayInv /\ [ReplayNext]_allVars => [Bank!Next]_(Bank!bankVars)
  <2> SUFFICES ASSUME Inv, ReplayInv, [ReplayNext]_allVars PROVE [Bank!Next]_(Bank!bankVars)
    OBVIOUS
  <2>1. CASE NothingHappens
    BY <2>1, NothingIsSerial
  <2>2. CASE \E t : TakesEffect(t)
    BY <2>2, EffectIsSerial
  <2> QED
    BY <2>1, <2>2, ReplayNextInv
<1> QED
  BY Invariance, <1>1, <1>2, PTL DEF ReplaySpec, SerialExecution
=============================================================================
