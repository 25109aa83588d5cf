----------------------------- MODULE SerialBank -----------------------------
(***************************************************************************)
(* What an executor promises, whatever it is made of: the committed        *)
(* transactions take effect one at a time, each after every earlier one    *)
(* that shares an account with it.  The executors of a validator together  *)
(* implement this specification (DataFusion, Writeback); since conflicting *)
(* transactions keep the committed order, every validator that executes    *)
(* the same log reaches the same balances.                                 *)
(***************************************************************************)
EXTENDS SmallBank

CONSTANTS Accounts,     \* the accounts of the workload
          Initial       \* their states at boot

VARIABLES txs,          \* the committed transactions, in their global order
          done,         \* the positions of those that took effect
          bank          \* the state of every account

bankVars == <<txs, done, bank>>

Init == /\ txs \in Seq(Transaction(Accounts))
        /\ done = {}
        /\ bank = Initial

Conflict(i, j) == RequiredAccounts(txs[i]) \cap RequiredAccounts(txs[j]) # {}

Execute(i) ==
  /\ i \notin done
  /\ \A j \in 1 .. i - 1 : Conflict(i, j) => j \in done
  /\ done' = done \cup {i}
  /\ bank' = Executed(bank, txs[i])
  /\ UNCHANGED txs

Next == \E i \in 1 .. Len(txs) : Execute(i)

Spec == Init /\ [][Next]_bankVars
=============================================================================
