----------------------------- MODULE SmallBank -----------------------------
(***************************************************************************)
(* The SmallBank workload both executors run (worker/src/workload.rs): the *)
(* account operations, the accounts a transaction names, and the effect of *)
(* a transaction on a bank, a function from accounts to their states.      *)
(*                                                                         *)
(* Amounts are whole (the code truncates the f64 of the wire with `as      *)
(* i64`) and the balances of an instance stay far from the limits of i64,  *)
(* where the saturating additions of the code would matter.                *)
(***************************************************************************)
EXTENDS Integers, Sequences

Kinds == {"balance", "deposit", "savings", "check", "pay"}

AccountState == [checking : Int, savings : Int]

(* A transaction: its kind, the account it names first, the account it     *)
(* pays to (the same account for every other kind) and its amount.         *)
Transaction(accounts) == [kind : Kinds, src : accounts, dest : accounts, amount : Nat]

IsTransaction(tx, accounts) ==
  /\ tx \in Transaction(accounts)
  /\ tx.kind = "pay" <=> tx.src # tx.dest

(* The accounts a transaction must hold to execute.                        *)
RequiredAccounts(tx) == IF tx.kind = "pay" THEN {tx.src, tx.dest} ELSE {tx.src}

Deposit(account, n) == [account EXCEPT !.checking = @ + n]

TransactSavings(account, n) ==
  IF account.savings - n < 0 THEN account ELSE [account EXCEPT !.savings = @ - n]

WriteCheck(account, n) ==
  LET covered == account.checking + account.savings >= n
  IN  [account EXCEPT !.checking = @ - (IF covered THEN n ELSE n - 1)]

CanDebit(account, n) == account.checking - n >= 0
Debit(account, n)    == [account EXCEPT !.checking = @ - n]
Credit(account, n)   == [account EXCEPT !.checking = @ + n]

(* The bank after the transaction; a payment its source cannot cover       *)
(* leaves both accounts as they were.                                      *)
Executed(bank, tx) ==
  CASE tx.kind = "balance" -> bank
    [] tx.kind = "deposit" -> [bank EXCEPT ![tx.src] = Deposit(@, tx.amount)]
    [] tx.kind = "savings" -> [bank EXCEPT ![tx.src] = TransactSavings(@, tx.amount)]
    [] tx.kind = "check"   -> [bank EXCEPT ![tx.src] = WriteCheck(@, tx.amount)]
    [] tx.kind = "pay"     -> IF CanDebit(bank[tx.src], tx.amount)
                              THEN [bank EXCEPT ![tx.src]  = Debit(@, tx.amount),
                                                ![tx.dest] = Credit(@, tx.amount)]
                              ELSE bank
=============================================================================
