---------------------------- MODULE MCWriteback ----------------------------
(***************************************************************************)
(* Instances of Writeback for TLC: committed logs of payments and other    *)
(* transactions over accounts of two executors.                            *)
(***************************************************************************)
EXTENDS Writeback

\* Payments of 2 from balances that do not always cover them, so that the order
\* of transactions shows in the balances.
Pay(src, dest) == [kind |-> "pay", src |-> src, dest |-> dest, amount |-> 2]
Single(kind, src) == [kind |-> kind, src |-> src, dest |-> src, amount |-> 1]

MCAccounts  == {"a", "b", "c"}
MCBank      == [x \in MCAccounts |->
                  [checking |-> CASE x = "a" -> 2 [] x = "b" -> 1 [] x = "c" -> 3,
                   savings |-> 0]]
MCPartition == [x \in MCAccounts |-> IF x = "c" THEN 1 ELSE 0]

Transactions == {Pay("a", "c"), Pay("c", "b"), Pay("a", "b"), Single("check", "c")}

\* Every log of three transactions that begins with a payment between executors,
\* and one in which a local payment runs between two that are not.
MCLogs ==
  [txs : {<<Pay("a", "c")>> \o l : l \in [1 .. 2 -> Transactions]}, ends : {<<1, 3>>}]
  \cup {[txs  |-> <<Pay("a", "c"), Pay("a", "b"), Pay("a", "c"), Single("check", "b")>>,
         ends |-> <<2, 4>>]}

\* A local payment waits for a payment to another executor; a transaction on its
\* other account comes after it.
LocalPaymentLogs ==
  {[txs |-> <<Pay("a", "c"), Pay("a", "b"), Single("deposit", "b")>>, ends |-> <<1, 3>>]}
=============================================================================
