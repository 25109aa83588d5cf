---------------------------- MODULE MCDataFusion ----------------------------
(***************************************************************************)
(* Instances of DataFusion for TLC: committed logs of payments and other   *)
(* transactions over accounts that start on different executors.           *)
(***************************************************************************)
EXTENDS Replay

\* Payments of 2 from balances that do not always cover them, so that the order
\* of transactions shows in the balances.
Pay(src, dest) == [kind |-> "pay", src |-> src, dest |-> dest, amount |-> 2]
Single(kind, src) == [kind |-> kind, src |-> src, dest |-> src, amount |-> 1]

MCAccounts  == {"a", "b", "c"}
MCBank      == [x \in MCAccounts |->
                  [checking |-> CASE x = "a" -> 2 [] x = "b" -> 1 [] x = "c" -> 3,
                   savings |-> 0]]
MCPartition == [x \in MCAccounts |-> IF x = "c" THEN 1 ELSE 0]

Payments == {Pay("c", "b"), Pay("b", "a")}
Transactions == Payments \cup {Pay("a", "c"), Single("check", "c")}

\* Logs of three transactions, two of them payments between executors or within one,
\* and one batch that gives executor 0 more than its share.
MCLogs ==
  [txs : {<<Pay("a", "c"), x, y>> : x \in Payments, y \in Transactions}, ends : {<<1, 3>>}]
  \cup {[txs  |-> <<Single("deposit", "a"), Single("savings", "b"), Single("balance", "a"),
                    Pay("a", "b"), Single("check", "b")>>,
         ends |-> <<4, 5>>]}

\* Two batches of one transaction: an account goes to the other executor and back.
MCRecordings == {[txs |-> <<Pay("a", "c"), Pay("c", "b")>>, ends |-> <<1, 2>>]}

MCAllLogs == MCLogs \cup MCRecordings
=============================================================================
