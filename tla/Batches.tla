------------------------------ MODULE Batches ------------------------------
(***************************************************************************)
(* How a worker disseminates the batches it seals (worker crate, with the  *)
(* reliable sender and the receiver of the network crate): the BatchMaker  *)
(* broadcasts a batch to the workers of the same id, the QuorumWaiter      *)
(* counts acknowledgements, one batch after the other, and the Processor   *)
(* stores a batch a quorum acknowledged and tells the primary.             *)
(*                                                                         *)
(* An acknowledgement names nothing: a connection matches it by position   *)
(* with the messages it wrote.  The receiving worker acknowledges a batch  *)
(* before it stores it.  A batch is its number in the order of sealing.    *)
(***************************************************************************)
EXTENDS Committee, SequencesExt

CONSTANTS
  Author,      \* the authority whose worker seals the batches
  Silent,      \* the peers that no connection is ever made to
  MayRestart,  \* the peers whose worker may crash and start again, once each
  NumBatches,  \* bound: batches sealed
  MaxBreaks    \* bound: connections broken

Peers == Authorities \ {Author}
Batch == 1 .. NumBatches

ASSUME BatchesAssumption ==
  /\ Author \in Authorities
  /\ Silent \subseteq Peers
  /\ MayRestart \subseteq Peers
  /\ {NumBatches, MaxBreaks} \subseteq Nat

VARIABLES
  sealed,     \* batches sealed: 1 .. sealed were broadcast
  acked,      \* the peers whose cancel handler of a batch was answered
  reached,    \* 1 .. reached left the QuorumWaiter: their handlers are dropped
  processed   \* 1 .. processed were stored by the worker's own Processor

VARIABLES
  up,         \* Connection: the peers a connection is established with
  buffer,     \* Connection::buffer and, behind it, its channel
  pending,    \* keep_alive's pending_replies: written, no ACK yet
  wire,       \* frames of the current connection that the peer has not read
  acks,       \* batches whose ACK is on its way back on this connection
  stale,      \* frames of broken connections the peer may still read
  breaks      \* connections broken so far

VARIABLES
  inbox,      \* the channel from a peer's receiver to its Processor
  store,      \* the batches in the store of each worker
  crashed     \* whether a peer crashed, and the batches it lost

makerVars == <<sealed, acked, reached, processed>>
linkVars  == <<up, buffer, pending, wire, acks, stale, breaks>>
peerVars  == <<inbox, store, crashed>>
vars      == <<makerVars, linkVars, peerVars>>

\* The cancel handlers of a batch are dropped with the QuorumWaiter's futures.
IsClosed(b) == b <= reached

Init ==
  /\ sealed = 0
  /\ acked = [b \in Batch |-> {}]
  /\ reached = 0
  /\ processed = 0
  /\ up = {}
  /\ buffer = [p \in Peers |-> <<>>]
  /\ pending = [p \in Peers |-> <<>>]
  /\ wire = [p \in Peers |-> <<>>]
  /\ acks = [p \in Peers |-> <<>>]
  /\ stale = [p \in Peers |-> {}]
  /\ breaks = 0
  /\ inbox = [p \in Peers |-> <<>>]
  /\ store = [a \in Authorities |-> {}]
  /\ crashed = [p \in Peers |-> [yes |-> FALSE, batches |-> {}]]

----------------------------------------------------------------------------
(* The worker that seals *)

\* OpenOf(s)[i] is what buffer.retain leaves of the first i messages: those whose
\* handler is not closed.
OpenOf(s) ==
  LET open[i \in 0 .. Len(s)] ==
        IF i = 0 THEN <<>>
        ELSE IF IsClosed(s[i]) THEN open[i - 1]
        ELSE Append(open[i - 1], s[i])
  IN  open

\* While a connection is down, its task drains the channel into the buffer and
\* drops the messages whose handler is closed.
Enqueued(p, b) ==
  IF p \in up THEN Append(buffer[p], b)
              ELSE OpenOf(Append(buffer[p], b))[Len(buffer[p]) + 1]

\* BatchMaker: enough transactions, or the timer with at least one of them.
Seal ==
  /\ sealed < NumBatches
  /\ sealed' = sealed + 1
  /\ buffer' = [p \in Peers |-> Enqueued(p, sealed + 1)]
  /\ UNCHANGED <<acked, reached, processed, up, pending, wire, acks,
                 stale, breaks, peerVars>>

\* QuorumWaiter: the batch it looks at has a quorum of acknowledgements.
ReachQuorum ==
  /\ reached < sealed
  /\ acked[reached + 1] # {}
  /\ IsQuorum({Author} \cup acked[reached + 1])
  /\ reached' = reached + 1
  /\ UNCHANGED <<sealed, acked, processed, linkVars, peerVars>>

\* Mutant of ProcessOwn: the batch is stored as soon as it is sealed.
ProcessOwnEarly ==
  /\ processed < sealed
  /\ processed' = processed + 1
  /\ store' = [store EXCEPT ![Author] = @ \cup {processed + 1}]
  /\ UNCHANGED <<sealed, acked, reached, linkVars, inbox, crashed>>

\* Processor of the worker's own batches: it stores the batch and has the
\* PrimaryConnector tell the primary.
ProcessOwn ==
  /\ processed < reached
  /\ processed' = processed + 1
  /\ store' = [store EXCEPT ![Author] = @ \cup {processed + 1}]
  /\ UNCHANGED <<sealed, acked, reached, linkVars, inbox, crashed>>

----------------------------------------------------------------------------
(* The connection to a peer *)

Connect(p) ==
  /\ p \notin up \cup Silent
  /\ up' = up \cup {p}
  /\ UNCHANGED <<makerVars, buffer, pending, wire, acks, stale, breaks, peerVars>>

\* keep_alive writes the head of the buffer, or skips it when it was cancelled.
Send(p) ==
  /\ p \in up
  /\ buffer[p] # <<>>
  /\ buffer' = [buffer EXCEPT ![p] = Tail(@)]
  /\ IF IsClosed(Head(buffer[p]))
     THEN UNCHANGED <<pending, wire>>
     ELSE /\ pending' = [pending EXCEPT ![p] = Append(@, Head(buffer[p]))]
          /\ wire' = [wire EXCEPT ![p] = Append(@, Head(buffer[p]))]
  /\ UNCHANGED <<makerVars, up, acks, stale, breaks, peerVars>>

\* Mutant of ReceiveAck: an ACK answers the newest message.
ReceiveAckNewest(p) ==
  /\ acks[p] # <<>>
  /\ acks' = [acks EXCEPT ![p] = Tail(@)]
  /\ pending' = [pending EXCEPT ![p] = Front(@)]
  /\ LET b == Last(pending[p])
     IN  acked' = IF IsClosed(b) THEN acked ELSE [acked EXCEPT ![b] = @ \cup {p}]
  /\ UNCHANGED <<sealed, reached, processed, up, buffer, wire, stale,
                 breaks, peerVars>>

\* An ACK answers the handler of the oldest message without one; the answer to
\* a handler that was dropped goes nowhere.
ReceiveAck(p) ==
  /\ acks[p] # <<>>
  /\ acks' = [acks EXCEPT ![p] = Tail(@)]
  /\ pending' = [pending EXCEPT ![p] = Tail(@)]
  /\ LET b == Head(pending[p])
     IN  acked' = IF IsClosed(b) THEN acked ELSE [acked EXCEPT ![b] = @ \cup {p}]
  /\ UNCHANGED <<sealed, reached, processed, up, buffer, wire, stale,
                 breaks, peerVars>>

\* Mutants of Disconnect: the pending replies are also kept; the message whose
\* ACK was awaited is not put back.
DisconnectKeepingReplies(p) ==
  /\ up' = up \ {p}
  /\ buffer' = [buffer EXCEPT ![p] = pending[p] \o @]
  /\ pending' = pending
  /\ wire' = [wire EXCEPT ![p] = <<>>]
  /\ acks' = [acks EXCEPT ![p] = <<>>]

DisconnectForgetting(p) ==
  /\ up' = up \ {p}
  /\ buffer' = [buffer EXCEPT ![p] =
                 (IF pending[p] = <<>> THEN <<>> ELSE Tail(pending[p])) \o @]
  /\ pending' = [pending EXCEPT ![p] = <<>>]
  /\ wire' = [wire EXCEPT ![p] = <<>>]
  /\ acks' = [acks EXCEPT ![p] = <<>>]

\* The messages without an ACK go back before the ones not sent yet.
Disconnect(p) ==
  /\ up' = up \ {p}
  /\ buffer' = [buffer EXCEPT ![p] = pending[p] \o @]
  /\ pending' = [pending EXCEPT ![p] = <<>>]
  /\ wire' = [wire EXCEPT ![p] = <<>>]
  /\ acks' = [acks EXCEPT ![p] = <<>>]

\* The connection fails: ACKs on their way are lost, and the peer may still read
\* what was written.
Break(p) ==
  /\ p \in up
  /\ breaks < MaxBreaks
  /\ breaks' = breaks + 1
  /\ Disconnect(p)
  /\ stale' = [stale EXCEPT ![p] = @ \cup Range(wire[p])]
  /\ UNCHANGED <<makerVars, peerVars>>

----------------------------------------------------------------------------
(* The worker of a peer *)

\* WorkerReceiverHandler: reply with an ACK, then hand the batch over.
Receive(p) ==
  /\ wire[p] # <<>>
  /\ wire' = [wire EXCEPT ![p] = Tail(@)]
  /\ acks' = [acks EXCEPT ![p] = Append(@, Head(wire[p]))]
  /\ inbox' = [inbox EXCEPT ![p] = Append(@, Head(wire[p]))]
  /\ UNCHANGED <<makerVars, up, buffer, pending, stale, breaks, store, crashed>>

\* The runner of a broken connection reads a frame: its ACK goes nowhere.
ReceiveStale(p) == \E b \in stale[p] :
  /\ stale' = [stale EXCEPT ![p] = @ \ {b}]
  /\ inbox' = [inbox EXCEPT ![p] = Append(@, b)]
  /\ UNCHANGED <<makerVars, up, buffer, pending, wire, acks, breaks, store, crashed>>

\* Processor of the batches of others.
ProcessOthers(p) ==
  /\ inbox[p] # <<>>
  /\ inbox' = [inbox EXCEPT ![p] = Tail(@)]
  /\ store' = [store EXCEPT ![p] = @ \cup {Head(inbox[p])}]
  /\ UNCHANGED <<makerVars, linkVars, crashed>>

\* The peer's worker crashes and starts again with its store: what it had
\* acknowledged and not stored is gone, and so is its end of the connection.
Restart(p) ==
  /\ p \in MayRestart
  /\ ~crashed[p].yes
  /\ crashed' = [crashed EXCEPT ![p] = [yes |-> TRUE, batches |-> Range(inbox[p])]]
  /\ inbox' = [inbox EXCEPT ![p] = <<>>]
  /\ Disconnect(p)
  /\ stale' = [stale EXCEPT ![p] = {}]
  /\ UNCHANGED <<makerVars, breaks, store>>

----------------------------------------------------------------------------
PeerStep(p) ==
  \/ Connect(p) \/ Send(p) \/ ReceiveAck(p) \/ Break(p)
  \/ Receive(p) \/ ReceiveStale(p) \/ ProcessOthers(p) \/ Restart(p)

Next ==
  \/ Seal
  \/ ReachQuorum
  \/ ProcessOwn
  \/ \E p \in Peers : PeerStep(p)

\* The tasks run; connections are retried for ever, and broken only finitely often.
Fairness ==
  /\ WF_vars(ReachQuorum)
  /\ WF_vars(ProcessOwn)
  /\ \A p \in Peers :
       /\ WF_vars(Connect(p)) /\ WF_vars(Send(p)) /\ WF_vars(ReceiveAck(p))
       /\ WF_vars(Receive(p)) /\ WF_vars(ProcessOthers(p))

Spec == Init /\ [][Next]_vars /\ Fairness

----------------------------------------------------------------------------
(* Properties *)

TypeOK ==
  /\ sealed \in 0 .. NumBatches
  /\ reached \in 0 .. sealed
  /\ processed \in 0 .. reached
  /\ acked \in [Batch -> SUBSET Peers]
  /\ up \subseteq Peers
  /\ {buffer, pending, wire, acks, inbox} \subseteq [Peers -> Seq(1 .. sealed)]
  /\ stale \in [Peers -> SUBSET (1 .. sealed)]
  /\ breaks \in 0 .. MaxBreaks
  /\ store \in [Authorities -> SUBSET (1 .. sealed)]
  /\ crashed \in [Peers -> [yes : BOOLEAN, batches : SUBSET (1 .. sealed)]]

\* The batches that reached a peer's worker: stored, about to be, or lost in a
\* crash after they were acknowledged.
Received(p) == store[p] \cup Range(inbox[p]) \cup crashed[p].batches

\* The batch is delivered (quorum_waiter.rs): whatever the connections do, the
\* workers that received a batch that left the QuorumWaiter are, with its author,
\* a quorum.  An ACK counted for another batch than the one it answers, which is
\* what matching by position risks, or counted twice breaks it.
QuorumReceived ==
  \A b \in 1 .. reached : IsQuorum({Author} \cup {p \in Peers : b \in Received(p)})

\* A message whose handler waits is in exactly one place of its connection: in
\* the buffer or among the pending replies, so that it is neither forgotten when
\* the connection breaks nor sent twice on one connection.
KeptUntilAcked ==
  \A p \in Peers, b \in reached + 1 .. sealed :
    LET kept == buffer[p] \o pending[p]
    IN  Cardinality({i \in DOMAIN kept : kept[i] = b}) = IF p \in acked[b] THEN 0 ELSE 1

\* Every sealed batch reaches the Processor of its author, though a minority of
\* the peers never answers, connections break and peers restart: one slow batch
\* delays the ones behind it and stops none of them.
EveryBatchProcessed == \A b \in Batch : (sealed >= b) ~> (processed >= b)
=============================================================================
