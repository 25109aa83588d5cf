--------------------------- MODULE Batches_proofs ---------------------------
(***************************************************************************)
(* QuorumReceived for every committee, set of silent or restarting peers,  *)
(* number of batches and of broken connections.  The messages without an   *)
(* answer are those of the acknowledgements on their way, then those that  *)
(* the peer has not read: so an acknowledgement answers its own batch.     *)
(* KeptUntilAcked: no batch stands twice in the buffer and the pending     *)
(* replies of a connection, whatever breaks.                               *)
(***************************************************************************)
EXTENDS Batches, Committee_proofs

\* What the counts and the maps hold.
Shape ==
  /\ sealed \in 0 .. NumBatches
  /\ reached \in 0 .. sealed
  /\ acked \in [Batch -> SUBSET Peers]
  /\ DOMAIN acks = Peers /\ DOMAIN wire = Peers /\ DOMAIN pending = Peers
  /\ DOMAIN inbox = Peers /\ DOMAIN crashed = Peers
  /\ DOMAIN store = Authorities

\* Answers come by position.
InStep(p) ==
  /\ \E S : acks[p] \in Seq(S) /\ wire[p] \in Seq(S) /\ inbox[p] \in Seq(S)
  /\ pending[p] = acks[p] \o wire[p]

\* What a peer acknowledged, or is about to, has reached it.
Honest(p) ==
  /\ \A i \in DOMAIN acks[p] : acks[p][i] \in Received(p)
  /\ \A b \in Batch : p \in acked[b] => b \in Received(p)
  /\ ~crashed[p].yes => crashed[p].batches = {}

Counted == \A b \in 1 .. reached : IsQuorum({Author} \cup acked[b])

Delivery == Shape /\ Counted /\ \A p \in Peers : InStep(p) /\ Honest(p)

----------------------------------------------------------------------------
(* Sequences *)

LEMMA ConcatMove ==
  ASSUME NEW S, NEW s \in Seq(S), NEW t \in Seq(S), t # <<>>
  PROVE  s \o t = Append(s, Head(t)) \o Tail(t)
  OBVIOUS

LEMMA ConcatTail ==
  ASSUME NEW S, NEW s \in Seq(S), NEW t \in Seq(S), s # <<>>
  PROVE  Tail(s \o t) = Tail(s) \o t /\ Head(s \o t) = s[1] /\ 1 \in DOMAIN s
  OBVIOUS

LEMMA RangeAppend ==
  ASSUME NEW S, NEW s \in Seq(S), NEW e \in S
  PROVE  Range(Append(s, e)) = Range(s) \cup {e}
  BY DEF Range

LEMMA RangeTail ==
  ASSUME NEW S, NEW s \in Seq(S), s # <<>>
  PROVE  Range(s) = Range(Tail(s)) \cup {Head(s)}
<1> DEFINE t == Tail(s)
<1>1. /\ DOMAIN s = 1 .. Len(s) /\ DOMAIN t = 1 .. Len(s) - 1 /\ Len(s) \in Nat \ {0}
      /\ Head(s) = s[1] /\ \A i \in 1 .. Len(s) - 1 : t[i] = s[i + 1]
  OBVIOUS
<1> HIDE DEF t
<1>2. ASSUME NEW i \in 1 .. Len(s), i # 1 PROVE i - 1 \in 1 .. Len(s) - 1 /\ s[i] = t[i - 1]
  BY <1>1, <1>2
<1>3. \A i \in 1 .. Len(s) - 1 : i + 1 \in 1 .. Len(s)
  BY <1>1
<1>4. Range(s) \subseteq Range(t) \cup {s[1]}
  BY <1>1, <1>2 DEF Range
<1>5. Range(t) \cup {s[1]} \subseteq Range(s)
  BY <1>1, <1>3 DEF Range
<1> QED
  BY <1>1, <1>4, <1>5 DEF t

----------------------------------------------------------------------------
(* The steps *)

LEMMA DeliveryAtFirst == Init => Delivery
<1> SUFFICES ASSUME Init PROVE Delivery
  OBVIOUS
<1>1. Shape
  BY BatchesAssumption DEF Init, Shape
<1>2. Counted
  BY DEF Init, Counted
<1>3. ASSUME NEW p \in Peers PROVE InStep(p) /\ Honest(p)
  <2>1. /\ acks[p] = <<>> /\ wire[p] = <<>> /\ pending[p] = <<>> /\ inbox[p] = <<>>
        /\ \A b \in Batch : acked[b] = {}
        /\ crashed[p].batches = {}
    BY <1>3 DEF Init
  <2>2. InStep(p)
    BY <2>1 DEF InStep
  <2> QED
    BY <2>1, <2>2 DEF Honest
<1> QED
  BY <1>1, <1>2, <1>3 DEF Delivery

\* A step that leaves what a peer has, and its answers, alone.
LEMMA Elsewhere ==
  ASSUME NEW p \in Peers, InStep(p), Honest(p),
         acks'[p] = acks[p], wire'[p] = wire[p], pending'[p] = pending[p],
         inbox'[p] = inbox[p], store'[p] = store[p], crashed'[p] = crashed[p],
         \A b \in Batch : p \in acked'[b] => p \in acked[b]
  PROVE  InStep(p)' /\ Honest(p)'
<1>1. Received(p)' = Received(p)
  BY DEF Received
<1> QED
  BY <1>1 DEF InStep, Honest

\* When a connection ends, the messages without an answer go back together.
LEMMA Disconnected ==
  ASSUME NEW p \in Peers, Shape, Disconnect(p)
  PROVE  /\ acks'[p] = <<>> /\ wire'[p] = <<>> /\ pending'[p] = <<>>
         /\ DOMAIN acks' = Peers /\ DOMAIN wire' = Peers /\ DOMAIN pending' = Peers
         /\ \A q \in Peers \ {p} :
              acks'[q] = acks[q] /\ wire'[q] = wire[q] /\ pending'[q] = pending[q]
  BY DEF Disconnect, Shape

LEMMA DeliverySend ==
  ASSUME NEW p \in Peers, Shape, InStep(p), Honest(p), Send(p)
  PROVE  InStep(p)' /\ Honest(p)'
<1>0. PICK e : e = Head(buffer[p])
  OBVIOUS
<1>1. PICK S : acks[p] \in Seq(S) /\ wire[p] \in Seq(S) /\ inbox[p] \in Seq(S)
  BY DEF InStep
<1>2. /\ acks' = acks /\ inbox' = inbox /\ store' = store /\ crashed' = crashed
      /\ acked' = acked
  BY DEF Send, makerVars, peerVars
<1>3. CASE IsClosed(e)
  <2>1. pending' = pending /\ wire' = wire
    BY <1>0, <1>3 DEF Send
  <2> QED
    BY <1>2, <2>1, Elsewhere
<1>4. CASE ~IsClosed(e)
  <2>1. pending'[p] = Append(pending[p], e) /\ wire'[p] = Append(wire[p], e)
    BY <1>0, <1>4 DEF Send, Shape
  <2>2. PICK T : /\ acks[p] \in Seq(T) /\ wire[p] \in Seq(T) /\ inbox[p] \in Seq(T)
                 /\ e \in T /\ Append(wire[p], e) \in Seq(T)
    <3> DEFINE T == S \cup {e}
    <3> WITNESS T
    <3> QED
      BY <1>1
  <2>3. pending'[p] = acks'[p] \o wire'[p]
    <3>1. Append(acks[p] \o wire[p], e) = acks[p] \o Append(wire[p], e)
      <4>1. acks[p] \in Seq(T) /\ wire[p] \in Seq(T) /\ e \in T
        BY <2>2
      <4>2. e \in T
        BY <4>1
      <4>3. ASSUME NEW s \in Seq(T), NEW t \in Seq(T) PROVE Append(s \o t, e) = s \o Append(t, e)
        BY <4>2
      <4> QED
        BY <4>1, <4>3
    <3>2. pending[p] = acks[p] \o wire[p]
      BY DEF InStep
    <3> QED
      BY <1>2, <2>1, <3>1, <3>2
  <2>4. InStep(p)'
    BY <1>2, <2>1, <2>2, <2>3 DEF InStep
  <2>5. Honest(p)'
    BY <1>2 DEF Honest, Received
  <2> QED
    BY <2>4, <2>5
<1> QED
  BY <1>3, <1>4

\* The answer of the oldest message is that of its own batch.
LEMMA DeliveryAck ==
  ASSUME NEW p \in Peers, Shape, InStep(p), Honest(p), ReceiveAck(p)
  PROVE  InStep(p)' /\ Honest(p)'
<1> DEFINE e == Head(pending[p])
<1>1. PICK S : acks[p] \in Seq(S) /\ wire[p] \in Seq(S) /\ inbox[p] \in Seq(S)
  BY DEF InStep
<1>2. /\ wire' = wire /\ inbox' = inbox /\ store' = store /\ crashed' = crashed
      /\ acks[p] # <<>>
      /\ acked' = IF IsClosed(e) THEN acked ELSE [acked EXCEPT ![e] = @ \cup {p}]
  BY DEF ReceiveAck, peerVars
<1>3. pending'[p] = Tail(pending[p]) /\ acks'[p] = Tail(acks[p])
  BY DEF ReceiveAck, Shape
<1>4. /\ e = acks[p][1] /\ 1 \in DOMAIN acks[p]
      /\ Tail(pending[p]) = Tail(acks[p]) \o wire[p]
  BY <1>1, <1>2, ConcatTail DEF InStep
<1> HIDE DEF e
<1>5. Received(p)' = Received(p) /\ e \in Received(p)
  BY <1>2, <1>4 DEF Received, Honest
<1>6. InStep(p)'
  <2>1. Tail(acks[p]) \in Seq(S)
    BY <1>1, <1>2
  <2> QED
    BY <1>1, <1>2, <1>3, <1>4, <2>1 DEF InStep
<1>7. \A i \in DOMAIN acks'[p] : acks'[p][i] \in Received(p)
  <2> SUFFICES ASSUME NEW i \in DOMAIN Tail(acks[p]) PROVE Tail(acks[p])[i] \in Received(p)
    BY <1>3
  <2>1. i + 1 \in DOMAIN acks[p] /\ Tail(acks[p])[i] = acks[p][i + 1]
    BY <1>1, <1>2
  <2> QED
    BY <2>1 DEF Honest
<1>8. \A b \in Batch : p \in acked'[b] => b \in Received(p)
  <2> SUFFICES ASSUME NEW b \in Batch, p \in acked'[b], b # e PROVE b \in Received(p)
    BY <1>5
  <2>1. acked'[b] = acked[b]
    BY <1>2 DEF Shape
  <2> QED
    BY <2>1 DEF Honest
<1> QED
  BY <1>2, <1>5, <1>6, <1>7, <1>8 DEF Honest

\* The receiver acknowledges a batch and hands it over.
LEMMA DeliveryReceive ==
  ASSUME NEW p \in Peers, Shape, InStep(p), Honest(p), Receive(p)
  PROVE  InStep(p)' /\ Honest(p)'
<1> DEFINE e == Head(wire[p])
<1>1. PICK S : acks[p] \in Seq(S) /\ wire[p] \in Seq(S) /\ inbox[p] \in Seq(S)
  BY DEF InStep
<1>2. /\ pending' = pending /\ store' = store /\ crashed' = crashed /\ acked' = acked
      /\ wire[p] # <<>>
  BY DEF Receive, makerVars
<1>3. /\ wire'[p] = Tail(wire[p]) /\ acks'[p] = Append(acks[p], e)
      /\ inbox'[p] = Append(inbox[p], e)
  BY DEF Receive, Shape
<1>4. e \in S /\ Tail(wire[p]) \in Seq(S)
  BY <1>1, <1>2
<1>5. acks[p] \o wire[p] = Append(acks[p], e) \o Tail(wire[p])
  BY <1>1, <1>2, ConcatMove
<1> HIDE DEF e
<1>6. Append(acks[p], e) \in Seq(S) /\ Append(inbox[p], e) \in Seq(S)
  BY <1>1, <1>4
<1>7. InStep(p)'
  BY <1>2, <1>3, <1>4, <1>5, <1>6 DEF InStep
<1>8. Range(inbox'[p]) = Range(inbox[p]) \cup {e}
  BY <1>1, <1>3, <1>4, RangeAppend
<1>9. Received(p)' = Received(p) \cup {e}
  BY <1>2, <1>8 DEF Received
<1>10. \A i \in DOMAIN acks'[p] : acks'[p][i] \in Received(p)'
  <2> SUFFICES ASSUME NEW i \in DOMAIN Append(acks[p], e)
               PROVE  Append(acks[p], e)[i] \in Received(p) \cup {e}
    BY <1>3, <1>9
  <2>1. \/ Append(acks[p], e)[i] = e
        \/ (i \in DOMAIN acks[p] /\ Append(acks[p], e)[i] = acks[p][i])
    BY <1>1
  <2> QED
    BY <2>1 DEF Honest
<1> QED
  BY <1>2, <1>7, <1>9, <1>10 DEF Honest

LEMMA DeliveryReceiveStale ==
  ASSUME NEW p \in Peers, Shape, InStep(p), Honest(p), ReceiveStale(p)
  PROVE  InStep(p)' /\ Honest(p)'
<1>1. PICK b : inbox' = [inbox EXCEPT ![p] = Append(@, b)]
  BY DEF ReceiveStale
<1>2. /\ acks' = acks /\ wire' = wire /\ pending' = pending
      /\ store' = store /\ crashed' = crashed /\ acked' = acked
  BY DEF ReceiveStale, makerVars
<1>3. PICK S : acks[p] \in Seq(S) /\ wire[p] \in Seq(S) /\ inbox[p] \in Seq(S)
  BY DEF InStep
<1> DEFINE T == S \cup {b}
<1>4. /\ acks[p] \in Seq(T) /\ wire[p] \in Seq(T) /\ inbox[p] \in Seq(T)
      /\ b \in T /\ Append(inbox[p], b) \in Seq(T)
  BY <1>3
<1> HIDE DEF T
<1>5. inbox'[p] = Append(inbox[p], b)
  BY <1>1 DEF Shape
<1>6. InStep(p)'
  BY <1>2, <1>4, <1>5 DEF InStep
<1>7. Range(inbox'[p]) = Range(inbox[p]) \cup {b}
  BY <1>4, <1>5, RangeAppend
<1>8. Received(p) \subseteq Received(p)'
  BY <1>2, <1>7 DEF Received
<1> QED
  BY <1>2, <1>6, <1>8 DEF Honest

LEMMA DeliveryProcess ==
  ASSUME NEW p \in Peers, Shape, InStep(p), Honest(p), ProcessOthers(p)
  PROVE  InStep(p)' /\ Honest(p)'
<1>1. PICK S : acks[p] \in Seq(S) /\ wire[p] \in Seq(S) /\ inbox[p] \in Seq(S)
  BY DEF InStep
<1>2. /\ acks' = acks /\ wire' = wire /\ pending' = pending
      /\ crashed' = crashed /\ acked' = acked /\ inbox[p] # <<>>
  BY DEF ProcessOthers, makerVars, linkVars
<1>3. inbox'[p] = Tail(inbox[p]) /\ store'[p] = store[p] \cup {Head(inbox[p])}
  BY DEF ProcessOthers, Shape, Peers
<1>4. Tail(inbox[p]) \in Seq(S) /\ Range(inbox[p]) = Range(Tail(inbox[p])) \cup {Head(inbox[p])}
  BY <1>1, <1>2, RangeTail
<1>5. InStep(p)'
  BY <1>1, <1>2, <1>3, <1>4 DEF InStep
<1>6. Received(p)' = Received(p)
  BY <1>2, <1>3, <1>4 DEF Received
<1> QED
  BY <1>2, <1>5, <1>6 DEF Honest

\* What a crash takes from a peer was acknowledged before.
LEMMA DeliveryRestart ==
  ASSUME NEW p \in Peers, Shape, InStep(p), Honest(p), Restart(p)
  PROVE  InStep(p)' /\ Honest(p)'
<1>1. /\ acks'[p] = <<>> /\ wire'[p] = <<>> /\ pending'[p] = <<>>
  BY Disconnected DEF Restart
<1>2. /\ inbox'[p] = <<>> /\ store' = store /\ acked' = acked
      /\ crashed'[p] = [yes |-> TRUE, batches |-> Range(inbox[p])]
      /\ ~crashed[p].yes
  BY DEF Restart, makerVars, Shape
<1>3. InStep(p)'
  <2>1. <<>> \in Seq({}) /\ <<>> \o <<>> = <<>>
    OBVIOUS
  <2> QED
    BY <1>1, <1>2, <2>1 DEF InStep
<1>4. Received(p) \subseteq Received(p)'
  BY <1>2 DEF Received, Honest
<1> QED
  BY <1>1, <1>2, <1>3, <1>4 DEF Honest

LEMMA DeliveryBreak ==
  ASSUME NEW p \in Peers, Shape, InStep(p), Honest(p), Break(p)
  PROVE  InStep(p)' /\ Honest(p)'
<1>1. /\ acks'[p] = <<>> /\ wire'[p] = <<>> /\ pending'[p] = <<>>
  BY Disconnected DEF Break
<1>2. inbox' = inbox /\ store' = store /\ crashed' = crashed /\ acked' = acked
  BY DEF Break, makerVars, peerVars
<1>3. PICK S : inbox[p] \in Seq(S)
  BY DEF InStep
<1>4. InStep(p)'
  <2>1. <<>> \in Seq(S) /\ <<>> \o <<>> = <<>>
    OBVIOUS
  <2> QED
    BY <1>1, <1>2, <1>3, <2>1 DEF InStep
<1>5. Received(p)' = Received(p)
  BY <1>2 DEF Received
<1> QED
  BY <1>1, <1>2, <1>4, <1>5 DEF Honest

\* The maps keep their domains and the counts their order.
LEMMA ShapeStep == Shape /\ [Next]_vars => Shape'
<1> SUFFICES ASSUME Shape, [Next]_vars PROVE Shape'
  OBVIOUS
<1>1. CASE Seal
  <2>1. sealed' \in 0 .. NumBatches /\ reached \in 0 .. sealed'
    BY <1>1, BatchesAssumption DEF Seal, Shape
  <2> QED
    BY <1>1, <2>1 DEF Seal, Shape, peerVars
<1>2. CASE ReachQuorum
  BY <1>2, BatchesAssumption DEF ReachQuorum, Shape, linkVars, peerVars
<1>3. CASE ProcessOwn
  BY <1>3 DEF ProcessOwn, Shape, linkVars
<1>4. ASSUME NEW p \in Peers, Connect(p) \/ Send(p) \/ Receive(p) \/ ReceiveStale(p)
      PROVE  Shape'
  BY <1>4 DEF Connect, Send, Receive, ReceiveStale, Shape, makerVars, peerVars
<1>5. ASSUME NEW p \in Peers, ProcessOthers(p) PROVE Shape'
  BY <1>5 DEF ProcessOthers, Shape, makerVars, linkVars
<1>6. ASSUME NEW p \in Peers, ReceiveAck(p) PROVE Shape'
  <2>1. acked' \in [Batch -> SUBSET Peers]
    BY <1>6 DEF ReceiveAck, Shape
  <2> QED
    BY <1>6, <2>1 DEF ReceiveAck, Shape, peerVars
<1>7. ASSUME NEW p \in Peers, Break(p) PROVE Shape'
  BY <1>7, Disconnected DEF Break, Shape, makerVars, peerVars
<1>8. ASSUME NEW p \in Peers, Restart(p) PROVE Shape'
  BY <1>8, Disconnected DEF Restart, Shape, makerVars
<1>9. CASE UNCHANGED vars
  BY <1>9 DEF vars, Shape, makerVars, linkVars, peerVars
<1> QED
  BY <1>1, <1>2, <1>3, <1>4, <1>5, <1>6, <1>7, <1>8, <1>9 DEF Next, PeerStep

\* What left the QuorumWaiter was acknowledged by a quorum, and stays so: the
\* answers to a handler that was dropped are ignored, the others are added.
LEMMA CountedStep == Shape /\ Counted /\ [Next]_vars => Counted'
<1> SUFFICES ASSUME Shape, Counted, [Next]_vars PROVE Counted'
  OBVIOUS
<1>1. CASE ReachQuorum
  <2>1. reached \in Nat /\ reached' = reached + 1 /\ acked' = acked
    BY <1>1 DEF ReachQuorum, Shape
  <2>2. IsQuorum({Author} \cup acked[reached + 1])
    BY <1>1 DEF ReachQuorum
  <2>3. \A b \in 1 .. reached + 1 : b \in 1 .. reached \/ b = reached + 1
    BY <2>1
  <2> QED
    BY <2>1, <2>2, <2>3 DEF Counted
<1>2. ASSUME NEW p \in Peers, ReceiveAck(p) PROVE Counted'
  <2> DEFINE e == Head(pending[p])
  <2>1. /\ reached' = reached
        /\ acked' = IF IsClosed(e) THEN acked ELSE [acked EXCEPT ![e] = @ \cup {p}]
    BY <1>2 DEF ReceiveAck
  <2> HIDE DEF e
  <2>2. \A b \in 1 .. reached : acked'[b] = acked[b]
    BY <2>1 DEF IsClosed, Shape, Batch
  <2> QED
    BY <2>1, <2>2 DEF Counted
<1>3. ASSUME reached' = reached, acked' = acked PROVE Counted'
  BY <1>3 DEF Counted
<1>4. CASE Seal \/ ProcessOwn
  BY <1>3, <1>4 DEF Seal, ProcessOwn
<1>5. ASSUME NEW p \in Peers, PeerStep(p), ~ReceiveAck(p) PROVE Counted'
  BY <1>3, <1>5 DEF PeerStep, Connect, Send, Break, Receive, ReceiveStale, ProcessOthers,
                    Restart, makerVars
<1>6. CASE UNCHANGED vars
  BY <1>3, <1>6 DEF vars, makerVars
<1> QED
  BY <1>1, <1>2, <1>4, <1>5, <1>6 DEF Next

\* A step of one peer and its connection leaves those of another alone.
LEMMA OtherPeer ==
  ASSUME NEW p \in Peers, NEW q \in Peers, p # q, Shape, PeerStep(q)
  PROVE  /\ acks'[p] = acks[p] /\ wire'[p] = wire[p] /\ pending'[p] = pending[p]
         /\ inbox'[p] = inbox[p] /\ store'[p] = store[p] /\ crashed'[p] = crashed[p]
         /\ \A b \in Batch : p \in acked'[b] => p \in acked[b]
<1>1. CASE Connect(q) \/ Send(q) \/ Receive(q) \/ ReceiveStale(q)
  BY <1>1 DEF Connect, Send, Receive, ReceiveStale, Shape, makerVars, peerVars
<1>2. CASE ReceiveAck(q)
  BY <1>2 DEF ReceiveAck, Shape, peerVars
<1>3. CASE ProcessOthers(q)
  BY <1>3 DEF ProcessOthers, Shape, makerVars, linkVars, Peers
<1>4. CASE Break(q)
  BY <1>4, Disconnected DEF Break, makerVars, peerVars
<1>5. CASE Restart(q)
  BY <1>5, Disconnected DEF Restart, Shape, makerVars
<1> QED
  BY <1>1, <1>2, <1>3, <1>4, <1>5 DEF PeerStep

LEMMA AlwaysDelivery == Spec => []Delivery
<1>1. Delivery /\ [Next]_vars => Delivery'
  <2> SUFFICES ASSUME Delivery, [Next]_vars, NEW p \in Peers
               PROVE  InStep(p)' /\ Honest(p)'
    BY ShapeStep, CountedStep DEF Delivery
  <2>1. Shape /\ InStep(p) /\ Honest(p)
    BY DEF Delivery
  <2>2. CASE Seal \/ ReachQuorum \/ UNCHANGED vars
    BY <2>1, <2>2, Elsewhere DEF Seal, ReachQuorum, vars, makerVars, linkVars, peerVars
  <2>3. CASE ProcessOwn
    <3>1. store'[p] = store[p]
      BY <2>1, <2>3, BatchesAssumption DEF ProcessOwn, Shape, Peers
    <3> QED
      BY <2>1, <2>3, <3>1, Elsewhere DEF ProcessOwn, linkVars
  <2>4. ASSUME NEW q \in Peers, PeerStep(q), q # p PROVE InStep(p)' /\ Honest(p)'
    BY <2>1, <2>4, OtherPeer, Elsewhere
  <2>5. CASE Connect(p)
    BY <2>1, <2>5, Elsewhere DEF Connect, makerVars, peerVars
  <2>6. CASE PeerStep(p)
    BY <2>1, <2>5, <2>6, DeliverySend, DeliveryAck, DeliveryReceive, DeliveryReceiveStale,
       DeliveryProcess, DeliveryRestart, DeliveryBreak DEF PeerStep
  <2> QED
    BY <2>2, <2>3, <2>4, <2>6 DEF Next
<1> QED
  BY <1>1, DeliveryAtFirst, PTL DEF Spec

\* The workers that received a batch that left the QuorumWaiter are, with its
\* author, a quorum (QuorumWaiter::run, Connection::keep_alive).
THEOREM AcknowledgedIsReceived == Spec => []QuorumReceived
<1>1. Delivery => QuorumReceived
  <2> SUFFICES ASSUME Delivery, NEW b \in 1 .. reached
               PROVE  IsQuorum({Author} \cup {p \in Peers : b \in Received(p)})
    BY DEF QuorumReceived
  <2> DEFINE T == {Author} \cup {p \in Peers : b \in Received(p)}
             Q == {Author} \cup acked[b]
  <2>1. b \in Batch /\ acked[b] \subseteq Peers
    BY BatchesAssumption DEF Delivery, Shape, Batch
  <2>2. Q \subseteq T /\ T \subseteq Authorities
    BY <2>1, BatchesAssumption DEF Delivery, Honest, Peers
  <2>3. IsQuorum(Q)
    BY DEF Delivery, Counted
  <2> HIDE DEF T, Q
  <2>4. IsQuorum(T)
    <3>1. StakeOf(Q) <= StakeOf(T)
      BY <2>2, StakeMonotone
    <3>2. StakeOf(Q) \in Nat /\ StakeOf(T) \in Nat /\ TotalStake \in Nat
      BY <2>2, UnitsFinite DEF TotalStake
    <3> QED
      BY <2>3, <3>1, <3>2 DEF IsQuorum, QuorumThreshold
  <2> QED
    BY <2>4 DEF T
<1> QED
  BY <1>1, AlwaysDelivery, PTL

----------------------------------------------------------------------------
(* Type correctness *)

SealerTyped ==
  /\ sealed \in 0 .. NumBatches
  /\ reached \in 0 .. sealed
  /\ processed \in 0 .. reached
  /\ acked \in [Batch -> SUBSET Peers]
  /\ breaks \in 0 .. MaxBreaks

LinkTyped(S) ==
  /\ up \subseteq Peers
  /\ buffer \in [Peers -> Seq(S)] /\ pending \in [Peers -> Seq(S)]
  /\ wire \in [Peers -> Seq(S)] /\ acks \in [Peers -> Seq(S)]
  /\ stale \in [Peers -> SUBSET S]

PeerTyped(S) ==
  /\ inbox \in [Peers -> Seq(S)]
  /\ store \in [Authorities -> SUBSET S]
  /\ crashed \in [Peers -> [yes : BOOLEAN, batches : SUBSET S]]

Typed == SealerTyped /\ LinkTyped(1 .. sealed) /\ PeerTyped(1 .. sealed)

LEMMA TypedIsTypeOK == Typed <=> TypeOK
  BY DEF Typed, SealerTyped, LinkTyped, PeerTyped, TypeOK

LEMMA RangeTyped ==
  ASSUME NEW S, NEW s \in Seq(S)
  PROVE  Range(s) \subseteq S
  BY DEF Range

\* What retain leaves are messages of the buffer, and it leaves each open one.
LEMMA OpenOfSteps ==
  ASSUME NEW S, NEW s \in Seq(S)
  PROVE  /\ OpenOf(s) \in [0 .. Len(s) -> Seq(S)]
         /\ OpenOf(s)[0] = <<>>
         /\ \A i \in 1 .. Len(s) :
              OpenOf(s)[i] = IF IsClosed(s[i]) THEN OpenOf(s)[i - 1]
                             ELSE Append(OpenOf(s)[i - 1], s[i])
<1> DEFINE V == Seq(S)
           n == Len(s)
           After(i, t) == IF IsClosed(s[i]) THEN t ELSE Append(t, s[i])
           step == [x \in (1 .. n) \X V |-> After(x[1], x[2])]
           Is(f) == f = [i \in 0 .. n |-> IF i = 0 THEN <<>> ELSE After(i, f[i - 1])]
<1>1. n \in Nat /\ \A i \in 1 .. n, t \in V : After(i, t) \in V
  <2>1. \A i \in 1 .. n : s[i] \in S
    OBVIOUS
  <2>2. \A t \in Seq(S) : \A x \in S : Append(t, x) \in Seq(S)
    OBVIOUS
  <2> QED
    BY <2>1, <2>2
<1>2. OpenOf(s) = CHOOSE f : Is(f)
  BY DEF OpenOf
<1>3. PICK e : e = <<>> /\ e \in V
  <2>1. <<>> \in Seq(S)
    OBVIOUS
  <2> QED
    BY <2>1
<1> HIDE DEF V, n, After
<1>4. IsStepOn(step, n, V)
  BY <1>1 DEF IsStepOn
<1>5. PICK f : Iterates(f, e, step, n, V)
  <2> HIDE DEF step
  <2> QED
    BY <1>1, <1>3, <1>4, UpwardRecursion
<1>6. ASSUME NEW i \in 1 .. n PROVE f[i] = After(i, f[i - 1])
  <2>1. i - 1 \in 0 .. n
    BY <1>1
  <2> QED
    BY <1>5, <2>1 DEF Iterates
<1>7. Is(f)
  <2>1. ASSUME NEW i \in 0 .. n PROVE f[i] = IF i = 0 THEN <<>> ELSE After(i, f[i - 1])
    <3>1. i = 0 \/ i \in 1 .. n
      BY <1>1
    <3> QED
      BY <1>3, <1>5, <1>6, <3>1 DEF Iterates
  <2> QED
    BY <1>5, <2>1 DEF Iterates
<1>8. PICK g : g = OpenOf(s) /\ Is(g)
  <2> HIDE DEF Is
  <2> QED
    BY <1>2, <1>7
<1>9. g[0] = <<>> /\ \A i \in 1 .. n : g[i] = After(i, g[i - 1])
  BY <1>1, <1>8
<1>10. \A i \in 0 .. n : g[i] \in V
  <2> DEFINE Good == {k \in Nat : k <= n => g[k] \in V}
  <2>1. 0 \in Good
    BY <1>3, <1>9
  <2>2. ASSUME NEW k \in Nat, k \in Good, k + 1 <= n PROVE g[k + 1] \in V
    <3>1. k + 1 \in 1 .. n /\ k + 1 - 1 = k /\ g[k] \in V
      BY <1>1, <2>2
    <3> QED
      BY <1>1, <1>9, <3>1
  <2>3. Nat \subseteq Good
    <3>1. \A k \in Nat : k \in Good => k + 1 \in Good
      BY <2>2
    <3> HIDE DEF Good
    <3> QED
      BY <2>1, <3>1, InductionOnNat
  <2> QED
    BY <1>1, <2>3
<1>11. g \in [0 .. n -> V]
  BY <1>8, <1>10
<1> QED
  BY <1>8, <1>9, <1>11 DEF V, n, After

LEMMA EnqueuedTyped ==
  ASSUME NEW p \in Peers, NEW S, buffer[p] \in Seq(S), NEW b \in S
  PROVE  Enqueued(p, b) \in Seq(S)
<1> DEFINE s == Append(buffer[p], b)
<1>1. s \in Seq(S) /\ Len(s) = Len(buffer[p]) + 1 /\ Len(s) \in Nat
  OBVIOUS
<1> HIDE DEF s
<1>2. OpenOf(s)[Len(s)] \in Seq(S)
  BY <1>1, OpenOfSteps
<1> QED
  BY <1>1, <1>2 DEF Enqueued, s

LEMMA SealTyped == Typed /\ Seal => Typed'
<1> SUFFICES ASSUME Typed, Seal PROVE Typed'
  OBVIOUS
<1>0. PICK S, T : S = 1 .. sealed /\ T = 1 .. sealed + 1
  OBVIOUS
<1>1. /\ sealed' = sealed + 1 /\ sealed \in Nat /\ sealed < NumBatches
      /\ buffer' = [p \in Peers |-> Enqueued(p, sealed + 1)]
      /\ UNCHANGED <<acked, reached, processed, up, pending, wire, acks, stale, breaks,
                     inbox, store, crashed>>
      /\ S \subseteq T /\ sealed + 1 \in T
  BY <1>0 DEF Seal, Typed, SealerTyped, peerVars
<1>2. SealerTyped /\ LinkTyped(S) /\ PeerTyped(S)
  BY <1>0 DEF Typed
<1>3. SealerTyped'
  BY <1>1, <1>2, BatchesAssumption DEF SealerTyped
<1>4. Seq(S) \subseteq Seq(T) /\ SUBSET S \subseteq SUBSET T
  BY <1>1
<1>5. buffer' \in [Peers -> Seq(T)]
  <2>1. \A p \in Peers : buffer[p] \in Seq(T)
    BY <1>2, <1>4 DEF LinkTyped
  <2> QED
    BY <1>1, <2>1, EnqueuedTyped
<1>6. LinkTyped(T)'
  BY <1>1, <1>2, <1>4, <1>5 DEF LinkTyped
<1>7. PeerTyped(T)'
  <2>1. inbox \in [Peers -> Seq(T)] /\ store \in [Authorities -> SUBSET T]
    BY <1>2, <1>4 DEF PeerTyped
  <2>2. crashed \in [Peers -> [yes : BOOLEAN, batches : SUBSET T]]
    BY <1>2, <1>4 DEF PeerTyped
  <2> QED
    BY <1>1, <2>1, <2>2 DEF PeerTyped
<1>8. T = (1 .. sealed)'
  BY <1>0, <1>1
<1> QED
  BY <1>3, <1>6, <1>7, <1>8 DEF Typed, LinkTyped, PeerTyped

LEMMA DisconnectTyped ==
  ASSUME NEW p \in Peers, NEW S, LinkTyped(S), Disconnect(p)
  PROVE  /\ up' \subseteq Peers
         /\ buffer' \in [Peers -> Seq(S)] /\ pending' \in [Peers -> Seq(S)]
         /\ wire' \in [Peers -> Seq(S)] /\ acks' \in [Peers -> Seq(S)]
<1>1. pending[p] \o buffer[p] \in Seq(S) /\ <<>> \in Seq(S)
  BY DEF LinkTyped
<1> QED
  BY <1>1 DEF LinkTyped, Disconnect

LEMMA PeerStepTyped ==
  ASSUME Typed, Delivery, NEW p \in Peers, PeerStep(p)
  PROVE  Typed'
<1>0. PICK S : S = 1 .. sealed
  OBVIOUS
<1>1. SealerTyped /\ LinkTyped(S) /\ PeerTyped(S) /\ p \in Authorities
  BY <1>0 DEF Typed, Peers
<1>2. UNCHANGED <<sealed, reached, processed>> /\ S = (1 .. sealed)'
  BY <1>0 DEF PeerStep, Connect, Send, ReceiveAck, Break, Receive, ReceiveStale, ProcessOthers,
     Restart, makerVars
<1>3. SUFFICES SealerTyped' /\ LinkTyped(S)' /\ PeerTyped(S)'
  BY <1>2 DEF Typed, LinkTyped, PeerTyped
<1>4. S \subseteq Batch
  BY <1>0, <1>1, BatchesAssumption DEF SealerTyped, Batch
<1>5. CASE Connect(p)
  BY <1>1, <1>5 DEF Connect, SealerTyped, LinkTyped, PeerTyped, makerVars, peerVars
<1>6. CASE Send(p)
  <2>1. PICK e : e = Head(buffer[p])
    OBVIOUS
  <2>2. buffer[p] \in Seq(S) /\ buffer[p] # <<>> /\ pending[p] \in Seq(S) /\ wire[p] \in Seq(S)
    BY <1>1, <1>6 DEF LinkTyped, Send
  <2>3. /\ Tail(buffer[p]) \in Seq(S) /\ Append(pending[p], e) \in Seq(S)
        /\ Append(wire[p], e) \in Seq(S)
    BY <2>1, <2>2
  <2>4. /\ buffer' = [buffer EXCEPT ![p] = Tail(buffer[p])]
        /\ pending' = pending \/ pending' = [pending EXCEPT ![p] = Append(pending[p], e)]
        /\ wire' = wire \/ wire' = [wire EXCEPT ![p] = Append(wire[p], e)]
        /\ UNCHANGED <<makerVars, up, acks, stale, breaks, peerVars>>
    BY <1>6, <2>1 DEF Send
  <2>5. LinkTyped(S)'
    BY <1>1, <2>3, <2>4 DEF LinkTyped
  <2> QED
    BY <1>1, <2>4, <2>5 DEF SealerTyped, PeerTyped, makerVars, peerVars
<1>7. CASE ReceiveAck(p)
  <2>1. PICK e : e = Head(pending[p])
    OBVIOUS
  <2>2. acks[p] \in Seq(S) /\ pending[p] \in Seq(S) /\ wire[p] \in Seq(S) /\ acks[p] # <<>>
    BY <1>1, <1>7 DEF LinkTyped, ReceiveAck
  <2>3. pending[p] # <<>>
    <3>1. pending[p] = acks[p] \o wire[p]
      BY DEF Delivery, InStep
    <3>2. \A s, t \in Seq(S) : s # <<>> => s \o t # <<>>
      OBVIOUS
    <3> QED
      BY <2>2, <3>1, <3>2
  <2>4. e \in Batch /\ Tail(acks[p]) \in Seq(S) /\ Tail(pending[p]) \in Seq(S)
    BY <1>4, <2>1, <2>2, <2>3
  <2>5. /\ acks' = [acks EXCEPT ![p] = Tail(acks[p])]
        /\ pending' = [pending EXCEPT ![p] = Tail(pending[p])]
        /\ acked' = acked \/ acked' = [acked EXCEPT ![e] = acked[e] \cup {p}]
        /\ UNCHANGED <<up, buffer, wire, stale, breaks, inbox, store, crashed>>
    BY <1>7, <2>1 DEF ReceiveAck, peerVars
  <2>6. LinkTyped(S)'
    BY <1>1, <2>4, <2>5 DEF LinkTyped
  <2>7. SealerTyped'
    BY <1>1, <1>2, <2>4, <2>5 DEF SealerTyped
  <2> QED
    BY <1>1, <2>5, <2>6, <2>7 DEF PeerTyped
<1>8. CASE Break(p)
  <2>1. stale' \in [Peers -> SUBSET S]
    <3>1. Range(wire[p]) \subseteq S
      BY <1>1, RangeTyped DEF LinkTyped
    <3> QED
      BY <1>1, <1>8, <3>1 DEF Break, LinkTyped
  <2>2. LinkTyped(S)'
    BY <1>1, <1>8, <2>1, DisconnectTyped DEF Break, LinkTyped
  <2>3. SealerTyped'
    BY <1>1, <1>8, BatchesAssumption DEF Break, SealerTyped, makerVars
  <2> QED
    BY <1>1, <1>8, <2>2, <2>3 DEF Break, PeerTyped, peerVars
<1>9. CASE Receive(p)
  <2>1. PICK e : e = Head(wire[p])
    OBVIOUS
  <2>2. wire[p] \in Seq(S) /\ acks[p] \in Seq(S) /\ inbox[p] \in Seq(S) /\ wire[p] # <<>>
    BY <1>1, <1>9 DEF LinkTyped, PeerTyped, Receive
  <2>3. Tail(wire[p]) \in Seq(S) /\ Append(acks[p], e) \in Seq(S) /\ Append(inbox[p], e) \in Seq(S)
    BY <2>1, <2>2
  <2>4. /\ wire' = [wire EXCEPT ![p] = Tail(wire[p])]
        /\ acks' = [acks EXCEPT ![p] = Append(acks[p], e)]
        /\ inbox' = [inbox EXCEPT ![p] = Append(inbox[p], e)]
        /\ UNCHANGED <<makerVars, up, buffer, pending, stale, breaks, store, crashed>>
    BY <1>9, <2>1 DEF Receive
  <2>5. LinkTyped(S)' /\ PeerTyped(S)'
    BY <1>1, <2>3, <2>4 DEF LinkTyped, PeerTyped
  <2> QED
    BY <1>1, <2>4, <2>5 DEF SealerTyped, makerVars
<1>10. CASE ReceiveStale(p)
  <2>1. PICK b \in stale[p] :
          /\ stale' = [stale EXCEPT ![p] = stale[p] \ {b}]
          /\ inbox' = [inbox EXCEPT ![p] = Append(inbox[p], b)]
          /\ UNCHANGED <<makerVars, up, buffer, pending, wire, acks, breaks, store, crashed>>
    BY <1>10 DEF ReceiveStale
  <2>2. b \in S /\ Append(inbox[p], b) \in Seq(S)
    BY <1>1 DEF LinkTyped, PeerTyped
  <2>3. LinkTyped(S)' /\ PeerTyped(S)'
    BY <1>1, <2>1, <2>2 DEF LinkTyped, PeerTyped
  <2> QED
    BY <1>1, <2>1, <2>3 DEF SealerTyped, makerVars
<1>11. CASE ProcessOthers(p)
  <2>1. inbox[p] \in Seq(S) /\ inbox[p] # <<>>
    BY <1>1, <1>11 DEF PeerTyped, ProcessOthers
  <2>2. Tail(inbox[p]) \in Seq(S) /\ Head(inbox[p]) \in S
    BY <2>1
  <2>3. PeerTyped(S)'
    BY <1>1, <1>11, <2>2 DEF ProcessOthers, PeerTyped
  <2> QED
    BY <1>1, <1>11, <2>3 DEF ProcessOthers, SealerTyped, LinkTyped, makerVars, linkVars
<1>12. CASE Restart(p)
  <2>1. LinkTyped(S)'
    BY <1>1, <1>12, DisconnectTyped DEF Restart, LinkTyped
  <2>2. PeerTyped(S)'
    <3>1. Range(inbox[p]) \subseteq S /\ <<>> \in Seq(S)
      BY <1>1, RangeTyped DEF PeerTyped
    <3> QED
      BY <1>1, <1>12, <3>1 DEF Restart, PeerTyped
  <2> QED
    BY <1>1, <1>12, <2>1, <2>2 DEF Restart, SealerTyped, makerVars
<1> QED
  BY <1>5, <1>6, <1>7, <1>8, <1>9, <1>10, <1>11, <1>12 DEF PeerStep

\* The types of the state; the batches are counted in the order they are sealed,
\* leave the QuorumWaiter and are stored by their author (BatchMaker, QuorumWaiter,
\* Processor), and no batch is anywhere before it is sealed.
THEOREM TypeCorrect == Spec => []TypeOK
<1>1. Init => Typed
  <2> SUFFICES ASSUME Init PROVE Typed
    OBVIOUS
  <2>1. <<>> \in Seq(1 .. sealed)
    OBVIOUS
  <2> QED
    BY <2>1, BatchesAssumption DEF Init, Typed, SealerTyped, LinkTyped, PeerTyped
<1>2. Typed /\ Delivery /\ [Next]_vars => Typed'
  <2> SUFFICES ASSUME Typed, Delivery, [Next]_vars PROVE Typed'
    OBVIOUS
  <2>1. CASE ReachQuorum
    BY <2>1, BatchesAssumption DEF ReachQuorum, Typed, SealerTyped, LinkTyped, PeerTyped, linkVars, peerVars
  <2>2. CASE ProcessOwn
    <3>1. store' \in [Authorities -> SUBSET (1 .. sealed)]
      <4>1. processed + 1 \in 1 .. sealed
        BY <2>2 DEF ProcessOwn, Typed, SealerTyped
      <4> QED
        BY <2>2, <4>1 DEF ProcessOwn, Typed, PeerTyped
    <3>2. SealerTyped'
      BY <2>2 DEF ProcessOwn, Typed, SealerTyped, linkVars
    <3> QED
      BY <2>2, <3>1, <3>2 DEF ProcessOwn, Typed, LinkTyped, PeerTyped, linkVars
  <2>3. CASE UNCHANGED vars
    BY <2>3 DEF Typed, SealerTyped, LinkTyped, PeerTyped, vars, makerVars, linkVars, peerVars
  <2> QED
    BY <2>1, <2>2, <2>3, SealTyped, PeerStepTyped DEF Next
<1> QED
  BY <1>1, <1>2, AlwaysDelivery, TypedIsTypeOK, PTL DEF Spec

----------------------------------------------------------------------------
(* Where a message is *)

\* How often a message is in a queue: not at all, or at one place.
Absent(s, b) == \A i \in 1 .. Len(s) : s[i] # b
Once(s, b) == \E i \in 1 .. Len(s) : \A j \in 1 .. Len(s) : s[j] = b <=> j = i

LEMMA PlacesAppend ==
  ASSUME NEW S, NEW s \in Seq(S), NEW e \in S, NEW b
  PROVE  /\ e # b /\ Absent(s, b) => Absent(Append(s, e), b)
         /\ e # b /\ Once(s, b) => Once(Append(s, e), b)
         /\ e = b /\ Absent(s, b) => Once(Append(s, e), b)
<1> DEFINE t == Append(s, e)
<1>1. /\ Len(t) = Len(s) + 1 /\ Len(s) \in Nat /\ t[Len(s) + 1] = e
      /\ \A i \in 1 .. Len(s) : t[i] = s[i]
  OBVIOUS
<1> HIDE DEF t
<1>2. ASSUME NEW i \in 1 .. Len(t) PROVE i = Len(s) + 1 \/ i \in 1 .. Len(s)
  BY <1>1
<1>3. ASSUME e # b, Absent(s, b) PROVE Absent(t, b)
  BY <1>1, <1>2, <1>3 DEF Absent
<1>4. ASSUME e # b, Once(s, b) PROVE Once(t, b)
  <2>1. PICK i \in 1 .. Len(s) : \A j \in 1 .. Len(s) : s[j] = b <=> j = i
    BY <1>4 DEF Once
  <2>2. i \in 1 .. Len(t)
    BY <1>1
  <2>3. ASSUME NEW j \in 1 .. Len(t) PROVE t[j] = b <=> j = i
    BY <1>1, <1>2, <1>4, <2>1, <2>3
  <2> QED
    BY <2>2, <2>3 DEF Once
<1>5. ASSUME e = b, Absent(s, b) PROVE Once(t, b)
  <2>1. Len(s) + 1 \in 1 .. Len(t)
    BY <1>1
  <2>2. ASSUME NEW j \in 1 .. Len(t) PROVE t[j] = b <=> j = Len(s) + 1
    BY <1>1, <1>2, <1>5, <2>2 DEF Absent
  <2> QED
    BY <2>1, <2>2 DEF Once
<1> QED
  BY <1>3, <1>4, <1>5 DEF t

LEMMA PlacesTail ==
  ASSUME NEW S, NEW s \in Seq(S), s # <<>>, NEW b
  PROVE  /\ Absent(s, b) => Absent(Tail(s), b)
         /\ Once(s, b) => IF Head(s) = b THEN Absent(Tail(s), b) ELSE Once(Tail(s), b)
<1> DEFINE t == Tail(s)
<1>1. /\ Len(t) = Len(s) - 1 /\ Len(s) \in Nat \ {0} /\ Head(s) = s[1]
      /\ \A i \in 1 .. Len(s) - 1 : t[i] = s[i + 1]
  OBVIOUS
<1> HIDE DEF t
<1>2. ASSUME Absent(s, b) PROVE Absent(t, b)
  <2>1. \A i \in 1 .. Len(t) : i + 1 \in 1 .. Len(s) /\ t[i] = s[i + 1]
    BY <1>1
  <2> QED
    BY <1>2, <2>1 DEF Absent
<1>3. ASSUME Once(s, b) PROVE IF s[1] = b THEN Absent(t, b) ELSE Once(t, b)
  <2>1. PICK i \in 1 .. Len(s) : \A j \in 1 .. Len(s) : s[j] = b <=> j = i
    BY <1>3 DEF Once
  <2>2. ASSUME NEW j \in 1 .. Len(t) PROVE t[j] = b <=> j + 1 = i
    <3>1. j + 1 \in 1 .. Len(s) /\ t[j] = s[j + 1]
      BY <1>1
    <3> QED
      BY <2>1, <3>1
  <2>3. CASE i = 1
    <3>1. s[1] = b
      BY <1>1, <2>1, <2>3
    <3>2. Absent(t, b)
      BY <1>1, <2>2, <2>3 DEF Absent
    <3> QED
      BY <3>1, <3>2
  <2>4. CASE i # 1
    <3>1. s[1] # b
      BY <1>1, <2>1, <2>4
    <3>2. i - 1 \in 1 .. Len(t)
      BY <1>1, <2>4
    <3>3. \A j \in 1 .. Len(t) : t[j] = b <=> j = i - 1
      BY <1>1, <2>2
    <3> QED
      BY <3>1, <3>2, <3>3 DEF Once
  <2> QED
    BY <2>3, <2>4
<1> QED
  BY <1>1, <1>2, <1>3 DEF t

LEMMA PlacesConcat ==
  ASSUME NEW S, NEW s \in Seq(S), NEW t \in Seq(S), NEW b
  PROVE  /\ Absent(s, b) /\ Absent(t, b) => Absent(s \o t, b)
         /\ Absent(s, b) /\ Once(t, b) => Once(s \o t, b)
         /\ Once(s, b) /\ Absent(t, b) => Once(s \o t, b)
<1> DEFINE u == s \o t
<1>1. /\ Len(u) = Len(s) + Len(t) /\ Len(s) \in Nat /\ Len(t) \in Nat
      /\ \A i \in 1 .. Len(s) : u[i] = s[i]
      /\ \A i \in 1 .. Len(u) : i > Len(s) => u[i] = t[i - Len(s)]
  OBVIOUS
<1> HIDE DEF u
<1>2. ASSUME NEW i \in 1 .. Len(u)
      PROVE  \/ i \in 1 .. Len(s) /\ u[i] = s[i]
             \/ i > Len(s) /\ i - Len(s) \in 1 .. Len(t) /\ u[i] = t[i - Len(s)]
  BY <1>1
<1>3. ASSUME Absent(s, b), Absent(t, b) PROVE Absent(u, b)
  BY <1>2, <1>3 DEF Absent
<1>4. ASSUME Absent(s, b), Once(t, b) PROVE Once(u, b)
  <2>1. PICK i \in 1 .. Len(t) : \A j \in 1 .. Len(t) : t[j] = b <=> j = i
    BY <1>4 DEF Once
  <2>2. i + Len(s) \in 1 .. Len(u)
    BY <1>1
  <2>3. ASSUME NEW j \in 1 .. Len(u) PROVE u[j] = b <=> j = i + Len(s)
    <3>1. CASE j \in 1 .. Len(s) /\ u[j] = s[j]
      BY <1>1, <1>4, <3>1 DEF Absent
    <3>2. CASE j > Len(s) /\ j - Len(s) \in 1 .. Len(t) /\ u[j] = t[j - Len(s)]
      <4>1. t[j - Len(s)] = b <=> j - Len(s) = i
        BY <2>1, <3>2
      <4> QED
        BY <1>1, <3>2, <4>1
    <3> QED
      BY <1>2, <3>1, <3>2
  <2> QED
    BY <2>2, <2>3 DEF Once
<1>5. ASSUME Once(s, b), Absent(t, b) PROVE Once(u, b)
  <2>1. PICK i \in 1 .. Len(s) : \A j \in 1 .. Len(s) : s[j] = b <=> j = i
    BY <1>5 DEF Once
  <2>2. i \in 1 .. Len(u)
    BY <1>1
  <2>3. ASSUME NEW j \in 1 .. Len(u) PROVE u[j] = b <=> j = i
    <3>1. CASE j \in 1 .. Len(s) /\ u[j] = s[j]
      BY <2>1, <3>1
    <3>2. CASE j > Len(s) /\ j - Len(s) \in 1 .. Len(t) /\ u[j] = t[j - Len(s)]
      <4>1. u[j] # b
        BY <1>5, <3>2 DEF Absent
      <4> QED
        BY <1>1, <3>2, <4>1
    <3> QED
      BY <1>2, <3>1, <3>2
  <2> QED
    BY <2>2, <2>3 DEF Once
<1> QED
  BY <1>3, <1>4, <1>5 DEF u

\* retain leaves a message whose handler waits as often as it is there.
LEMMA PlacesOpen ==
  ASSUME NEW S, NEW s \in Seq(S), NEW b, ~IsClosed(b)
  PROVE  /\ Absent(s, b) => Absent(OpenOf(s)[Len(s)], b)
         /\ Once(s, b) => Once(OpenOf(s)[Len(s)], b)
<1> DEFINE AbsentTo(k) == \A i \in 1 .. k : s[i] # b
           OnceTo(k) == \E i \in 1 .. k : \A j \in 1 .. k : s[j] = b <=> j = i
           Good == {k \in Nat : k <= Len(s) =>
                      /\ AbsentTo(k) => Absent(OpenOf(s)[k], b)
                      /\ OnceTo(k) => Once(OpenOf(s)[k], b)}
<1>1. PICK g : g = OpenOf(s)
  OBVIOUS
<1>2. /\ g \in [0 .. Len(s) -> Seq(S)]
      /\ g[0] = <<>>
      /\ \A i \in 1 .. Len(s) : g[i] = IF IsClosed(s[i]) THEN g[i - 1] ELSE Append(g[i - 1], s[i])
      /\ Len(s) \in Nat /\ \A i \in 1 .. Len(s) : s[i] \in S
  BY <1>1, OpenOfSteps
<1>3. 0 \in Good
  <2>1. Absent(g[0], b)
    BY <1>2 DEF Absent
  <2>2. ~OnceTo(0)
    OBVIOUS
  <2> QED
    BY <1>1, <2>1, <2>2
<1>4. ASSUME NEW k \in Nat, k + 1 <= Len(s),
             AbsentTo(k) => Absent(g[k], b), OnceTo(k) => Once(g[k], b)
      PROVE  /\ AbsentTo(k + 1) => Absent(g[k + 1], b)
             /\ OnceTo(k + 1) => Once(g[k + 1], b)
  <2> DEFINE e == s[k + 1]
  <2>1. /\ k \in 0 .. Len(s) /\ k + 1 \in 1 .. Len(s) /\ k + 1 - 1 = k
        /\ e \in S /\ g[k] \in Seq(S)
        /\ g[k + 1] = IF IsClosed(e) THEN g[k] ELSE Append(g[k], e)
    BY <1>2, <1>4
  <2>2. AbsentTo(k + 1) => e # b /\ AbsentTo(k)
    OBVIOUS
  <2>3. OnceTo(k + 1) => IF e = b THEN AbsentTo(k) ELSE OnceTo(k)
    <3> SUFFICES ASSUME OnceTo(k + 1) PROVE IF e = b THEN AbsentTo(k) ELSE OnceTo(k)
      OBVIOUS
    <3>1. PICK i \in 1 .. k + 1 : \A j \in 1 .. k + 1 : s[j] = b <=> j = i
      OBVIOUS
    <3>2. CASE i = k + 1
      BY <3>1, <3>2
    <3>3. CASE i \in 1 .. k
      <4>1. e # b
        BY <3>1, <3>3
      <4>2. \A j \in 1 .. k : s[j] = b <=> j = i
        BY <3>1
      <4> QED
        BY <3>3, <4>1, <4>2
    <3> QED
      BY <3>2, <3>3
  <2> HIDE DEF e, AbsentTo, OnceTo
  <2>4. CASE IsClosed(e)
    <3>1. e # b
      BY <2>4
    <3> QED
      BY <1>4, <2>1, <2>2, <2>3, <2>4, <3>1
  <2>5. CASE ~IsClosed(e)
    <3>1. g[k + 1] = Append(g[k], e)
      BY <2>1, <2>5
    <3>2. /\ e # b /\ Absent(g[k], b) => Absent(Append(g[k], e), b)
          /\ e # b /\ Once(g[k], b) => Once(Append(g[k], e), b)
          /\ e = b /\ Absent(g[k], b) => Once(Append(g[k], e), b)
      BY <2>1, PlacesAppend
    <3> QED
      BY <1>4, <2>2, <2>3, <3>1, <3>2
  <2> QED
    BY <2>4, <2>5
<1>5. Nat \subseteq Good
  <2>1. \A k \in Nat : k \in Good => k + 1 \in Good
    <3> HIDE DEF AbsentTo, OnceTo
    <3> SUFFICES ASSUME NEW k \in Nat, k \in Good PROVE k + 1 \in Good
      OBVIOUS
    <3>1. ASSUME k + 1 <= Len(s)
          PROVE  /\ AbsentTo(k + 1) => Absent(OpenOf(s)[k + 1], b)
                 /\ OnceTo(k + 1) => Once(OpenOf(s)[k + 1], b)
      <4>1. k <= Len(s)
        BY <1>2, <3>1
      <4>2. (AbsentTo(k) => Absent(g[k], b)) /\ (OnceTo(k) => Once(g[k], b))
        BY <1>1, <4>1
      <4> HIDE DEF Good
      <4> QED
        BY <1>1, <1>4, <3>1, <4>2
    <3>2. k + 1 \in Nat
      OBVIOUS
    <3> QED
      BY <3>1, <3>2
  <2> HIDE DEF Good
  <2> QED
    BY <1>3, <2>1, InductionOnNat
<1>6. (AbsentTo(Len(s)) => Absent(g[Len(s)], b)) /\ (OnceTo(Len(s)) => Once(g[Len(s)], b))
  <2> HIDE DEF AbsentTo, OnceTo
  <2>1. Len(s) \in Good /\ Len(s) <= Len(s)
    BY <1>2, <1>5
  <2> QED
    BY <1>1, <2>1
<1> QED
  BY <1>1, <1>6 DEF Absent, Once

----------------------------------------------------------------------------
(* A message whose handler waits is in exactly one place *)

InOnePlace(p, b) ==
  IF p \in acked[b] THEN Absent(buffer[p], b) /\ Absent(pending[p], b)
  ELSE \/ Once(buffer[p], b) /\ Absent(pending[p], b)
       \/ Absent(buffer[p], b) /\ Once(pending[p], b)

Kept ==
  /\ \A p \in Peers : \A b \in reached + 1 .. sealed : InOnePlace(p, b)
  /\ \A b \in Batch : b > sealed => acked[b] = {}

\* A batch that is not sealed is in no queue.
LEMMA NotYetSealed ==
  ASSUME NEW n \in Nat, NEW s \in Seq(1 .. n)
  PROVE  Absent(s, n + 1)
  BY DEF Absent

LEMMA EnqueuedPlaces ==
  ASSUME NEW p \in Peers, NEW S, buffer[p] \in Seq(S), NEW e \in S, NEW b, ~IsClosed(b)
  PROVE  /\ e # b /\ Absent(buffer[p], b) => Absent(Enqueued(p, e), b)
         /\ e # b /\ Once(buffer[p], b) => Once(Enqueued(p, e), b)
         /\ e = b /\ Absent(buffer[p], b) => Once(Enqueued(p, e), b)
<1> DEFINE s == Append(buffer[p], e)
<1>1. s \in Seq(S) /\ Len(s) = Len(buffer[p]) + 1
  OBVIOUS
<1>2. /\ e # b /\ Absent(buffer[p], b) => Absent(s, b)
      /\ e # b /\ Once(buffer[p], b) => Once(s, b)
      /\ e = b /\ Absent(buffer[p], b) => Once(s, b)
  BY PlacesAppend
<1> HIDE DEF s
<1>3. /\ Absent(s, b) => Absent(OpenOf(s)[Len(s)], b)
      /\ Once(s, b) => Once(OpenOf(s)[Len(s)], b)
  BY <1>1, PlacesOpen
<1>4. Enqueued(p, e) = s \/ Enqueued(p, e) = OpenOf(s)[Len(s)]
  BY <1>1 DEF Enqueued, s
<1> QED
  BY <1>2, <1>3, <1>4

LEMMA KeptSeal == Typed /\ Kept /\ Seal => Kept'
<1> SUFFICES ASSUME Typed, Kept, Seal PROVE Kept'
  OBVIOUS
<1>1. /\ sealed' = sealed + 1 /\ sealed \in Nat /\ reached \in Nat /\ reached <= sealed
      /\ sealed + 1 \in Batch
      /\ buffer' = [p \in Peers |-> Enqueued(p, sealed + 1)]
      /\ pending' = pending /\ acked' = acked /\ reached' = reached
  BY BatchesAssumption DEF Seal, Typed, SealerTyped, Batch
<1>2. \A b \in Batch : b > sealed' => acked'[b] = {}
  BY <1>1 DEF Kept, Batch
<1>3. ASSUME NEW p \in Peers, NEW b \in reached + 1 .. sealed + 1 PROVE InOnePlace(p, b)'
  <2>1. PICK S : S = 1 .. sealed + 1
    OBVIOUS
  <2>2. /\ buffer[p] \in Seq(1 .. sealed) /\ pending[p] \in Seq(1 .. sealed)
        /\ buffer[p] \in Seq(S) /\ sealed + 1 \in S
    BY <1>1, <2>1 DEF Typed, LinkTyped
  <2>3. ~IsClosed(b)
    BY <1>1 DEF IsClosed
  <2>4. /\ sealed + 1 # b /\ Absent(buffer[p], b) => Absent(Enqueued(p, sealed + 1), b)
        /\ sealed + 1 # b /\ Once(buffer[p], b) => Once(Enqueued(p, sealed + 1), b)
        /\ sealed + 1 = b /\ Absent(buffer[p], b) => Once(Enqueued(p, sealed + 1), b)
    BY <2>2, <2>3, EnqueuedPlaces
  <2>5. buffer'[p] = Enqueued(p, sealed + 1)
    BY <1>1
  <2>6. CASE b = sealed + 1
    <3>1. Absent(buffer[p], b) /\ Absent(pending[p], b) /\ acked[b] = {}
      BY <1>1, <2>2, <2>6, NotYetSealed DEF Kept
    <3> QED
      BY <1>1, <2>4, <2>5, <2>6, <3>1 DEF InOnePlace
  <2>7. CASE b # sealed + 1
    <3>1. InOnePlace(p, b)
      BY <1>1, <2>7 DEF Kept
    <3> QED
      BY <1>1, <2>4, <2>5, <2>7, <3>1 DEF InOnePlace
  <2> QED
    BY <2>6, <2>7
<1> QED
  BY <1>1, <1>2, <1>3 DEF Kept

LEMMA HeadIn ==
  ASSUME NEW S, NEW s \in Seq(S), s # <<>>
  PROVE  Head(s) \in S
  OBVIOUS

LEMMA KeptSend ==
  ASSUME Typed, NEW p \in Peers, Send(p), NEW b, ~IsClosed(b), InOnePlace(p, b)
  PROVE  InOnePlace(p, b)'
<1>1. PICK S, e : S = 1 .. sealed /\ e = Head(buffer[p])
  OBVIOUS
<1>2. buffer[p] \in Seq(S) /\ pending[p] \in Seq(S) /\ buffer[p] # <<>> /\ e \in S
  <2>1. buffer[p] \in Seq(S) /\ pending[p] \in Seq(S) /\ buffer[p] # <<>>
    BY <1>1 DEF Typed, LinkTyped, Send
  <2> QED
    BY <1>1, <2>1, HeadIn
<1>3. /\ buffer'[p] = Tail(buffer[p]) /\ acked' = acked
      /\ pending'[p] = IF IsClosed(e) THEN pending[p] ELSE Append(pending[p], e)
  BY <1>1 DEF Send, Typed, LinkTyped, makerVars
<1>4. /\ Absent(buffer[p], b) => Absent(Tail(buffer[p]), b)
      /\ Once(buffer[p], b) => IF e = b THEN Absent(Tail(buffer[p]), b)
                               ELSE Once(Tail(buffer[p]), b)
  BY <1>1, <1>2, PlacesTail
<1>5. /\ e # b /\ Absent(pending[p], b) => Absent(Append(pending[p], e), b)
      /\ e # b /\ Once(pending[p], b) => Once(Append(pending[p], e), b)
      /\ e = b /\ Absent(pending[p], b) => Once(Append(pending[p], e), b)
  BY <1>2, PlacesAppend
<1>6. Absent(buffer[p], b) => e # b
  <2>1. 1 \in 1 .. Len(buffer[p]) /\ buffer[p][1] = e
    BY <1>1, <1>2
  <2> QED
    BY <2>1 DEF Absent
<1>7. IsClosed(e) => e # b
  OBVIOUS
<1> QED
  BY <1>3, <1>4, <1>5, <1>6, <1>7 DEF InOnePlace

\* An answer takes the first of the messages without one, and marks it.
LEMMA KeptAck ==
  ASSUME Typed, NEW p \in Peers, InStep(p), ReceiveAck(p),
         NEW b \in Batch, ~IsClosed(b), InOnePlace(p, b)
  PROVE  InOnePlace(p, b)'
<1>1. PICK S, e : S = 1 .. sealed /\ e = Head(pending[p])
  OBVIOUS
<1>2. pending[p] \in Seq(S) /\ pending[p] # <<>> /\ e \in S
  <2>1. /\ pending[p] = acks[p] \o wire[p] /\ acks[p] # <<>>
        /\ acks[p] \in Seq(S) /\ wire[p] \in Seq(S)
    BY <1>1 DEF InStep, ReceiveAck, Typed, LinkTyped
  <2>2. pending[p] \in Seq(S)
    BY <1>1 DEF Typed, LinkTyped
  <2>3. \A s, t \in Seq(S) : s # <<>> => s \o t # <<>>
    OBVIOUS
  <2>4. pending[p] # <<>>
    BY <2>1, <2>3
  <2> QED
    BY <1>1, <2>2, <2>4, HeadIn
<1>3. /\ buffer' = buffer /\ pending'[p] = Tail(pending[p])
      /\ acked' = IF IsClosed(e) THEN acked ELSE [acked EXCEPT ![e] = acked[e] \cup {p}]
  BY <1>1 DEF ReceiveAck, Typed, LinkTyped
<1>4. acked \in [Batch -> SUBSET Peers] /\ e \in Batch
  BY <1>1, <1>2, BatchesAssumption DEF Typed, SealerTyped, Batch
<1>5. /\ Absent(pending[p], b) => Absent(Tail(pending[p]), b)
      /\ Once(pending[p], b) => IF e = b THEN Absent(Tail(pending[p]), b)
                                ELSE Once(Tail(pending[p]), b)
  BY <1>1, <1>2, PlacesTail
<1>6. Absent(pending[p], b) => e # b
  <2>1. 1 \in 1 .. Len(pending[p]) /\ pending[p][1] = e
    BY <1>1, <1>2
  <2> QED
    BY <2>1 DEF Absent
<1>7. p \in acked'[b] <=> p \in acked[b] \/ (b = e)
  BY <1>3, <1>4
<1> QED
  BY <1>3, <1>5, <1>6, <1>7 DEF InOnePlace

\* What goes back into the buffer is no longer among the pending replies.
LEMMA KeptDisconnect ==
  ASSUME Typed, NEW p \in Peers, Disconnect(p), acked' = acked, NEW b, InOnePlace(p, b)
  PROVE  InOnePlace(p, b)'
<1>1. PICK S : S = 1 .. sealed
  OBVIOUS
<1>2. buffer[p] \in Seq(S) /\ pending[p] \in Seq(S)
  BY <1>1 DEF Typed, LinkTyped
<1>3. buffer'[p] = pending[p] \o buffer[p] /\ pending'[p] = <<>>
  BY DEF Disconnect, Typed, LinkTyped
<1>4. Absent(<<>>, b)
  BY DEF Absent
<1>5. /\ Absent(pending[p], b) /\ Absent(buffer[p], b) => Absent(pending[p] \o buffer[p], b)
      /\ Absent(pending[p], b) /\ Once(buffer[p], b) => Once(pending[p] \o buffer[p], b)
      /\ Once(pending[p], b) /\ Absent(buffer[p], b) => Once(pending[p] \o buffer[p], b)
  BY <1>2, PlacesConcat
<1> QED
  BY <1>3, <1>4, <1>5 DEF InOnePlace

LEMMA KeptPeerStep ==
  ASSUME Typed, Delivery, Kept, NEW p \in Peers, PeerStep(p)
  PROVE  Kept'
<1>1. sealed' = sealed /\ reached' = reached /\ reached \in Nat /\ sealed \in Nat
      /\ acked \in [Batch -> SUBSET Peers]
  BY DEF PeerStep, Connect, Send, ReceiveAck, Break, Receive, ReceiveStale, ProcessOthers,
     Restart, makerVars, Typed, SealerTyped
<1>2. \/ acked' = acked
      \/ /\ ReceiveAck(p)
         /\ \E e \in 1 .. sealed : e \in Batch /\ acked' = [acked EXCEPT ![e] = acked[e] \cup {p}]
  <2>1. CASE ReceiveAck(p)
    <3>1. PICK S, e : S = 1 .. sealed /\ e = Head(pending[p])
      OBVIOUS
    <3>2. /\ pending[p] = acks[p] \o wire[p] /\ acks[p] # <<>>
          /\ acks[p] \in Seq(S) /\ wire[p] \in Seq(S)
      BY <2>1, <3>1 DEF Delivery, InStep, ReceiveAck, Typed, LinkTyped
    <3>3. pending[p] \in Seq(S)
      BY <3>1 DEF Typed, LinkTyped
    <3>4. \A s, t \in Seq(S) : s # <<>> => s \o t # <<>>
      OBVIOUS
    <3>5. pending[p] # <<>>
      BY <3>2, <3>4
    <3>6. e \in S
      BY <3>1, <3>3, <3>5, HeadIn
    <3>7. e \in 1 .. sealed /\ e \in Batch
      BY <1>1, <3>1, <3>6, BatchesAssumption DEF Typed, SealerTyped, Batch
    <3>8. acked' = IF IsClosed(e) THEN acked ELSE [acked EXCEPT ![e] = acked[e] \cup {p}]
      BY <2>1, <3>1 DEF ReceiveAck
    <3> QED
      BY <2>1, <3>7, <3>8
  <2> QED
    BY <2>1 DEF PeerStep, Connect, Send, Break, Receive, ReceiveStale, ProcessOthers,
       Restart, makerVars
<1>3. \A b \in Batch : b > sealed => acked'[b] = {}
  BY <1>1, <1>2 DEF Kept
<1>4. ASSUME NEW b \in reached + 1 .. sealed PROVE InOnePlace(p, b)'
  <2>1. ~IsClosed(b) /\ b \in Batch /\ InOnePlace(p, b) /\ InStep(p)
    BY <1>1, BatchesAssumption DEF IsClosed, Typed, SealerTyped, Batch, Kept, Delivery
  <2>2. CASE Send(p)
    BY <2>1, <2>2, KeptSend
  <2>3. CASE ReceiveAck(p)
    BY <2>1, <2>3, KeptAck
  <2>4. CASE Break(p)
    BY <2>1, <2>4, KeptDisconnect DEF Break, makerVars
  <2>5. CASE Restart(p)
    BY <2>1, <2>5, KeptDisconnect DEF Restart, makerVars
  <2>6. CASE Connect(p) \/ Receive(p) \/ ReceiveStale(p) \/ ProcessOthers(p)
    BY <2>1, <2>6 DEF Connect, Receive, ReceiveStale, ProcessOthers, InOnePlace, makerVars,
       linkVars
  <2> QED
    BY <2>2, <2>3, <2>4, <2>5, <2>6 DEF PeerStep
<1>5. ASSUME NEW q \in Peers, q # p, NEW b \in reached + 1 .. sealed PROVE InOnePlace(q, b)'
  <2>1. buffer'[q] = buffer[q] /\ pending'[q] = pending[q]
    BY <1>5 DEF PeerStep, Connect, Send, ReceiveAck, Break, Receive, ReceiveStale, ProcessOthers,
       Restart, Disconnect, linkVars, Typed, LinkTyped
  <2>2. b \in Batch
    BY <1>1, BatchesAssumption DEF Typed, SealerTyped, Batch
  <2>3. q \in acked'[b] <=> q \in acked[b]
    BY <1>1, <1>2, <1>5, <2>2
  <2>4. InOnePlace(q, b)
    BY DEF Kept
  <2> QED
    BY <2>1, <2>3, <2>4 DEF InOnePlace
<1> QED
  BY <1>1, <1>3, <1>4, <1>5 DEF Kept

\* How often it is in both queues together, as the property counts it.
LEMMA PlacesCounted ==
  ASSUME NEW S, NEW s \in Seq(S), NEW b
  PROVE  /\ Absent(s, b) => Cardinality({i \in DOMAIN s : s[i] = b}) = 0
         /\ Once(s, b) => Cardinality({i \in DOMAIN s : s[i] = b}) = 1
<1> DEFINE at == {i \in DOMAIN s : s[i] = b}
<1>1. DOMAIN s = 1 .. Len(s)
  OBVIOUS
<1>2. Absent(s, b) => at = {}
  BY <1>1 DEF Absent
<1>3. Once(s, b) => \E i : at = {i}
  <2> SUFFICES ASSUME Once(s, b) PROVE \E i : at = {i}
    OBVIOUS
  <2>1. PICK i \in 1 .. Len(s) : \A j \in 1 .. Len(s) : s[j] = b <=> j = i
    BY DEF Once
  <2>2. at = {i}
    BY <1>1, <2>1
  <2> QED
    BY <2>2
<1> HIDE DEF at
<1>4. Cardinality({}) = 0 /\ \A i : Cardinality({i}) = 1
  BY FS_EmptySet, FS_Singleton
<1> QED
  BY <1>2, <1>3, <1>4, Zenon DEF at

\* A message whose handler waits is in exactly one place of its connection, and
\* never again once its acknowledgement came (Connection::keep_alive, which takes
\* it from the buffer, and puts what is without an answer back when the connection
\* breaks): it is neither forgotten nor written twice to one connection.
THEOREM NeitherLostNorDoubled == Spec => []KeptUntilAcked
<1>1. Init => Kept
  BY BatchesAssumption DEF Init, Kept
<1>2. Typed /\ Delivery /\ Kept /\ [Next]_vars => Kept'
  <2> SUFFICES ASSUME Typed, Delivery, Kept, [Next]_vars PROVE Kept'
    OBVIOUS
  <2>1. CASE ReachQuorum
    <3>1. /\ reached' = reached + 1 /\ reached \in Nat /\ sealed \in Nat
          /\ UNCHANGED <<sealed, acked, buffer, pending>>
      BY <2>1 DEF ReachQuorum, linkVars, Typed, SealerTyped
    <3>2. reached + 1 + 1 .. sealed \subseteq reached + 1 .. sealed
      BY <3>1
    <3> QED
      BY <3>1, <3>2 DEF Kept, InOnePlace
  <2>2. CASE ProcessOwn \/ UNCHANGED vars
    BY <2>2 DEF ProcessOwn, vars, makerVars, linkVars, Kept, InOnePlace
  <2> QED
    BY <2>1, <2>2, KeptSeal, KeptPeerStep DEF Next
<1>3. Typed /\ Kept => KeptUntilAcked
  <2> SUFFICES ASSUME Typed, Kept, NEW p \in Peers, NEW b \in reached + 1 .. sealed
               PROVE  LET kept == buffer[p] \o pending[p]
                      IN  Cardinality({i \in DOMAIN kept : kept[i] = b})
                            = IF p \in acked[b] THEN 0 ELSE 1
    BY DEF KeptUntilAcked
  <2>1. PICK S : S = 1 .. sealed
    OBVIOUS
  <2>2. buffer[p] \in Seq(S) /\ pending[p] \in Seq(S) /\ InOnePlace(p, b)
    BY <2>1 DEF Typed, LinkTyped, Kept
  <2>3. buffer[p] \o pending[p] \in Seq(S)
    BY <2>2
  <2>4. IF p \in acked[b] THEN Absent(buffer[p] \o pending[p], b)
                          ELSE Once(buffer[p] \o pending[p], b)
    BY <2>2, PlacesConcat DEF InOnePlace
  <2> QED
    BY <2>3, <2>4, PlacesCounted
<1> QED
  BY <1>1, <1>2, <1>3, AlwaysDelivery, TypeCorrect, TypedIsTypeOK, PTL DEF Spec

=============================================================================
