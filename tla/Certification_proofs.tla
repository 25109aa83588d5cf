------------------------ MODULE Certification_proofs ------------------------
(***************************************************************************)
(* Theorems about Certification for every committee, set of Byzantine      *)
(* authorities of at most f of stake, restarts, GC depth and rounds.       *)
(***************************************************************************)
EXTENDS Certification, Committee_proofs

-----------------------------------------------------------------------------
\* Types of what the operators on the aggregators return.
LEMMA DigestTyped ==
  ASSUME NEW h \in Header
  PROVE  Digest(h) \in DigestOf
  BY DEF Digest, DigestOf, Header, Rounds

LEMMA AppendTyped ==
  ASSUME NEW agg \in Aggregator, NEW c \in Header
  PROVE  AppendCertificate(agg, c) \in Aggregator
<1>1. c.author \in Authorities /\ Stake[c.author] \in Nat
  BY CommitteeAssumption DEF Header
<1>2. Digest(c) \in DigestOf
  BY DigestTyped
<1> QED
  BY <1>1, <1>2 DEF AppendCertificate, Aggregator

LEMMA AggregatorsTyped ==
  ASSUME TypeOK, NEW n \in Correct, NEW c \in Header
  PROVE  AggregatorsAfter(n, c) \in [Rounds -> Aggregator]
<1>1. aggregators[n] \in [Rounds -> Aggregator] /\ c.round \in Rounds
  BY DEF TypeOK, Header
<1>2. AppendCertificate(aggregators[n][c.round], c) \in Aggregator
  BY <1>1, AppendTyped
<1> QED
  BY <1>1, <1>2 DEF AggregatorsAfter

LEMMA CleanupTyped ==
  ASSUME TypeOK, NEW n \in Correct,
         NEW voted \in SUBSET (Rounds \X Authorities), NEW seen \in SUBSET Header,
         NEW agg \in [Rounds -> Aggregator],
         Cleanup(n, voted, seen, agg)
  PROVE  /\ gcRound' \in [Correct -> Nat]
         /\ lastVoted' \in [Correct -> SUBSET (Rounds \X Authorities)]
         /\ processing' \in [Correct -> SUBSET Header]
         /\ aggregators' \in [Correct -> [Rounds -> Aggregator]]
<1> DEFINE gc == IF consensusRound[n] > GcDepth THEN consensusRound[n] - GcDepth
                                                ELSE gcRound[n]
<1>1. gc \in Nat
  BY CertificationAssumption DEF TypeOK
<1>2. gcRound' = [gcRound EXCEPT ![n] = gc]
      /\ lastVoted' = [lastVoted EXCEPT ![n] = {s \in voted : s[1] >= gc}]
      /\ processing' = [processing EXCEPT ![n] = {h \in seen : h.round >= gc}]
      /\ aggregators' = [aggregators EXCEPT ![n] =
           [r \in Rounds |-> IF r >= gc THEN agg[r] ELSE EmptyAggregator]]
  BY DEF Cleanup
<1>3. EmptyAggregator \in Aggregator
  BY DEF EmptyAggregator, Aggregator
<1> HIDE DEF gc
<1>4. [r \in Rounds |-> IF r >= gc THEN agg[r] ELSE EmptyAggregator] \in [Rounds -> Aggregator]
  BY <1>3
<1>5. {s \in voted : s[1] >= gc} \in SUBSET (Rounds \X Authorities)
      /\ {h \in seen : h.round >= gc} \in SUBSET Header
  OBVIOUS
<1> QED
  BY <1>1, <1>2, <1>4, <1>5 DEF TypeOK

LEMMA DeliverTyped ==
  ASSUME TypeOK, NEW n \in Correct, NEW c \in Header, DeliverCertificate(n, c)
  PROVE  /\ stored' \in [Correct -> SUBSET Header]
         /\ waitingCertificates' \in [Correct -> SUBSET Header]
         /\ toProposer' \in [Correct -> Seq([parents : SUBSET DigestOf, round : Rounds])]
<1> DEFINE next == [parents |-> aggregators[n][c.round].certificates \cup {Digest(c)},
                    round |-> c.round]
<1>1. next \in [parents : SUBSET DigestOf, round : Rounds]
  BY DigestTyped DEF TypeOK, Header, Aggregator
<1>2. toProposer[n] \in Seq([parents : SUBSET DigestOf, round : Rounds])
  BY DEF TypeOK
<1>3. Append(toProposer[n], next) \in Seq([parents : SUBSET DigestOf, round : Rounds])
  <2> HIDE DEF next
  <2> QED
    BY <1>1, <1>2
<1>4. toProposer' = [toProposer EXCEPT ![n] = Append(toProposer[n], next)] \/ toProposer' = toProposer
  BY DEF DeliverCertificate, TypeOK
<1>5. toProposer' \in [Correct -> Seq([parents : SUBSET DigestOf, round : Rounds])]
  <2> HIDE DEF next
  <2> QED
    BY <1>3, <1>4 DEF TypeOK
<1>6. stored' \in [Correct -> SUBSET Header]
  <2>1. stored' = [stored EXCEPT ![n] = stored[n] \cup {c}] \/ stored' = stored
    <3>1. CASE HasParents(n, c)
      BY <3>1, Zenon DEF DeliverCertificate
    <3>2. CASE ~ HasParents(n, c)
      BY <3>2, Zenon DEF DeliverCertificate
    <3> QED
      BY <3>1, <3>2
  <2>2. stored \in [Correct -> SUBSET Header]
    BY DEF TypeOK
  <2> HIDE DEF next
  <2>3. stored[n] \cup {c} \in SUBSET Header
    BY <2>2
  <2> QED
    BY <2>1, <2>2, <2>3
<1>7. waitingCertificates' \in [Correct -> SUBSET Header]
  <2>1. \/ waitingCertificates' = [waitingCertificates EXCEPT ![n] = waitingCertificates[n] \ {c}]
        \/ waitingCertificates' = [waitingCertificates EXCEPT ![n] = waitingCertificates[n] \cup {c}]
    <3>1. CASE HasParents(n, c)
      BY <3>1, Zenon DEF DeliverCertificate
    <3>2. CASE ~ HasParents(n, c)
      BY <3>2, Zenon DEF DeliverCertificate
    <3> QED
      BY <3>1, <3>2
  <2>2. waitingCertificates \in [Correct -> SUBSET Header]
    BY DEF TypeOK
  <2> HIDE DEF next
  <2>3. /\ waitingCertificates[n] \cup {c} \in SUBSET Header
        /\ waitingCertificates[n] \ {c} \in SUBSET Header
    BY <2>2
  <2> QED
    BY <2>1, <2>2, <2>3
<1> QED
  BY <1>5, <1>6, <1>7

LEMMA ProcessHeaderTyped ==
  ASSUME TypeOK, NEW n \in Correct, NEW h \in Header, ProcessHeader(n, h)
  PROVE  /\ votes' \subseteq Correct \X Header
         /\ waitingHeaders' \in [Correct -> SUBSET Header]
  BY DEF ProcessHeader, TypeOK

LEMMA LastVotedTyped ==
  ASSUME TypeOK, NEW n \in Correct, NEW h \in Header
  PROVE  LastVotedAfter(n, h) \in SUBSET (Rounds \X Authorities)
  BY DEF LastVotedAfter, TypeOK, Slot, Header

LEMMA ProcessCertificateTyped ==
  ASSUME TypeOK, NEW n \in Correct, NEW c \in Header, ProcessCertificate(n, c)
  PROVE  TypeOK'
<1> DEFINE known == c \in processing[n]
           failed == ~ known /\ Rejects(n, c)
           voted == IF known THEN lastVoted[n] ELSE LastVotedAfter(n, c)
           agg == IF failed THEN aggregators[n] ELSE AggregatorsAfter(n, c)
<1>1. votes' \subseteq Correct \X Header /\ waitingHeaders' \in [Correct -> SUBSET Header]
  BY ProcessHeaderTyped DEF ProcessCertificate, TypeOK
<1>2. /\ stored' \in [Correct -> SUBSET Header]
      /\ waitingCertificates' \in [Correct -> SUBSET Header]
      /\ toProposer' \in [Correct -> Seq([parents : SUBSET DigestOf, round : Rounds])]
  <2>1. CASE failed
    <3>1. /\ waitingCertificates' =
               [waitingCertificates EXCEPT ![n] = waitingCertificates[n] \ {c}]
          /\ stored' = stored /\ toProposer' = toProposer
      BY <2>1 DEF ProcessCertificate
    <3> QED
      BY <3>1 DEF TypeOK
  <2>2. CASE ~ failed
    BY <2>2, DeliverTyped DEF ProcessCertificate
  <2> QED
    BY <2>1, <2>2
<1>3. voted \in SUBSET (Rounds \X Authorities)
  BY LastVotedTyped DEF TypeOK
<1>4. agg \in [Rounds -> Aggregator]
  BY AggregatorsTyped DEF TypeOK
<1>5. processing[n] \cup {c} \in SUBSET Header
  BY DEF TypeOK
<1>6. Cleanup(n, voted, processing[n] \cup {c}, agg)
  BY DEF ProcessCertificate
<1>7. /\ gcRound' \in [Correct -> Nat]
      /\ lastVoted' \in [Correct -> SUBSET (Rounds \X Authorities)]
      /\ processing' \in [Correct -> SUBSET Header]
      /\ aggregators' \in [Correct -> [Rounds -> Aggregator]]
  <2> HIDE DEF voted, agg
  <2> QED
    BY <1>3, <1>4, <1>5, <1>6, CleanupTyped
<1> QED
  BY <1>1, <1>2, <1>7 DEF ProcessCertificate, TypeOK

-----------------------------------------------------------------------------
\* The state of Core, Proposer, the aggregators and the waiters has the types
\* that their declarations give it; gc_round never underflows.
THEOREM TypeCorrect == Spec => []TypeOK
<1>1. Init => TypeOK
  <2> SUFFICES ASSUME Init PROVE TypeOK
    OBVIOUS
  <2>1. Genesis \subseteq DigestOf
    BY CertificationAssumption DEF Genesis, DigestOf
  <2>2. EmptyAggregator \in Aggregator
    BY DEF EmptyAggregator, Aggregator
  <2> QED
    BY <2>1, <2>2 DEF Init, TypeOK, FirstRound, EmptyVotes
<1>2. TypeOK /\ [Next]_vars => TypeOK'
  <2> SUFFICES ASSUME TypeOK, [Next]_vars PROVE TypeOK'
    OBVIOUS
  <2>1. ASSUME NEW n \in Correct, NEW h \in headers, ReceiveHeader(n, h) PROVE TypeOK'
    <3>1. h \in Header
      BY DEF TypeOK
    <3>2. votes' \subseteq Correct \X Header /\ waitingHeaders' \in [Correct -> SUBSET Header]
      BY <2>1, <3>1, ProcessHeaderTyped DEF ReceiveHeader
    <3>3. processing[n] \cup {h} \in SUBSET Header /\ aggregators[n] \in [Rounds -> Aggregator]
      BY <3>1 DEF TypeOK
    <3>4. /\ gcRound' \in [Correct -> Nat]
          /\ lastVoted' \in [Correct -> SUBSET (Rounds \X Authorities)]
          /\ processing' \in [Correct -> SUBSET Header]
          /\ aggregators' \in [Correct -> [Rounds -> Aggregator]]
      BY <2>1, <3>1, <3>3, LastVotedTyped, CleanupTyped DEF ReceiveHeader
    <3> QED
      BY <2>1, <3>2, <3>4 DEF TypeOK, ReceiveHeader, channels, disk
  <2>2. ASSUME NEW n \in Correct, NEW h \in waitingHeaders[n], ResumeHeader(n, h) PROVE TypeOK'
    <3>1. h \in Header
      BY DEF TypeOK
    <3>2. votes' \subseteq Correct \X Header /\ waitingHeaders' \in [Correct -> SUBSET Header]
      BY <2>2, <3>1, ProcessHeaderTyped DEF ResumeHeader
    <3>3. processing[n] \cup {h} \in SUBSET Header /\ aggregators[n] \in [Rounds -> Aggregator]
      BY <3>1 DEF TypeOK
    <3>4. /\ gcRound' \in [Correct -> Nat]
          /\ lastVoted' \in [Correct -> SUBSET (Rounds \X Authorities)]
          /\ processing' \in [Correct -> SUBSET Header]
          /\ aggregators' \in [Correct -> [Rounds -> Aggregator]]
      BY <2>2, <3>1, <3>3, LastVotedTyped, CleanupTyped DEF ResumeHeader
    <3> QED
      BY <2>2, <3>2, <3>4 DEF TypeOK, ResumeHeader, channels, disk
  <2>3. ASSUME NEW n \in Correct, NEW c \in certificates, ReceiveCertificate(n, c) PROVE TypeOK'
    BY <2>3, ProcessCertificateTyped DEF ReceiveCertificate, TypeOK
  <2>4. ASSUME NEW n \in Correct, NEW c \in waitingCertificates[n], ResumeCertificate(n, c)
        PROVE  TypeOK'
    BY <2>4, ProcessCertificateTyped DEF ResumeCertificate, TypeOK
  <2>5. ASSUME NEW n \in Correct, OwnHeader(n) PROVE TypeOK'
    <3> DEFINE h == Head(toCore[n])
               certified == MayVote(n, h) /\ Reaches(EmptyVotes, n)
               agg == IF certified THEN AggregatorsAfter(n, h) ELSE aggregators[n]
    <3>1. h \in Header /\ Tail(toCore[n]) \in Seq(Header)
      BY <2>5 DEF OwnHeader, TypeOK
    <3>2. /\ headers' = headers \cup {h}
          /\ currentHeader' = [currentHeader EXCEPT ![n] = h]
          /\ votesAggregator' = [votesAggregator EXCEPT ![n] =
               IF MayVote(n, h) THEN AppendVote(EmptyVotes, n) ELSE EmptyVotes]
          /\ toCore' = [toCore EXCEPT ![n] = Tail(toCore[n])]
          /\ ProcessHeader(n, h)
          /\ certificates' = IF certified THEN certificates \cup {h} ELSE certificates
          /\ IF certified THEN DeliverCertificate(n, h)
                          ELSE UNCHANGED <<stored, toProposer, waitingCertificates>>
          /\ Cleanup(n, LastVotedAfter(n, h), processing[n] \cup {h}, agg)
          /\ UNCHANGED <<down, proposer, consensusRound, payloads, restarted>>
      BY <2>5 DEF OwnHeader, TypeOK
    <3> HIDE DEF h, certified
    <3>3. votes' \subseteq Correct \X Header /\ waitingHeaders' \in [Correct -> SUBSET Header]
      BY <3>1, <3>2, ProcessHeaderTyped
    <3>4. agg \in [Rounds -> Aggregator] /\ processing[n] \cup {h} \in SUBSET Header
      BY <3>1, AggregatorsTyped DEF TypeOK
    <3> HIDE DEF agg
    <3>5. /\ gcRound' \in [Correct -> Nat]
          /\ lastVoted' \in [Correct -> SUBSET (Rounds \X Authorities)]
          /\ processing' \in [Correct -> SUBSET Header]
          /\ aggregators' \in [Correct -> [Rounds -> Aggregator]]
      BY <3>1, <3>2, <3>4, LastVotedTyped, CleanupTyped
    <3>6. /\ stored' \in [Correct -> SUBSET Header]
          /\ waitingCertificates' \in [Correct -> SUBSET Header]
          /\ toProposer' \in [Correct -> Seq([parents : SUBSET DigestOf, round : Rounds])]
      BY <3>1, <3>2, DeliverTyped DEF TypeOK
    <3>7. EmptyVotes \in [weight : Nat, used : SUBSET Authorities]
          /\ AppendVote(EmptyVotes, n) \in [weight : Nat, used : SUBSET Authorities]
      BY CommitteeAssumption DEF EmptyVotes, AppendVote, Correct
    <3>8. votesAggregator' \in [Correct -> [weight : Nat, used : SUBSET Authorities]]
      BY <3>2, <3>7 DEF TypeOK
    <3> QED
      BY <3>1, <3>2, <3>3, <3>5, <3>6, <3>8 DEF TypeOK
  <2>6. ASSUME NEW n \in Correct, NEW a \in Authorities, ReceiveVote(n, a) PROVE TypeOK'
    <3> DEFINE h == currentHeader[n]
               certified == Reaches(votesAggregator[n], a)
               refused == h \notin processing[n] /\ MayVote(n, h) /\ n \in votesAggregator[n].used
               seen == IF certified THEN processing[n] \cup {h} ELSE processing[n]
               agg == IF certified THEN AggregatorsAfter(n, h) ELSE aggregators[n]
    <3>1. h \in Header
      BY <2>6 DEF ReceiveVote, TypeOK
    <3>2. /\ votesAggregator' = [votesAggregator EXCEPT ![n] = AppendVote(votesAggregator[n], a)]
          /\ certificates' = IF certified THEN certificates \cup {h} ELSE certificates
          /\ IF certified /\ ~ refused
             THEN DeliverCertificate(n, h)
             ELSE UNCHANGED <<stored, toProposer, waitingCertificates>>
          /\ IF certified /\ refused
             THEN /\ down' = [down EXCEPT ![n] = TRUE]
                  /\ UNCHANGED <<gcRound, lastVoted, processing, aggregators>>
             ELSE Cleanup(n, lastVoted[n], seen, agg) /\ UNCHANGED down
          /\ UNCHANGED <<headers, votes, currentHeader, proposer, toCore, waitingHeaders,
                         consensusRound, payloads, restarted>>
      BY <2>6 DEF ReceiveVote, TypeOK
    <3> HIDE DEF h, certified, refused
    <3>3. agg \in [Rounds -> Aggregator] /\ seen \in SUBSET Header
          /\ lastVoted[n] \in SUBSET (Rounds \X Authorities)
      BY <3>1, AggregatorsTyped DEF TypeOK
    <3> HIDE DEF agg, seen
    <3>4. /\ gcRound' \in [Correct -> Nat]
          /\ lastVoted' \in [Correct -> SUBSET (Rounds \X Authorities)]
          /\ processing' \in [Correct -> SUBSET Header]
          /\ aggregators' \in [Correct -> [Rounds -> Aggregator]]
          /\ down' \in [Correct -> BOOLEAN]
      <4>1. CASE certified /\ refused
        BY <3>2, <4>1 DEF TypeOK
      <4>2. CASE ~ (certified /\ refused)
        BY <3>2, <3>3, <4>2, CleanupTyped DEF TypeOK
      <4> QED
        BY <4>1, <4>2
    <3>5. /\ stored' \in [Correct -> SUBSET Header]
          /\ waitingCertificates' \in [Correct -> SUBSET Header]
          /\ toProposer' \in [Correct -> Seq([parents : SUBSET DigestOf, round : Rounds])]
      BY <3>1, <3>2, DeliverTyped DEF TypeOK
    <3>6. AppendVote(votesAggregator[n], a) \in [weight : Nat, used : SUBSET Authorities]
      BY CommitteeAssumption DEF TypeOK, AppendVote
    <3>7. votesAggregator' \in [Correct -> [weight : Nat, used : SUBSET Authorities]]
      BY <3>2, <3>6 DEF TypeOK
    <3> QED
      BY <3>1, <3>2, <3>4, <3>5, <3>7 DEF TypeOK
  <2>7. ASSUME NEW n \in Correct, RefuseMessage(n) PROVE TypeOK'
    <3>1. /\ lastVoted[n] \in SUBSET (Rounds \X Authorities) /\ processing[n] \in SUBSET Header
          /\ aggregators[n] \in [Rounds -> Aggregator]
      BY DEF TypeOK
    <3>2. /\ gcRound' \in [Correct -> Nat]
          /\ lastVoted' \in [Correct -> SUBSET (Rounds \X Authorities)]
          /\ processing' \in [Correct -> SUBSET Header]
          /\ aggregators' \in [Correct -> [Rounds -> Aggregator]]
      BY <2>7, <3>1, CleanupTyped DEF RefuseMessage
    <3> QED
      BY <2>7, <3>2 DEF TypeOK, RefuseMessage, network, channels, waiters, disk
  <2>8. ASSUME NEW n \in Correct, MakeHeader(n) PROVE TypeOK'
    <3>1. NewHeader(n) \in Header
      <4>1. proposer[n].round \in Rounds /\ proposer[n].lastParents \in SUBSET DigestOf
        BY <2>8 DEF TypeOK, MakeHeader, Rounds
      <4>2. Contents[n][1] \in Payload /\ Contents[n][2] \in Payload
        BY CertificationAssumption
      <4> QED
        BY <4>1, <4>2 DEF NewHeader, Header, Correct
    <3>2. toCore' \in [Correct -> Seq(Header)]
      BY <2>8, <3>1 DEF MakeHeader, TypeOK
    <3>3. proposer' \in [Correct -> [round : Nat \ {0}, lastParents : SUBSET DigestOf]]
      BY <2>8 DEF MakeHeader, TypeOK
    <3> QED
      BY <2>8, <3>2, <3>3 DEF TypeOK, MakeHeader, network, core, waiters, disk
  <2>9. ASSUME NEW n \in Correct, AdvanceRound(n) PROVE TypeOK'
    <3>1. /\ Head(toProposer[n]) \in [parents : SUBSET DigestOf, round : Rounds]
          /\ Tail(toProposer[n]) \in Seq([parents : SUBSET DigestOf, round : Rounds])
      <4> DEFINE Parents == [parents : SUBSET DigestOf, round : Rounds]
      <4>1. toProposer[n] \in Seq(Parents)
        BY DEF TypeOK
      <4>2. toProposer[n] # << >>
        BY <2>9 DEF AdvanceRound
      <4> HIDE DEF Parents
      <4>3. Head(toProposer[n]) \in Parents /\ Tail(toProposer[n]) \in Seq(Parents)
        BY <4>1, <4>2
      <4> QED
        BY <4>3 DEF Parents
    <3>2. [round |-> Head(toProposer[n]).round + 1, lastParents |-> Head(toProposer[n]).parents]
            \in [round : Nat \ {0}, lastParents : SUBSET DigestOf]
      BY <3>1 DEF Rounds
    <3>3. proposer' \in [Correct -> [round : Nat \ {0}, lastParents : SUBSET DigestOf]]
      BY <2>9, <3>2 DEF AdvanceRound, TypeOK
    <3>4. toProposer' \in [Correct -> Seq([parents : SUBSET DigestOf, round : Rounds])]
      BY <2>9, <3>1 DEF AdvanceRound, TypeOK
    <3> QED
      BY <2>9, <3>3, <3>4 DEF TypeOK, AdvanceRound, network, core, waiters, disk
  <2>10. ASSUME NEW n \in Correct, Commit(n) PROVE TypeOK'
    <3>1. consensusRound' \in [Correct -> Nat]
      BY <2>10 DEF Commit, TypeOK, Header, Rounds
    <3> QED
      BY <2>10, <3>1 DEF TypeOK, Commit, network, core, channels, disk
  <2>11. ASSUME NEW n \in Correct, NEW p \in Payload, PayloadArrives(n, p) PROVE TypeOK'
    BY <2>11 DEF TypeOK, PayloadArrives, network, core, channels, waiters
  <2>12. ASSUME NEW n \in Correct, NEW h \in waitingHeaders[n], CancelHeader(n, h) PROVE TypeOK'
    BY <2>12 DEF TypeOK, CancelHeader, network, core, channels, disk
  <2>13. ASSUME NEW n \in Correct, Restart(n) PROVE TypeOK'
    <3>1. FirstRound \in [round : Nat \ {0}, lastParents : SUBSET DigestOf]
      BY CertificationAssumption DEF FirstRound, Genesis, DigestOf
    <3>2. [r \in Rounds |-> EmptyAggregator] \in [Rounds -> Aggregator]
      BY DEF EmptyAggregator, Aggregator
    <3>3. EmptyVotes \in [weight : Nat, used : SUBSET Authorities]
      BY DEF EmptyVotes
    <3> QED
      <4>1. /\ gcRound' \in [Correct -> Nat] /\ consensusRound' \in [Correct -> Nat]
            /\ lastVoted' \in [Correct -> SUBSET (Rounds \X Authorities)]
            /\ processing' \in [Correct -> SUBSET Header]
            /\ currentHeader' \in [Correct -> Header \cup {NoHeader}]
            /\ down' \in [Correct -> BOOLEAN]
            /\ waitingHeaders' \in [Correct -> SUBSET Header]
            /\ waitingCertificates' \in [Correct -> SUBSET Header]
        BY <2>13 DEF TypeOK, Restart
      <4>2. /\ votesAggregator' \in [Correct -> [weight : Nat, used : SUBSET Authorities]]
            /\ aggregators' \in [Correct -> [Rounds -> Aggregator]]
            /\ proposer' \in [Correct -> [round : Nat \ {0}, lastParents : SUBSET DigestOf]]
        BY <2>13, <3>1, <3>2, <3>3 DEF TypeOK, Restart
      <4>3. /\ toProposer' \in [Correct -> Seq([parents : SUBSET DigestOf, round : Rounds])]
            /\ toCore' \in [Correct -> Seq(Header)]
        <5>1. toProposer' = [toProposer EXCEPT ![n] = << >>] /\ toCore' = [toCore EXCEPT ![n] = << >>]
          BY <2>13 DEF Restart
        <5> DEFINE Parents == [parents : SUBSET DigestOf, round : Rounds]
        <5>2. toCore' \in [Correct -> Seq(Header)]
          BY <5>1, << >> \in Seq(Header) DEF TypeOK
        <5>3. toProposer \in [Correct -> Seq(Parents)]
          BY DEF TypeOK
        <5> HIDE DEF Parents
        <5>4. toProposer' \in [Correct -> Seq(Parents)]
          BY <5>1, <5>3, << >> \in Seq(Parents)
        <5> QED
          BY <5>2, <5>4 DEF Parents
      <4>4. restarted' \subseteq Correct
        BY <2>13 DEF TypeOK, Restart
      <4> QED
        BY <2>13, <4>1, <4>2, <4>3, <4>4 DEF TypeOK, Restart, network, disk
  <2>14. ASSUME NEW b \in Byzantine, ForgeHeader(b) PROVE TypeOK'
    <3>1. headers' \subseteq Header
      <4>1. PICK r \in Rounds, form \in Forms :
              headers' = headers \cup
                {[author |-> b, round |-> r,
                  parents |-> {d \in Digests(certificates) \cup Genesis :
                                 d.round = r - 1 /\ d.author \in form.parents},
                  payload |-> form.payload, sound |-> form.sound]}
        BY <2>14 DEF ForgeHeader
      <4>2. Digests(certificates) \subseteq DigestOf /\ Genesis \subseteq DigestOf
        BY DigestTyped, CertificationAssumption DEF Digests, Genesis, DigestOf, TypeOK
      <4> QED
        BY <4>1, <4>2, CertificationAssumption DEF TypeOK, Header
    <3> QED
      BY <2>14, <3>1 DEF TypeOK, ForgeHeader, core, channels, waiters, disk
  <2>15. ASSUME NEW h \in headers, CertifyForged(h) PROVE TypeOK'
    BY <2>15 DEF TypeOK, CertifyForged, core, channels, waiters, disk
  <2>16. CASE UNCHANGED vars
    BY <2>16 DEF TypeOK, vars, network, core, channels, waiters, disk
  <2> QED
    BY <2>1, <2>2, <2>3, <2>4, <2>5, <2>6, <2>7, <2>8, <2>9, <2>10, <2>11, <2>12, <2>13,
       <2>14, <2>15, <2>16 DEF Next, CoreStep, TaskStep, ByzantineStep
<1> QED
  BY <1>1, <1>2, PTL DEF Spec

-----------------------------------------------------------------------------
(***************************************************************************)
(* CertificateUniqueness. last_voted stands between a node and a second    *)
(* vote for a slot until its round is collected, the collected round of a  *)
(* node never falls (but for a restart), and who was counted for a         *)
(* certificate has signed its header.                                      *)
(***************************************************************************)

\* The collected round trails what consensus has committed.
GcBehind ==
  \A n \in Correct : gcRound[n] = 0 \/ gcRound[n] + GcDepth <= consensusRound[n]

\* last_voted holds every vote of a round that is not collected.
VotesRemembered ==
  \A n \in Correct \ restarted : \A h \in Header :
    <<n, h>> \in votes => h.round < gcRound[n] \/ Slot(h) \in lastVoted[n]

\* One vote for an author and a round until the round is collected.
OneVoteEach ==
  \A n \in Correct \ restarted : \A g, h \in Header :
    <<n, g>> \in votes /\ <<n, h>> \in votes /\ Slot(g) = Slot(h)
      => g = h \/ h.round < gcRound[n]

VoteInv == GcBehind /\ VotesRemembered /\ OneVoteEach

\* The votes in the aggregator have been cast, and weigh what it says.
VotesCounted ==
  \A n \in Correct :
    /\ votesAggregator[n].used \subseteq Signers(currentHeader[n])
    /\ votesAggregator[n].weight <= StakeOf(votesAggregator[n].used)

CertificatesCertified == \A c \in certificates : Certifies(c)

QuorumInv == VotesCounted /\ CertificatesCertified

\* The clean-up does not lower the collected round.
LEMMA CleanupRaises ==
  ASSUME TypeOK, GcBehind, NEW n \in Correct,
         NEW voted, NEW seen, NEW agg, Cleanup(n, voted, seen, agg),
         consensusRound' = consensusRound
  PROVE  /\ GcBehind'
         /\ \A m \in Correct : gcRound[m] <= gcRound'[m]
         /\ lastVoted' = [lastVoted EXCEPT ![n] = {s \in voted : s[1] >= gcRound'[n]}]
<1> DEFINE gc == IF consensusRound[n] > GcDepth THEN consensusRound[n] - GcDepth
                                                ELSE gcRound[n]
<1>1. gcRound' = [gcRound EXCEPT ![n] = gc]
      /\ lastVoted' = [lastVoted EXCEPT ![n] = {s \in voted : s[1] >= gc}]
  BY DEF Cleanup
<1>2. gcRound \in [Correct -> Nat] /\ consensusRound \in [Correct -> Nat]
  BY DEF TypeOK
<1>3. gcRound'[n] = gc /\ \A m \in Correct : m # n => gcRound'[m] = gcRound[m]
  BY <1>1, <1>2
<1>4. gc \in Nat /\ gcRound[n] <= gc /\ (gc = 0 \/ gc + GcDepth <= consensusRound[n])
  BY <1>2, CertificationAssumption DEF GcBehind
<1> HIDE DEF gc
<1>5. GcBehind'
  <2> SUFFICES ASSUME NEW m \in Correct
               PROVE  gcRound'[m] = 0 \/ gcRound'[m] + GcDepth <= consensusRound[m]
    BY DEF GcBehind
  <2>1. CASE m = n
    BY <2>1, <1>3, <1>4
  <2>2. CASE m # n
    BY <2>2, <1>3 DEF GcBehind
  <2> QED
    BY <2>1, <2>2
<1>6. \A m \in Correct : gcRound[m] <= gcRound'[m]
  <2>1. \A m \in Correct : gcRound[m] <= gcRound[m]
    BY <1>2
  <2> QED
    BY <1>3, <1>4, <2>1
<1>7. lastVoted' = [lastVoted EXCEPT ![n] = {s \in voted : s[1] >= gcRound'[n]}]
  <2>1. {s \in voted : s[1] >= gc} = {s \in voted : s[1] >= gcRound'[n]}
    BY <1>3
  <2> QED
    BY <1>1, <2>1, Zenon
<1> QED
  BY <1>5, <1>6, <1>7

\* A turn of Core that votes at most for a slot that is not in last_voted, and
\* puts it there, keeps the invariant of the votes.
LEMMA VotesKept ==
  ASSUME TypeOK, TypeOK', VoteInv, NEW n \in Correct, NEW h,
         NEW voted \in SUBSET (Rounds \X Authorities), NEW seen, NEW agg,
         Cleanup(n, voted, seen, agg),
         lastVoted[n] \subseteq voted,
         \/ votes' = votes
         \/ votes' = votes \cup {<<n, h>>} /\ Slot(h) \in voted /\ Slot(h) \notin lastVoted[n],
         consensusRound' = consensusRound, restarted' = restarted
  PROVE  VoteInv'
<1>1. /\ GcBehind'
      /\ \A m \in Correct : gcRound[m] <= gcRound'[m]
      /\ lastVoted' = [lastVoted EXCEPT ![n] = {s \in voted : s[1] >= gcRound'[n]}]
  BY CleanupRaises DEF VoteInv
<1>2. /\ gcRound \in [Correct -> Nat] /\ gcRound' \in [Correct -> Nat]
      /\ \A g \in Header : g.round \in Nat /\ Slot(g)[1] = g.round
  BY DEF TypeOK, Header, Rounds, Slot
<1>3. /\ lastVoted'[n] = {s \in voted : s[1] >= gcRound'[n]}
      /\ \A m \in Correct : m # n => lastVoted'[m] = lastVoted[m]
  BY <1>1 DEF TypeOK
<1>4. ASSUME NEW m \in Correct, NEW g \in Header, <<m, g>> \in votes'
      PROVE  \/ <<m, g>> \in votes
             \/ m = n /\ g = h /\ Slot(h) \in voted /\ Slot(h) \notin lastVoted[n]
  BY <1>4
<1>5. VotesRemembered'
  <2> SUFFICES ASSUME NEW m \in Correct \ restarted, NEW g \in Header, <<m, g>> \in votes'
               PROVE  g.round < gcRound'[m] \/ Slot(g) \in lastVoted'[m]
    BY DEF VotesRemembered
  <2>1. CASE m # n
    <3>1. <<m, g>> \in votes
      BY <2>1, <1>4
    <3>2. g.round < gcRound[m] \/ Slot(g) \in lastVoted[m]
      BY <3>1 DEF VoteInv, VotesRemembered
    <3> QED
      BY <2>1, <3>2, <1>1, <1>2, <1>3
  <2>2. CASE m = n
    <3>1. g.round < gcRound[n] \/ Slot(g) \in voted
      BY <2>2, <1>4 DEF VoteInv, VotesRemembered
    <3> QED
      BY <2>2, <3>1, <1>1, <1>2, <1>3
  <2> QED
    BY <2>1, <2>2
<1>6. OneVoteEach'
  <2> SUFFICES ASSUME NEW m \in Correct \ restarted, NEW f \in Header, NEW g \in Header,
                      <<m, f>> \in votes', <<m, g>> \in votes', Slot(f) = Slot(g)
               PROVE  f = g \/ g.round < gcRound'[m]
    BY DEF OneVoteEach
  <2>1. f.round = g.round
    BY <1>2
  <2>2. \/ <<m, f>> \in votes
        \/ m = n /\ f = h /\ Slot(h) \notin lastVoted[n]
    BY <1>4
  <2>3. \/ <<m, g>> \in votes
        \/ m = n /\ g = h /\ Slot(h) \notin lastVoted[n]
    BY <1>4
  <2>4. f = g \/ g.round < gcRound[m]
    <3>1. CASE <<m, f>> \in votes /\ <<m, g>> \in votes
      BY <3>1 DEF VoteInv, OneVoteEach
    <3>2. CASE <<m, f>> \in votes /\ m = n /\ g = h /\ Slot(h) \notin lastVoted[n]
      BY <3>2, <2>1 DEF VoteInv, VotesRemembered
    <3>3. CASE <<m, g>> \in votes /\ m = n /\ f = h /\ Slot(h) \notin lastVoted[n]
      BY <3>3 DEF VoteInv, VotesRemembered
    <3> QED
      BY <2>2, <2>3, <3>1, <3>2, <3>3
  <2> QED
    BY <2>4, <1>1, <1>2
<1> QED
  BY <1>1, <1>5, <1>6 DEF VoteInv

\* process_header votes as VotesKept asks for.
LEMMA HeaderVotesKept ==
  ASSUME TypeOK, TypeOK', VoteInv, NEW n \in Correct, NEW h \in Header,
         NEW seen, NEW agg, ProcessHeader(n, h),
         Cleanup(n, LastVotedAfter(n, h), seen, agg),
         consensusRound' = consensusRound, restarted' = restarted
  PROVE  VoteInv'
<1>1. LastVotedAfter(n, h) \in SUBSET (Rounds \X Authorities)
  BY LastVotedTyped
<1>2. lastVoted[n] \subseteq LastVotedAfter(n, h)
  BY DEF LastVotedAfter
<1>3. \/ votes' = votes
      \/ votes' = votes \cup {<<n, h>>} /\ Slot(h) \in LastVotedAfter(n, h)
         /\ Slot(h) \notin lastVoted[n]
  BY DEF ProcessHeader, MayVote, LastVotedAfter
<1> QED
  BY <1>1, <1>2, <1>3, VotesKept

-----------------------------------------------------------------------------
\* A signature is never taken back.
LEMMA SignersGrow ==
  ASSUME votes \subseteq votes', NEW h
  PROVE  /\ Signers(h) \subseteq Signers(h)'
         /\ Certifies(h) => Certifies(h)'
<1>1. /\ Signers(h) \subseteq Signers(h)'
      /\ Signers(h) \in SUBSET Authorities /\ Signers(h)' \in SUBSET Authorities
  BY DEF Signers
<1>2. StakeOf(Signers(h)) <= StakeOf(Signers(h)')
  BY <1>1, StakeMonotone
<1>3. StakeOf(Signers(h)) \in Nat /\ StakeOf(Signers(h)') \in Nat
  BY <1>1, UnitsFinite
<1>4. QuorumThreshold \in Int
  BY UnitsFinite DEF QuorumThreshold, TotalStake
<1>5. Certifies(h) <=> StakeOf(Signers(h)) >= QuorumThreshold
  BY DEF Certifies, IsQuorum
<1>6. Certifies(h)' <=> StakeOf(Signers(h)') >= QuorumThreshold
  BY DEF Certifies, IsQuorum
<1> QED
  BY <1>1, <1>2, <1>3, <1>4, <1>5, <1>6

\* VotesAggregator::append counts a vote once, and a quorum only when it is one.
LEMMA VoteCounted ==
  ASSUME NEW agg \in [weight : Nat, used : SUBSET Authorities],
         NEW a \in Authorities, a \notin agg.used, agg.weight <= StakeOf(agg.used),
         NEW S \in SUBSET Authorities, agg.used \cup {a} \subseteq S
  PROVE  /\ AppendVote(agg, a).used \subseteq S
         /\ AppendVote(agg, a).weight <= StakeOf(AppendVote(agg, a).used)
         /\ Reaches(agg, a) => IsQuorum(S)
<1>1. StakeOf(agg.used \cup {a}) = StakeOf(agg.used) + Stake[a]
  BY StakeOfAdded
<1>2. StakeOf(agg.used \cup {a}) <= StakeOf(S)
  BY StakeMonotone
<1>3. StakeOf(agg.used) \in Nat /\ StakeOf(S) \in Nat /\ Stake[a] \in Nat
      /\ QuorumThreshold \in Int
  BY UnitsFinite, CommitteeAssumption DEF QuorumThreshold, TotalStake
<1> QED
  BY <1>1, <1>2, <1>3 DEF AppendVote, Reaches, IsQuorum

\* VotesAggregator::new counts nothing.
LEMMA NothingCounted ==
  /\ EmptyVotes \in [weight : Nat, used : SUBSET Authorities]
  /\ EmptyVotes.used = {}
  /\ EmptyVotes.weight <= StakeOf(EmptyVotes.used)
<1>1. EmptyVotes.weight = 0 /\ EmptyVotes.used = {}
  BY DEF EmptyVotes
<1>2. EmptyVotes.used \in SUBSET Authorities
  BY <1>1
<1>3. StakeOf(EmptyVotes.used) \in Nat
  BY <1>2, UnitsFinite
<1> QED
  BY <1>1, <1>3 DEF EmptyVotes

\* What leaves the aggregators alone and certifies nothing new keeps QuorumInv.
LEMMA QuorumKept ==
  ASSUME QuorumInv, votes \subseteq votes',
         UNCHANGED <<certificates, currentHeader, votesAggregator>>
  PROVE  QuorumInv'
<1>1. VotesCounted'
  BY SignersGrow DEF QuorumInv, VotesCounted
<1>2. CertificatesCertified'
  BY SignersGrow DEF QuorumInv, CertificatesCertified
<1> QED
  BY <1>1, <1>2 DEF QuorumInv

LEMMA VotesGrow ==
  ASSUME NEW n, NEW h, ProcessHeader(n, h)
  PROVE  votes \subseteq votes'
  BY DEF ProcessHeader

-----------------------------------------------------------------------------
LEMMA QuorumKnown == Spec => [](VoteInv /\ QuorumInv)
<1>1. Init => VoteInv /\ QuorumInv
  <2> SUFFICES ASSUME Init PROVE VoteInv /\ QuorumInv
    OBVIOUS
  <2>1. VoteInv
    BY DEF Init, VoteInv, GcBehind, VotesRemembered, OneVoteEach
  <2>2. \A n \in Correct : votesAggregator[n] = EmptyVotes
    BY DEF Init
  <2>3. VotesCounted
    BY <2>2, NothingCounted DEF VotesCounted
  <2>4. CertificatesCertified
    BY DEF Init, CertificatesCertified
  <2> QED
    BY <2>1, <2>3, <2>4 DEF QuorumInv
<1>2. TypeOK /\ TypeOK' /\ VoteInv /\ QuorumInv /\ [Next]_vars => VoteInv' /\ QuorumInv'
  <2> SUFFICES ASSUME TypeOK, TypeOK', VoteInv, QuorumInv, [Next]_vars
               PROVE  VoteInv' /\ QuorumInv'
    OBVIOUS
  <2>1. ASSUME NEW n \in Correct, NEW h \in headers, ReceiveHeader(n, h)
        PROVE  VoteInv' /\ QuorumInv'
    <3>1. h \in Header
      BY DEF TypeOK
    <3>2. VoteInv'
      BY <2>1, <3>1, HeaderVotesKept DEF ReceiveHeader
    <3> QED
      BY <2>1, <3>2, QuorumKept, VotesGrow DEF ReceiveHeader
  <2>2. ASSUME NEW n \in Correct, NEW h \in waitingHeaders[n], ResumeHeader(n, h)
        PROVE  VoteInv' /\ QuorumInv'
    <3>1. h \in Header
      BY DEF TypeOK
    <3>2. VoteInv'
      BY <2>2, <3>1, HeaderVotesKept DEF ResumeHeader
    <3> QED
      BY <2>2, <3>2, QuorumKept, VotesGrow DEF ResumeHeader
  <2>3. ASSUME NEW n \in Correct, NEW c \in Header, ProcessCertificate(n, c)
        PROVE  VoteInv' /\ QuorumInv'
    <3> DEFINE agg == IF ~ (c \in processing[n]) /\ Rejects(n, c)
                      THEN aggregators[n] ELSE AggregatorsAfter(n, c)
    <3>1. UNCHANGED <<certificates, currentHeader, votesAggregator, consensusRound, restarted>>
      BY <2>3 DEF ProcessCertificate
    <3>2. CASE c \in processing[n]
      <4>1. votes' = votes /\ Cleanup(n, lastVoted[n], processing[n] \cup {c}, agg)
        BY <2>3, <3>2 DEF ProcessCertificate
      <4>2. lastVoted[n] \in SUBSET (Rounds \X Authorities)
        BY DEF TypeOK
      <4> HIDE DEF agg
      <4>3. VoteInv'
        BY <3>1, <4>1, <4>2, VotesKept
      <4> QED
        BY <3>1, <4>1, <4>3, QuorumKept
    <3>3. CASE c \notin processing[n]
      <4>1. ProcessHeader(n, c) /\ Cleanup(n, LastVotedAfter(n, c), processing[n] \cup {c}, agg)
        BY <2>3, <3>3 DEF ProcessCertificate
      <4> HIDE DEF agg
      <4>2. VoteInv'
        BY <3>1, <4>1, HeaderVotesKept
      <4> QED
        BY <3>1, <4>1, <4>2, QuorumKept, VotesGrow
    <3> QED
      BY <3>2, <3>3
  <2>4. ASSUME NEW n \in Correct, OwnHeader(n) PROVE VoteInv' /\ QuorumInv'
    <3>1. PICK h \in Header : h = Head(toCore[n])
      BY <2>4 DEF OwnHeader, TypeOK
    <3> DEFINE certified == MayVote(n, h) /\ Reaches(EmptyVotes, n)
               agg == IF certified THEN AggregatorsAfter(n, h) ELSE aggregators[n]
    <3>2. /\ currentHeader' = [currentHeader EXCEPT ![n] = h]
          /\ votesAggregator' = [votesAggregator EXCEPT ![n] =
               IF MayVote(n, h) THEN AppendVote(EmptyVotes, n) ELSE EmptyVotes]
          /\ ProcessHeader(n, h)
          /\ certificates' = IF certified THEN certificates \cup {h} ELSE certificates
          /\ Cleanup(n, LastVotedAfter(n, h), processing[n] \cup {h}, agg)
          /\ UNCHANGED <<consensusRound, restarted>>
      BY <2>4, <3>1 DEF OwnHeader
    <3>3. MayVote(n, h) => <<n, h>> \in votes'
      BY <3>2 DEF ProcessHeader
    <3>4. votes \subseteq votes'
      BY <3>2, VotesGrow
    <3> HIDE DEF agg
    <3>5. VoteInv'
      BY <3>2, HeaderVotesKept
    <3>6. n \in Authorities
      BY DEF Correct
    <3>7. Signers(h)' \in SUBSET Authorities /\ (MayVote(n, h) => n \in Signers(h)')
      BY <3>3, <3>6 DEF Signers
    <3>8. MayVote(n, h) => /\ AppendVote(EmptyVotes, n).used \subseteq Signers(h)'
                           /\ AppendVote(EmptyVotes, n).weight
                                <= StakeOf(AppendVote(EmptyVotes, n).used)
                           /\ Reaches(EmptyVotes, n) => IsQuorum(Signers(h)')
      <4> SUFFICES ASSUME MayVote(n, h)
                   PROVE  /\ AppendVote(EmptyVotes, n).used \subseteq Signers(h)'
                          /\ AppendVote(EmptyVotes, n).weight
                               <= StakeOf(AppendVote(EmptyVotes, n).used)
                          /\ Reaches(EmptyVotes, n) => IsQuorum(Signers(h)')
        OBVIOUS
      <4>1. n \notin EmptyVotes.used /\ EmptyVotes.used \cup {n} \subseteq Signers(h)'
        BY <3>7, NothingCounted
      <4> QED
        BY <3>6, <3>7, <4>1, NothingCounted, VoteCounted
    <3>9. VotesCounted'
      <4> SUFFICES ASSUME NEW m \in Correct
                   PROVE  (/\ votesAggregator[m].used \subseteq Signers(currentHeader[m])
                           /\ votesAggregator[m].weight <= StakeOf(votesAggregator[m].used))'
        BY DEF VotesCounted
      <4>1. CASE m = n
        <5>1. /\ currentHeader'[m] = h
              /\ votesAggregator'[m] =
                   IF MayVote(n, h) THEN AppendVote(EmptyVotes, n) ELSE EmptyVotes
          BY <4>1, <3>2 DEF TypeOK
        <5>2. CASE MayVote(n, h)
          <6>1. votesAggregator'[m] = AppendVote(EmptyVotes, n)
            BY <5>1, <5>2
          <6>2. /\ votesAggregator'[m].used \subseteq Signers(h)'
                /\ votesAggregator'[m].weight <= StakeOf(votesAggregator'[m].used)
            BY <6>1, <5>2, <3>8
          <6> QED
            BY <5>1, <6>2
        <5>3. CASE ~ MayVote(n, h)
          <6>1. votesAggregator'[m] = EmptyVotes
            BY <5>1, <5>3
          <6> QED
            BY <6>1, NothingCounted
        <5> QED
          BY <5>2, <5>3
      <4>2. CASE m # n
        <5>1. votesAggregator'[m] = votesAggregator[m] /\ currentHeader'[m] = currentHeader[m]
          BY <4>2, <3>2 DEF TypeOK
        <5> QED
          BY <5>1, <3>4, SignersGrow DEF QuorumInv, VotesCounted
      <4> QED
        BY <4>1, <4>2
    <3>10. CertificatesCertified'
      <4>1. \A c \in certificates : Certifies(c)'
        BY <3>4, SignersGrow DEF QuorumInv, CertificatesCertified
      <4>2. certified => Certifies(h)'
        BY <3>8 DEF Certifies
      <4> QED
        BY <3>2, <4>1, <4>2 DEF CertificatesCertified
    <3> QED
      BY <3>5, <3>9, <3>10 DEF QuorumInv
  <2>5. ASSUME NEW n \in Correct, NEW a \in Authorities, ReceiveVote(n, a)
        PROVE  VoteInv' /\ QuorumInv'
    <3>1. PICK h \in Header : h = currentHeader[n]
      BY <2>5 DEF ReceiveVote, TypeOK
    <3> DEFINE certified == Reaches(votesAggregator[n], a)
               refused == h \notin processing[n] /\ MayVote(n, h) /\ n \in votesAggregator[n].used
               seen == IF certified THEN processing[n] \cup {h} ELSE processing[n]
               agg == IF certified THEN AggregatorsAfter(n, h) ELSE aggregators[n]
    <3>2. /\ votesAggregator' = [votesAggregator EXCEPT ![n] = AppendVote(votesAggregator[n], a)]
          /\ certificates' = IF certified THEN certificates \cup {h} ELSE certificates
          /\ IF certified /\ refused
             THEN UNCHANGED <<gcRound, lastVoted>>
             ELSE Cleanup(n, lastVoted[n], seen, agg)
          /\ UNCHANGED <<votes, currentHeader, consensusRound, restarted>>
          /\ VoteArrives(n, a) /\ a \notin votesAggregator[n].used
      BY <2>5, <3>1 DEF ReceiveVote
    <3> HIDE DEF seen, agg, refused
    <3>3. VoteInv'
      <4>1. CASE certified /\ refused
        BY <3>2, <4>1 DEF VoteInv, GcBehind, VotesRemembered, OneVoteEach
      <4>2. CASE ~ (certified /\ refused)
        <5>1. lastVoted[n] \in SUBSET (Rounds \X Authorities)
          BY DEF TypeOK
        <5> QED
          BY <3>2, <4>2, <5>1, VotesKept
      <4> QED
        BY <4>1, <4>2
    <3>4. Signers(h)' = Signers(h) /\ Signers(h) \in SUBSET Authorities
      BY <3>2 DEF Signers
    <3>5. votesAggregator[n].used \cup {a} \subseteq Signers(h)
      BY <3>1, <3>2 DEF QuorumInv, VotesCounted, VoteArrives, Signers
    <3>6. votesAggregator[n] \in [weight : Nat, used : SUBSET Authorities]
          /\ votesAggregator[n].weight <= StakeOf(votesAggregator[n].used)
      BY DEF TypeOK, QuorumInv, VotesCounted
    <3>7. /\ AppendVote(votesAggregator[n], a).used \subseteq Signers(h)
          /\ AppendVote(votesAggregator[n], a).weight
               <= StakeOf(AppendVote(votesAggregator[n], a).used)
          /\ certified => IsQuorum(Signers(h))
      BY <3>2, <3>4, <3>5, <3>6, VoteCounted
    <3>8. VotesCounted'
      <4> SUFFICES ASSUME NEW m \in Correct
                   PROVE  (/\ votesAggregator[m].used \subseteq Signers(currentHeader[m])
                           /\ votesAggregator[m].weight <= StakeOf(votesAggregator[m].used))'
        BY DEF VotesCounted
      <4>1. CASE m = n
        <5>1. /\ votesAggregator'[m] = AppendVote(votesAggregator[n], a)
              /\ currentHeader'[m] = h
          BY <4>1, <3>1, <3>2 DEF TypeOK
        <5> QED
          BY <5>1, <3>4, <3>7
      <4>2. CASE m # n
        <5>1. votesAggregator'[m] = votesAggregator[m] /\ currentHeader'[m] = currentHeader[m]
          BY <4>2, <3>2 DEF TypeOK
        <5> QED
          BY <5>1, <3>2, SignersGrow DEF QuorumInv, VotesCounted
      <4> QED
        BY <4>1, <4>2
    <3>9. CertificatesCertified'
      <4>1. \A c \in certificates : Certifies(c)'
        BY <3>2, SignersGrow DEF QuorumInv, CertificatesCertified
      <4>2. certified => Certifies(h)'
        BY <3>4, <3>7 DEF Certifies
      <4> QED
        BY <3>2, <4>1, <4>2 DEF CertificatesCertified
    <3> QED
      BY <3>3, <3>8, <3>9 DEF QuorumInv
  <2>6. ASSUME NEW n \in Correct, RefuseMessage(n) PROVE VoteInv' /\ QuorumInv'
    <3>1. lastVoted[n] \in SUBSET (Rounds \X Authorities)
      BY DEF TypeOK
    <3>2. VoteInv'
      BY <2>6, <3>1, VotesKept DEF RefuseMessage, network, waiters
    <3> QED
      BY <2>6, <3>2, QuorumKept DEF RefuseMessage, network
  <2>7. ASSUME NEW n \in Correct, TaskStep(n) PROVE VoteInv' /\ QuorumInv'
    <3>1. UNCHANGED <<votes, certificates, currentHeader, votesAggregator, gcRound,
                      lastVoted, restarted>>
      BY <2>7 DEF TaskStep, MakeHeader, AdvanceRound, Commit, PayloadArrives, CancelHeader,
                  network, core
    <3>2. \A m \in Correct : consensusRound'[m] >= consensusRound[m]
      <4>1. CASE Commit(n)
        <5>1. PICK c \in stored[n] : /\ c.round > consensusRound[n]
                                     /\ consensusRound' = [consensusRound EXCEPT ![n] = c.round]
          BY <4>1 DEF Commit
        <5> QED
          <6>1. c.round \in Nat /\ consensusRound \in [Correct -> Nat]
            BY DEF TypeOK, Header, Rounds
          <6> QED
            BY <5>1, <6>1
      <4>2. CASE consensusRound' = consensusRound
        BY <4>2 DEF TypeOK
      <4> QED
        BY <2>7, <4>1, <4>2
           DEF TaskStep, MakeHeader, AdvanceRound, PayloadArrives, CancelHeader, waiters
    <3>3. GcBehind'
      <4>1. /\ gcRound \in [Correct -> Nat]
            /\ consensusRound \in [Correct -> Nat] /\ consensusRound' \in [Correct -> Nat]
        BY DEF TypeOK
      <4> QED
        BY <3>1, <3>2, <4>1, CertificationAssumption DEF VoteInv, GcBehind
    <3>4. VoteInv'
      BY <3>1, <3>3 DEF VoteInv, VotesRemembered, OneVoteEach
    <3> QED
      BY <3>1, <3>4, QuorumKept
  <2>8. ASSUME NEW n \in Correct, Restart(n) PROVE VoteInv' /\ QuorumInv'
    <3>1. /\ gcRound' = [gcRound EXCEPT ![n] = 0]
          /\ lastVoted' = [lastVoted EXCEPT ![n] = {}]
          /\ consensusRound' = [consensusRound EXCEPT ![n] = 0]
          /\ restarted' = restarted \cup {n}
          /\ currentHeader' = [currentHeader EXCEPT ![n] = NoHeader]
          /\ votesAggregator' = [votesAggregator EXCEPT ![n] = EmptyVotes]
          /\ UNCHANGED <<votes, certificates>>
      BY <2>8 DEF Restart, network
    <3>2. GcBehind'
      BY <3>1 DEF VoteInv, GcBehind, TypeOK
    <3>3. VotesRemembered'
      BY <3>1 DEF VoteInv, VotesRemembered, TypeOK
    <3>4. OneVoteEach'
      BY <3>1 DEF VoteInv, OneVoteEach, TypeOK
    <3>5. VotesCounted'
      <4> SUFFICES ASSUME NEW m \in Correct
                   PROVE  (/\ votesAggregator[m].used \subseteq Signers(currentHeader[m])
                           /\ votesAggregator[m].weight <= StakeOf(votesAggregator[m].used))'
        BY DEF VotesCounted
      <4>1. CASE m = n
        <5>1. votesAggregator'[m] = EmptyVotes
          BY <4>1, <3>1 DEF TypeOK
        <5> QED
          BY <5>1, NothingCounted
      <4>2. CASE m # n
        <5>1. votesAggregator'[m] = votesAggregator[m] /\ currentHeader'[m] = currentHeader[m]
          BY <4>2, <3>1 DEF TypeOK
        <5> QED
          BY <5>1, <3>1, SignersGrow DEF QuorumInv, VotesCounted
      <4> QED
        BY <4>1, <4>2
    <3>6. CertificatesCertified'
      BY <3>1, SignersGrow DEF QuorumInv, CertificatesCertified
    <3> QED
      BY <3>2, <3>3, <3>4, <3>5, <3>6 DEF VoteInv, QuorumInv
  <2>9. ASSUME NEW b \in Byzantine, ForgeHeader(b) PROVE VoteInv' /\ QuorumInv'
    <3>1. UNCHANGED <<votes, certificates, currentHeader, votesAggregator, gcRound,
                      lastVoted, restarted, consensusRound>>
      BY <2>9 DEF ForgeHeader, core, waiters
    <3>2. VoteInv'
      BY <3>1 DEF VoteInv, GcBehind, VotesRemembered, OneVoteEach
    <3> QED
      BY <3>1, <3>2, QuorumKept
  <2>10. ASSUME NEW h \in headers, CertifyForged(h) PROVE VoteInv' /\ QuorumInv'
    <3>1. /\ UNCHANGED <<votes, currentHeader, votesAggregator, gcRound,
                         lastVoted, restarted, consensusRound>>
          /\ certificates' = certificates \cup {h} /\ Certifies(h)
      BY <2>10 DEF CertifyForged, core, waiters
    <3>2. VoteInv'
      BY <3>1 DEF VoteInv, GcBehind, VotesRemembered, OneVoteEach
    <3>3. VotesCounted'
      BY <3>1, SignersGrow DEF QuorumInv, VotesCounted
    <3>4. CertificatesCertified'
      BY <3>1, SignersGrow DEF QuorumInv, CertificatesCertified
    <3> QED
      BY <3>2, <3>3, <3>4 DEF QuorumInv
  <2>11. CASE UNCHANGED vars
    <3>1. UNCHANGED <<votes, certificates, currentHeader, votesAggregator, gcRound,
                      lastVoted, restarted, consensusRound>>
      BY <2>11 DEF vars, network, core, waiters
    <3>2. VoteInv'
      BY <3>1 DEF VoteInv, GcBehind, VotesRemembered, OneVoteEach
    <3> QED
      BY <3>1, <3>2, QuorumKept
  <2>12. ASSUME NEW n \in Correct, CoreStep(n) PROVE VoteInv' /\ QuorumInv'
    <3>1. certificates \subseteq Header /\ waitingCertificates[n] \subseteq Header
      BY DEF TypeOK
    <3> QED
      BY <2>1, <2>2, <2>3, <2>4, <2>5, <2>6, <2>12, <3>1
         DEF CoreStep, ReceiveCertificate, ResumeCertificate
  <2> QED
    BY <2>7, <2>8, <2>9, <2>10, <2>11, <2>12 DEF Next, ByzantineStep
<1> QED
  BY <1>1, <1>2, TypeCorrect, PTL DEF Spec

\* One certificate for each author and round, as long as the authorities that
\* may have forgotten their votes of the round hold no more than f of stake:
\* what Tusk and the check of a header's parents rest on.
THEOREM UniqueCertificates == Spec => []CertificateUniqueness
<1>1. TypeOK /\ VoteInv /\ QuorumInv => CertificateUniqueness
  <2> SUFFICES ASSUME TypeOK, VoteInv, QuorumInv, NEW c \in certificates, NEW d \in certificates,
                      Slot(c) = Slot(d), StakeOf(Forgetful(c.round)) < ValidityThreshold
               PROVE  c = d
    BY DEF CertificateUniqueness
  <2>1. /\ Signers(c) \in SUBSET Authorities /\ Signers(d) \in SUBSET Authorities
        /\ Forgetful(c.round) \in SUBSET Authorities
    BY CertificationAssumption DEF Signers, Forgetful, TypeOK, Correct
  <2>2. StakeOf(Signers(c) \cap Signers(d)) >= ValidityThreshold
    BY <2>1, QuorumIntersection DEF QuorumInv, CertificatesCertified, Certifies
  <2>3. PICK a \in Signers(c) \cap Signers(d) : a \notin Forgetful(c.round)
    <3> SUFFICES ASSUME Signers(c) \cap Signers(d) \subseteq Forgetful(c.round) PROVE FALSE
      OBVIOUS
    <3>1. StakeOf(Signers(c) \cap Signers(d)) <= StakeOf(Forgetful(c.round))
      BY <2>1, StakeMonotone
    <3>2. /\ StakeOf(Signers(c) \cap Signers(d)) \in Nat
          /\ StakeOf(Forgetful(c.round)) \in Nat
          /\ ValidityThreshold \in Int
      BY <2>1, UnitsFinite DEF ValidityThreshold, TotalStake
    <3> QED
      BY <2>2, <3>1, <3>2
  <2>4. /\ a \in Correct \ restarted /\ <<a, c>> \in votes /\ <<a, d>> \in votes
        /\ ~ (c.round < gcRound[a])
    BY <2>1, <2>3 DEF Signers, Forgetful, Correct
  <2>5. c \in Header /\ d \in Header /\ c.round = d.round
    BY DEF TypeOK, Slot
  <2> QED
    BY <2>4, <2>5 DEF VoteInv, OneVoteEach
<1> QED
  BY <1>1, QuorumKnown, TypeCorrect, PTL

-----------------------------------------------------------------------------
(* NoEquivocation.  The rounds of the headers an authority has broadcast,  *)
(* of those on their way from its Proposer to Core and of the one the      *)
(* Proposer may make next are in this order.                               *)

\* The headers on their way to Core, the last of them not past the Proposer, whose
\* parents are taken once it is there.
Queued(n) ==
  \A i \in DOMAIN toCore[n] :
    /\ toCore[n][i].author = n
    /\ toCore[n][i].round <= proposer[n].round
    /\ proposer[n].lastParents # {} => toCore[n][i].round < proposer[n].round
    /\ \A j \in DOMAIN toCore[n] : i < j => toCore[n][i].round < toCore[n][j].round

\* The headers broadcast are of earlier rounds.
Broadcast(n) ==
  \A h \in headers : h.author = n =>
    /\ h.round <= proposer[n].round
    /\ proposer[n].lastParents # {} => h.round < proposer[n].round
    /\ \A i \in DOMAIN toCore[n] : h.round < toCore[n][i].round

OneEach(n) ==
  \A g, h \in headers : g.author = n /\ h.author = n /\ g.round = h.round => g = h

\* The headers on their way to any Core, restarted or not, are its own.
OwnHeaders == \A n \in Correct : \A i \in DOMAIN toCore[n] : toCore[n][i].author = n

RoundsInOrder == \A n \in Correct \ restarted : Queued(n) /\ Broadcast(n) /\ OneEach(n)

LEMMA RoundOfHeader == \A h \in Header : h.round \in Nat
  BY DEF Header, Rounds

LEMMA RoundsQueued ==
  ASSUME TypeOK, NEW n \in Correct
  PROVE  /\ toCore[n] \in Seq(Header) /\ Len(toCore[n]) \in Nat
         /\ DOMAIN toCore[n] = 1 .. Len(toCore[n])
         /\ \A i \in 1 .. Len(toCore[n]) : toCore[n][i].round \in Nat
         /\ \A h \in headers : h.round \in Nat
         /\ proposer[n].round \in Nat
<1>1. toCore[n] \in Seq(Header)
  BY DEF TypeOK
<1>2. \A i \in 1 .. Len(toCore[n]) : toCore[n][i] \in Header
  BY <1>1
<1>3. headers \subseteq Header /\ proposer[n].round \in Nat
  BY DEF TypeOK
<1> QED
  BY <1>1, <1>2, <1>3, RoundOfHeader

LEMMA InOrderAtFirst == Init => RoundsInOrder
<1> SUFFICES ASSUME Init, NEW n \in Correct PROVE Queued(n) /\ Broadcast(n) /\ OneEach(n)
  BY DEF RoundsInOrder
<1>1. headers = {} /\ DOMAIN toCore[n] = {}
  BY DEF Init
<1> QED
  BY <1>1 DEF Queued, Broadcast, OneEach

\* What does not touch the Proposer, its channel or the headers keeps the order.
LEMMA InOrderUntouched ==
  ASSUME RoundsInOrder, NEW n \in Correct \ restarted,
         proposer'[n] = proposer[n], toCore'[n] = toCore[n],
         \A h \in headers' \ headers : h.author # n
  PROVE  Queued(n)' /\ Broadcast(n)' /\ OneEach(n)'
<1>1. Queued(n) /\ Broadcast(n) /\ OneEach(n)
  BY DEF RoundsInOrder
<1>2. Queued(n)'
  BY <1>1 DEF Queued
<1>3. Broadcast(n)'
  BY <1>1 DEF Broadcast
<1>4. OneEach(n)'
  BY <1>1 DEF OneEach
<1> QED
  BY <1>2, <1>3, <1>4

\* The Proposer makes a header of its round, and can make no other of it.
LEMMA InOrderMake ==
  ASSUME TypeOK, RoundsInOrder, NEW n \in Correct \ restarted, MakeHeader(n)
  PROVE  Queued(n)' /\ Broadcast(n)' /\ OneEach(n)'
<1>1. Queued(n) /\ Broadcast(n) /\ OneEach(n)
  BY DEF RoundsInOrder
<1> DEFINE h == NewHeader(n)
           len == Len(toCore[n])
<1>2. /\ toCore[n] \in Seq(Header) /\ len \in Nat
      /\ proposer[n].round \in Nat /\ h.author = n /\ h.round = proposer[n].round
  BY DEF TypeOK, NewHeader
<1>3. /\ toCore'[n] = Append(toCore[n], h) /\ headers' = headers
      /\ proposer'[n].round = proposer[n].round /\ proposer'[n].lastParents = {}
      /\ proposer[n].lastParents # {}
  BY DEF MakeHeader, TypeOK, network
<1> HIDE DEF h
<1>4. /\ DOMAIN toCore[n] = 1 .. len /\ DOMAIN toCore'[n] = 1 .. len + 1
      /\ toCore'[n][len + 1] = h
      /\ \A i \in 1 .. len : toCore'[n][i] = toCore[n][i]
  BY <1>2, <1>3
<1>5. \A i \in 1 .. len : /\ toCore[n][i].author = n
                          /\ toCore[n][i].round < proposer[n].round
                          /\ toCore[n][i].round \in Nat
  <2>1. \A i \in 1 .. len : toCore[n][i].round \in Nat
    BY RoundsQueued
  <2> QED
    BY <1>1, <1>3, <1>4, <2>1 DEF Queued
<1>6. Queued(n)'
  <2>1. \A i \in 1 .. len + 1 : toCore'[n][i].author = n /\ toCore'[n][i].round <= proposer'[n].round
    BY <1>2, <1>3, <1>4, <1>5
  <2>2. \A i, j \in 1 .. len + 1 : i < j => toCore'[n][i].round < toCore'[n][j].round
    <3> SUFFICES ASSUME NEW i \in 1 .. len + 1, NEW j \in 1 .. len + 1, i < j
                 PROVE  toCore'[n][i].round < toCore'[n][j].round
      OBVIOUS
    <3>1. CASE j = len + 1
      BY <3>1, <1>2, <1>4, <1>5
    <3>2. CASE j # len + 1
      <4>1. i \in 1 .. len /\ j \in 1 .. len
        BY <3>2, <1>2
      <4>2. toCore[n][i].round < toCore[n][j].round
        BY <4>1, <1>1, <1>4 DEF Queued
      <4> QED
        BY <4>1, <4>2, <1>4
    <3> QED
      BY <3>1, <3>2
  <2> QED
    BY <2>1, <2>2, <1>3, <1>4 DEF Queued
<1>7. Broadcast(n)'
  <2> SUFFICES ASSUME NEW g \in headers, g.author = n
               PROVE  /\ g.round <= proposer[n].round
                      /\ \A i \in 1 .. len + 1 : g.round < toCore'[n][i].round
    BY <1>3, <1>4 DEF Broadcast
  <2>1. g.round < proposer[n].round /\ g.round \in Nat
    BY <1>1, <1>3, RoundsQueued DEF Broadcast
  <2>2. \A i \in 1 .. len : g.round < toCore[n][i].round
    BY <1>1, <1>4 DEF Broadcast
  <2> QED
    BY <2>1, <2>2, <1>2, <1>4
<1>8. OneEach(n)'
  BY <1>1, <1>3 DEF OneEach
<1> QED
  BY <1>6, <1>7, <1>8

\* The Proposer moves to a later round.
LEMMA InOrderAdvance ==
  ASSUME TypeOK, RoundsInOrder, NEW n \in Correct \ restarted, AdvanceRound(n)
  PROVE  Queued(n)' /\ Broadcast(n)' /\ OneEach(n)'
<1>1. Queued(n) /\ Broadcast(n) /\ OneEach(n)
  BY DEF RoundsInOrder
<1> DEFINE next == Head(toProposer[n])
<1>2. headers' = headers /\ toCore' = toCore
  BY DEF AdvanceRound, network
<1>3. proposer[n].round \in Nat /\ next.round \in Nat
  <2>1. /\ toProposer[n] \in Seq([parents : SUBSET DigestOf, round : Rounds])
        /\ toProposer[n] # << >>
    BY DEF TypeOK, AdvanceRound
  <2>2. next = toProposer[n][1] /\ 1 \in 1 .. Len(toProposer[n])
    BY <2>1
  <2>3. next \in [parents : SUBSET DigestOf, round : Rounds]
    <3> DEFINE Sent == [parents : SUBSET DigestOf, round : Rounds]
               sent == toProposer[n]
    <3>1. sent \in Seq(Sent) /\ next = sent[1] /\ 1 \in 1 .. Len(sent)
      BY <2>1, <2>2
    <3> HIDE DEF Sent, sent, next
    <3>2. next \in Sent
      BY <3>1
    <3> QED
      BY <3>2 DEF Sent
  <2>4. next.round \in Rounds
    <3> HIDE DEF next
    <3> QED
      BY <2>3
  <2> QED
    BY <2>4, RoundsQueued DEF Rounds
<1>4. \/ proposer' = proposer
      \/ proposer'[n].round = next.round + 1 /\ proposer[n].round <= next.round
  BY <1>3 DEF AdvanceRound, TypeOK
<1> HIDE DEF next
<1>5. CASE proposer' = proposer
  BY <1>5, <1>2, InOrderUntouched
<1>6. CASE proposer'[n].round = next.round + 1 /\ proposer[n].round <= next.round
  <2>1. /\ \A i \in DOMAIN toCore[n] : toCore[n][i].round \in Nat
        /\ \A h \in headers : h.round \in Nat
    BY RoundsQueued
  <2>2. Queued(n)'
    BY <1>1, <1>2, <1>3, <1>6, <2>1 DEF Queued
  <2>3. Broadcast(n)'
    BY <1>1, <1>2, <1>3, <1>6, <2>1 DEF Broadcast
  <2>4. OneEach(n)'
    BY <1>1, <1>2 DEF OneEach
  <2> QED
    BY <2>2, <2>3, <2>4
<1> QED
  BY <1>4, <1>5, <1>6

\* Core broadcasts the first header on its way: none of its round has been before.
LEMMA InOrderOwn ==
  ASSUME TypeOK, RoundsInOrder, NEW n \in Correct \ restarted, OwnHeader(n)
  PROVE  Queued(n)' /\ Broadcast(n)' /\ OneEach(n)'
<1>1. Queued(n) /\ Broadcast(n) /\ OneEach(n)
  BY DEF RoundsInOrder
<1> DEFINE h == Head(toCore[n])
           len == Len(toCore[n])
<1>2. /\ headers' = headers \cup {h} /\ proposer' = proposer
      /\ toCore[n] # << >> /\ toCore' = [toCore EXCEPT ![n] = Tail(toCore[n])]
  BY DEF OwnHeader
<1>3. /\ toCore[n] \in Seq(Header) /\ len \in Nat \ {0}
      /\ DOMAIN toCore[n] = 1 .. len /\ h = toCore[n][1]
      /\ toCore'[n] = Tail(toCore[n])
  BY <1>2 DEF TypeOK
<1>4. /\ DOMAIN toCore'[n] = 1 .. len - 1
      /\ \A i \in 1 .. len - 1 : i + 1 \in 1 .. len /\ toCore'[n][i] = toCore[n][i + 1]
  BY <1>3
<1>5. /\ \A i \in 1 .. len : toCore[n][i].round \in Nat
      /\ \A g \in headers : g.round \in Nat
      /\ proposer[n].round \in Nat
  BY RoundsQueued
<1> HIDE DEF h
<1>6. Queued(n)'
  <2> SUFFICES ASSUME NEW i \in 1 .. len - 1
               PROVE  /\ toCore'[n][i].author = n
                      /\ toCore'[n][i].round <= proposer[n].round
                      /\ proposer[n].lastParents # {} => toCore'[n][i].round < proposer[n].round
                      /\ \A j \in 1 .. len - 1 : i < j => toCore'[n][i].round < toCore'[n][j].round
    BY <1>2, <1>4 DEF Queued
  <2>1. i + 1 \in 1 .. len /\ toCore'[n][i] = toCore[n][i + 1]
    BY <1>4
  <2>2. \A j \in 1 .. len - 1 : i < j => toCore'[n][i].round < toCore'[n][j].round
    <3> SUFFICES ASSUME NEW j \in 1 .. len - 1, i < j
                 PROVE  toCore[n][i + 1].round < toCore[n][j + 1].round
      BY <1>4
    <3>1. i + 1 \in 1 .. len /\ j + 1 \in 1 .. len /\ i + 1 < j + 1
      BY <1>3
    <3> QED
      BY <3>1, <1>1, <1>3 DEF Queued
  <2> QED
    BY <2>1, <2>2, <1>1, <1>3 DEF Queued
<1>7. /\ h.author = n /\ h.round \in Nat /\ h.round <= proposer[n].round
      /\ proposer[n].lastParents # {} => h.round < proposer[n].round
      /\ \A i \in 1 .. len - 1 : h.round < toCore'[n][i].round
      /\ \A g \in headers : g.author = n => g.round < h.round
  <2>1. 1 \in 1 .. len
    BY <1>3
  <2>2. \A i \in 1 .. len - 1 : toCore[n][1].round < toCore[n][i + 1].round
    <3> SUFFICES ASSUME NEW i \in 1 .. len - 1 PROVE toCore[n][1].round < toCore[n][i + 1].round
      OBVIOUS
    <3>1. i + 1 \in 1 .. len /\ 1 < i + 1
      BY <1>3
    <3> QED
      BY <2>1, <3>1, <1>1, <1>3 DEF Queued
  <2>3. \A g \in headers : g.author = n => g.round < toCore[n][1].round
    BY <2>1, <1>1, <1>3 DEF Broadcast
  <2> QED
    BY <2>1, <2>2, <2>3, <1>1, <1>3, <1>4, <1>5 DEF Queued
<1>8. Broadcast(n)'
  <2> SUFFICES ASSUME NEW g \in headers \cup {h}, g.author = n
               PROVE  /\ g.round <= proposer[n].round
                      /\ proposer[n].lastParents # {} => g.round < proposer[n].round
                      /\ \A i \in 1 .. len - 1 : g.round < toCore'[n][i].round
    BY <1>2, <1>4 DEF Broadcast
  <2>1. CASE g = h
    BY <2>1, <1>7
  <2>2. CASE g \in headers
    <3> SUFFICES ASSUME NEW i \in 1 .. len - 1 PROVE g.round < toCore[n][i + 1].round
      BY <2>2, <1>1, <1>4 DEF Broadcast
    <3> QED
      BY <2>2, <1>1, <1>3, <1>4 DEF Broadcast
  <2> QED
    BY <2>1, <2>2
<1>9. OneEach(n)'
  <2> SUFFICES ASSUME NEW f \in headers \cup {h}, NEW g \in headers \cup {h},
                      f.author = n, g.author = n, f.round = g.round
               PROVE  f = g
    BY <1>2 DEF OneEach
  <2>1. CASE f \in headers /\ g \in headers
    BY <2>1, <1>1 DEF OneEach
  <2>2. CASE f = h \/ g = h
    BY <2>2, <1>5, <1>7
  <2> QED
    BY <2>1, <2>2
<1> QED
  BY <1>6, <1>8, <1>9

\* What a step may do to the headers and to the Proposer.
LEMMA StepFrame ==
  ASSUME [Next]_vars
  PROVE  /\ restarted \subseteq restarted'
         /\ \/ UNCHANGED <<headers, proposer, toCore>>
            \/ \E m \in Correct : OwnHeader(m)
            \/ \E m \in Correct : MakeHeader(m)
            \/ \E m \in Correct : AdvanceRound(m)
            \/ \E m \in Correct : Restart(m)
            \/ \E b \in Byzantine : ForgeHeader(b)
<1> DEFINE quiet == UNCHANGED <<headers, proposer, toCore, restarted>>
<1>1. ASSUME NEW m \in Correct, CoreStep(m) PROVE quiet \/ OwnHeader(m)
  <2>1. ASSUME NEW h, ReceiveHeader(m, h) PROVE quiet
    BY <2>1 DEF ReceiveHeader, channels
  <2>2. ASSUME NEW h, ResumeHeader(m, h) PROVE quiet
    BY <2>2 DEF ResumeHeader, channels
  <2>3. ASSUME NEW c, ProcessCertificate(m, c) PROVE quiet
    BY <2>3 DEF ProcessCertificate
  <2>4. ASSUME NEW a, ReceiveVote(m, a) PROVE quiet
    BY <2>4 DEF ReceiveVote
  <2>5. ASSUME RefuseMessage(m) PROVE quiet
    BY <2>5 DEF RefuseMessage, network, channels
  <2> HIDE DEF quiet
  <2> QED
    BY <1>1, <2>1, <2>2, <2>3, <2>4, <2>5 DEF CoreStep, ReceiveCertificate, ResumeCertificate
<1>2. ASSUME NEW m \in Correct, TaskStep(m) PROVE quiet \/ MakeHeader(m) \/ AdvanceRound(m)
  <2>1. ASSUME Commit(m) PROVE quiet
    BY <2>1 DEF Commit, network, channels
  <2>2. ASSUME NEW p, PayloadArrives(m, p) PROVE quiet
    BY <2>2 DEF PayloadArrives, network, channels
  <2>3. ASSUME NEW h, CancelHeader(m, h) PROVE quiet
    BY <2>3 DEF CancelHeader, network, channels
  <2> HIDE DEF quiet
  <2> QED
    BY <1>2, <2>1, <2>2, <2>3 DEF TaskStep
<1>3. ASSUME NEW h, CertifyForged(h) PROVE quiet
  BY <1>3 DEF CertifyForged, channels
<1>4. ASSUME UNCHANGED vars PROVE quiet
  BY <1>4 DEF vars, network, channels
<1>5. ASSUME NEW m \in Correct, OwnHeader(m) \/ MakeHeader(m) \/ AdvanceRound(m)
      PROVE  restarted' = restarted
  BY <1>5 DEF OwnHeader, MakeHeader, AdvanceRound
<1>6. ASSUME NEW m \in Correct, Restart(m) PROVE restarted \subseteq restarted'
  BY <1>6 DEF Restart
<1>7. ASSUME NEW b, ForgeHeader(b) PROVE restarted' = restarted
  BY <1>7 DEF ForgeHeader
<1>8. \/ \E m \in Correct : CoreStep(m) \/ TaskStep(m) \/ Restart(m)
      \/ \E b \in Byzantine : ForgeHeader(b)
      \/ \E h \in headers : CertifyForged(h)
      \/ UNCHANGED vars
  BY DEF Next, ByzantineStep
<1>9. quiet => restarted' = restarted /\ UNCHANGED <<headers, proposer, toCore>>
  OBVIOUS
<1> HIDE DEF quiet
<1> QED
  BY <1>1, <1>2, <1>3, <1>4, <1>5, <1>6, <1>7, <1>8, <1>9

\* Only the Proposer of an authority sends to its Core.
LEMMA OwnHeadersStep == TypeOK /\ OwnHeaders /\ [Next]_vars => OwnHeaders'
<1> SUFFICES ASSUME TypeOK, OwnHeaders, [Next]_vars, NEW n \in Correct,
                    NEW i \in DOMAIN toCore'[n]
             PROVE  toCore'[n][i].author = n
  BY DEF OwnHeaders
<1>1. toCore[n] \in Seq(Header) /\ toCore \in [Correct -> Seq(Header)]
  BY DEF TypeOK
<1>2. CASE toCore' = toCore
  BY <1>2 DEF OwnHeaders
<1>3. ASSUME NEW m \in Correct, toCore[m] # << >>,
             toCore' = [toCore EXCEPT ![m] = Tail(toCore[m])]
      PROVE  toCore'[n][i].author = n
  <2>1. CASE m # n
    BY <1>1, <1>3, <2>1 DEF OwnHeaders
  <2>2. CASE m = n
    <3>1. toCore'[n] = Tail(toCore[n]) /\ Len(toCore[n]) \in Nat \ {0}
      BY <1>1, <1>3, <2>2
    <3>2. i + 1 \in DOMAIN toCore[n] /\ toCore'[n][i] = toCore[n][i + 1]
      BY <1>1, <3>1
    <3> QED
      BY <3>2 DEF OwnHeaders
  <2> QED
    BY <2>1, <2>2
<1>4. ASSUME NEW m \in Correct, toCore' = [toCore EXCEPT ![m] = Append(toCore[m], NewHeader(m))]
      PROVE  toCore'[n][i].author = n
  <2>1. CASE m # n
    BY <1>1, <1>4, <2>1 DEF OwnHeaders
  <2>2. CASE m = n
    <3> DEFINE h == NewHeader(n)
    <3>1. h.author = n
      BY DEF NewHeader
    <3> HIDE DEF h
    <3>2. toCore'[n] = Append(toCore[n], h)
      BY <1>1, <1>4, <2>2 DEF h
    <3>3. toCore'[n][i] = h \/ (i \in DOMAIN toCore[n] /\ toCore'[n][i] = toCore[n][i])
      BY <1>1, <3>2
    <3> QED
      BY <3>1, <3>3 DEF OwnHeaders
  <2> QED
    BY <2>1, <2>2
<1>5. ASSUME NEW m \in Correct, toCore' = [toCore EXCEPT ![m] = << >>]
      PROVE  toCore'[n][i].author = n
  <2>1. CASE m # n
    BY <1>1, <1>5, <2>1 DEF OwnHeaders
  <2>2. CASE m = n
    BY <1>1, <1>5, <2>2
  <2> QED
    BY <2>1, <2>2
<1>6. ASSUME NEW m \in Correct, AdvanceRound(m) PROVE toCore' = toCore
  BY <1>6 DEF AdvanceRound
<1>7. ASSUME NEW b, ForgeHeader(b) PROVE toCore' = toCore
  BY <1>7 DEF ForgeHeader, channels
<1>8. ASSUME NEW m \in Correct, OwnHeader(m)
      PROVE  toCore[m] # << >> /\ toCore' = [toCore EXCEPT ![m] = Tail(toCore[m])]
  BY <1>8 DEF OwnHeader
<1>9. ASSUME NEW m \in Correct, MakeHeader(m)
      PROVE  toCore' = [toCore EXCEPT ![m] = Append(toCore[m], NewHeader(m))]
  BY <1>9 DEF MakeHeader
<1>10. ASSUME NEW m \in Correct, Restart(m) PROVE toCore' = [toCore EXCEPT ![m] = << >>]
  BY <1>10 DEF Restart
<1> QED
  BY <1>2, <1>3, <1>4, <1>5, <1>6, <1>7, <1>8, <1>9, <1>10, StepFrame

\* A correct authority that has not restarted never broadcasts two headers for one
\* round (Proposer::run and make_header, Core::process_own_header).
THEOREM OneHeaderEach == Spec => []NoEquivocation
<1>1. TypeOK /\ OwnHeaders /\ RoundsInOrder /\ [Next]_vars => RoundsInOrder'
  <2> SUFFICES ASSUME TypeOK, OwnHeaders, RoundsInOrder, [Next]_vars, NEW n \in Correct \ restarted'
               PROVE  Queued(n)' /\ Broadcast(n)' /\ OneEach(n)'
    BY DEF RoundsInOrder
  <2>1. n \in Correct \ restarted
    BY StepFrame
  <2>2. CASE UNCHANGED <<headers, proposer, toCore>>
    BY <2>1, <2>2, InOrderUntouched
  <2>3. CASE \E m \in Correct : OwnHeader(m)
    <3>1. PICK m \in Correct : OwnHeader(m)
      BY <2>3
    <3>2. CASE m = n
      BY <2>1, <3>1, <3>2, InOrderOwn
    <3>3. CASE m # n
      <4>1. /\ proposer' = proposer /\ toCore[m] # << >>
            /\ toCore' = [toCore EXCEPT ![m] = Tail(toCore[m])]
            /\ headers' = headers \cup {Head(toCore[m])}
        BY <3>1 DEF OwnHeader
      <4>2. toCore[m] \in Seq(Header) /\ toCore'[n] = toCore[n]
        BY <2>1, <3>3, <4>1 DEF TypeOK
      <4>3. Head(toCore[m]) = toCore[m][1] /\ 1 \in DOMAIN toCore[m]
        BY <4>1, <4>2
      <4>4. Head(toCore[m]).author = m
        BY <4>3 DEF OwnHeaders
      <4>5. \A h \in headers' \ headers : h.author # n
        BY <3>3, <4>1, <4>4
      <4> QED
        BY <2>1, <4>1, <4>2, <4>5, InOrderUntouched
    <3> QED
      BY <3>2, <3>3
  <2>4. CASE \E m \in Correct : MakeHeader(m)
    <3>1. PICK m \in Correct : MakeHeader(m)
      BY <2>4
    <3>2. CASE m = n
      BY <2>1, <3>1, <3>2, InOrderMake
    <3>3. CASE m # n
      <4>1. proposer'[n] = proposer[n] /\ toCore'[n] = toCore[n] /\ headers' = headers
        BY <3>1, <3>3 DEF MakeHeader, network, TypeOK
      <4> QED
        BY <2>1, <4>1, InOrderUntouched
    <3> QED
      BY <3>2, <3>3
  <2>5. CASE \E m \in Correct : AdvanceRound(m)
    <3>1. PICK m \in Correct : AdvanceRound(m)
      BY <2>5
    <3>2. CASE m = n
      BY <2>1, <3>1, <3>2, InOrderAdvance
    <3>3. CASE m # n
      <4>1. proposer'[n] = proposer[n] /\ toCore'[n] = toCore[n] /\ headers' = headers
        BY <3>1, <3>3 DEF AdvanceRound, network, TypeOK
      <4> QED
        BY <2>1, <4>1, InOrderUntouched
    <3> QED
      BY <3>2, <3>3
  <2>6. CASE \E m \in Correct : Restart(m)
    <3>1. PICK m \in Correct : Restart(m)
      BY <2>6
    <3>2. m # n
      BY <3>1 DEF Restart
    <3>3. proposer'[n] = proposer[n] /\ toCore'[n] = toCore[n] /\ headers' = headers
      BY <3>1, <3>2 DEF Restart, network, TypeOK
    <3> QED
      BY <2>1, <3>3, InOrderUntouched
  <2>7. CASE \E b \in Byzantine : ForgeHeader(b)
    <3>1. PICK b \in Byzantine : ForgeHeader(b)
      BY <2>7
    <3>2. proposer' = proposer /\ toCore' = toCore /\ b # n
      BY <3>1 DEF ForgeHeader, channels, Correct
    <3>3. \A h \in headers' \ headers : h.author = b
      BY <3>1 DEF ForgeHeader
    <3> QED
      BY <2>1, <3>2, <3>3, InOrderUntouched
  <2> QED
    BY <2>2, <2>3, <2>4, <2>5, <2>6, <2>7, StepFrame
<1>2. RoundsInOrder => NoEquivocation
  <2> SUFFICES ASSUME RoundsInOrder, NEW h \in headers, NEW i \in headers,
                      Slot(h) = Slot(i), h.author \in Correct \ restarted
               PROVE  h = i
    BY DEF NoEquivocation
  <2>1. h.author = i.author /\ h.round = i.round
    BY DEF Slot
  <2> QED
    BY <2>1 DEF RoundsInOrder, OneEach
<1>3. Init => OwnHeaders
  BY DEF Init, OwnHeaders
<1> QED
  BY <1>1, <1>2, <1>3, OwnHeadersStep, InOrderAtFirst, TypeCorrect, PTL DEF Spec

-----------------------------------------------------------------------------
(* CertifiedAvailable and ParentsReady.  A correct authority votes for     *)
(* what it has, and it forgets neither a certificate nor a batch; a quorum *)
(* without the Byzantine authorities is then a validity threshold of those *)
(* that have everything.                                                   *)

----------------------------------------------------------------------------
(* CertifiedAvailable *)

\* The headers that Core of n has, or may get from n's own tasks.
InHand(n) ==
  {toCore[n][i] : i \in DOMAIN toCore[n]} \cup waitingHeaders[n]
    \cup waitingCertificates[n] \cup {currentHeader[n]}

\* A correct authority counts the accounts of its own headers right.
OwnSound == \A n \in Correct : \A h \in InHand(n) : h.author = n => h.sound

\* Who votes for a header has all it refers to, and goes on having it.
VotesInformed ==
  \A n \in Correct : \A h \in Header :
    <<n, h>> \in votes => HasParents(n, h) /\ HasPayload(n, h) /\ h.sound

\* What a step may add to the votes of n and to the headers in its hands.
Frame(n) ==
  /\ stored[n] \subseteq stored'[n] /\ payloads[n] \subseteq payloads'[n]
  /\ \A h : <<n, h>> \in votes' =>
       \/ <<n, h>> \in votes
       \/ Accepts(n, h) /\ (h \in InHand(n) \/ h.author # n)
  /\ \A h : h \in InHand(n)' => h \in InHand(n) \/ h.author # n \/ h.sound

\* A turn about a header that Core has, or that another authority has made.
LEMMA FrameTurn ==
  ASSUME NEW n, NEW h, h \in InHand(n) \/ h.author # n,
         stored[n] \subseteq stored'[n], payloads[n] \subseteq payloads'[n],
         \A g : <<n, g>> \in votes' => <<n, g>> \in votes \/ (g = h /\ Accepts(n, h)),
         waitingHeaders'[n] \subseteq waitingHeaders[n] \cup {h},
         waitingCertificates'[n] \subseteq waitingCertificates[n] \cup {h},
         \A i \in DOMAIN toCore'[n] : \E j \in DOMAIN toCore[n] : toCore'[n][i] = toCore[n][j],
         currentHeader'[n] = currentHeader[n] \/ currentHeader'[n] = h
  PROVE  Frame(n)
<1>1. \A g : g \in InHand(n)' => g \in InHand(n) \/ g = h
  BY DEF InHand
<1> QED
  BY <1>1 DEF Frame

\* A step that leaves n's part of the state alone.
LEMMA FrameElsewhere ==
  ASSUME NEW n, stored[n] \subseteq stored'[n], payloads[n] \subseteq payloads'[n],
         \A g : <<n, g>> \in votes' => <<n, g>> \in votes,
         waitingHeaders'[n] \subseteq waitingHeaders[n],
         waitingCertificates'[n] \subseteq waitingCertificates[n],
         toCore'[n] = toCore[n], currentHeader'[n] = currentHeader[n]
  PROVE  Frame(n)
<1>1. \A g : g \in InHand(n)' => g \in InHand(n)
  BY DEF InHand
<1> QED
  BY <1>1 DEF Frame

LEMMA HeaderEffect ==
  ASSUME TypeOK, NEW m \in Correct, NEW h, ProcessHeader(m, h), NEW n \in Correct
  PROVE  /\ \A g : <<n, g>> \in votes' => \/ <<n, g>> \in votes
                                          \/ n = m /\ g = h /\ Accepts(n, h)
         /\ waitingHeaders'[n] \subseteq waitingHeaders[n] \cup (IF n = m THEN {h} ELSE {})
<1>1. \A g : <<n, g>> \in votes' => <<n, g>> \in votes \/ (n = m /\ g = h /\ Accepts(n, h))
  BY DEF ProcessHeader, MayVote
<1>2. waitingHeaders'[n] \subseteq waitingHeaders[n] \cup (IF n = m THEN {h} ELSE {})
  BY DEF ProcessHeader, TypeOK
<1> QED
  BY <1>1, <1>2

LEMMA DeliveryEffect ==
  ASSUME TypeOK, NEW m \in Correct, NEW c,
         \/ DeliverCertificate(m, c)
         \/ UNCHANGED <<stored, waitingCertificates>>
         \/ /\ waitingCertificates' = [waitingCertificates EXCEPT ![m] = @ \ {c}]
            /\ UNCHANGED stored,
         NEW n \in Correct
  PROVE  /\ stored[n] \subseteq stored'[n]
         /\ waitingCertificates'[n] \subseteq waitingCertificates[n]
                                                \cup (IF n = m THEN {c} ELSE {})
  BY DEF DeliverCertificate, TypeOK

LEMMA TurnFrame ==
  ASSUME TypeOK, [Next]_vars, NEW m \in Correct, CoreStep(m), NEW n \in Correct
  PROVE  Frame(n)
<1>1. ASSUME NEW h \in headers, ReceiveHeader(m, h) PROVE Frame(n)
  <2>1. /\ ProcessHeader(m, h) /\ h.author # m
        /\ UNCHANGED <<stored, payloads, waitingCertificates, toCore, currentHeader>>
    BY <1>1 DEF ReceiveHeader, channels, disk
  <2>2. CASE n = m
    BY <2>1, <2>2, HeaderEffect, FrameTurn
  <2>3. CASE n # m
    BY <2>1, <2>3, HeaderEffect, FrameElsewhere
  <2> QED
    BY <2>2, <2>3
<1>2. ASSUME NEW h \in waitingHeaders[m], ResumeHeader(m, h) PROVE Frame(n)
  <2>1. /\ ProcessHeader(m, h) /\ h \in InHand(m)
        /\ UNCHANGED <<stored, payloads, waitingCertificates, toCore, currentHeader>>
    BY <1>2 DEF ResumeHeader, channels, disk, InHand
  <2>2. CASE n = m
    BY <2>1, <2>2, HeaderEffect, FrameTurn
  <2>3. CASE n # m
    BY <2>1, <2>3, HeaderEffect, FrameElsewhere
  <2> QED
    BY <2>2, <2>3
<1>3. ASSUME NEW c, ProcessCertificate(m, c), c \in InHand(m) \/ c.author # m PROVE Frame(n)
  <2>1. UNCHANGED <<payloads, toCore, currentHeader>>
    BY <1>3 DEF ProcessCertificate
  <2>2. \/ DeliverCertificate(m, c)
        \/ /\ waitingCertificates' = [waitingCertificates EXCEPT ![m] = @ \ {c}]
           /\ UNCHANGED stored
    BY <1>3 DEF ProcessCertificate
  <2>3. UNCHANGED <<votes, waitingHeaders>> \/ ProcessHeader(m, c)
    BY <1>3 DEF ProcessCertificate
  <2>4. /\ stored[n] \subseteq stored'[n]
        /\ waitingCertificates'[n] \subseteq waitingCertificates[n]
                                               \cup (IF n = m THEN {c} ELSE {})
    BY <2>2, DeliveryEffect
  <2>5. /\ \A g : <<n, g>> \in votes' => \/ <<n, g>> \in votes
                                         \/ n = m /\ g = c /\ Accepts(n, c)
        /\ waitingHeaders'[n] \subseteq waitingHeaders[n] \cup (IF n = m THEN {c} ELSE {})
    BY <2>3, HeaderEffect
  <2>6. CASE n = m
    BY <1>3, <2>1, <2>4, <2>5, <2>6, FrameTurn
  <2>7. CASE n # m
    BY <2>1, <2>4, <2>5, <2>7, FrameElsewhere
  <2> QED
    BY <2>6, <2>7
<1>4. ASSUME OwnHeader(m) PROVE Frame(n)
  <2>1. PICK h : h = Head(toCore[m])
    OBVIOUS
  <2>2. /\ ProcessHeader(m, h) /\ toCore[m] # << >>
        /\ currentHeader' = [currentHeader EXCEPT ![m] = h]
        /\ toCore' = [toCore EXCEPT ![m] = Tail(toCore[m])]
        /\ UNCHANGED payloads
    BY <1>4, <2>1 DEF OwnHeader
  <2>3. DeliverCertificate(m, h) \/ UNCHANGED <<stored, waitingCertificates>>
    BY <1>4, <2>1 DEF OwnHeader
  <2>4. /\ stored[n] \subseteq stored'[n]
        /\ waitingCertificates'[n] \subseteq waitingCertificates[n]
                                               \cup (IF n = m THEN {h} ELSE {})
    BY <2>3, DeliveryEffect
  <2>5. CASE n = m
    <3>1. toCore[n] \in Seq(Header) /\ toCore[n] # << >> /\ h = Head(toCore[n])
      BY <2>1, <2>2, <2>5 DEF TypeOK
    <3>2. 1 \in DOMAIN toCore[n] /\ h = toCore[n][1]
      BY <3>1
    <3>3. h \in InHand(n)
      BY <3>2 DEF InHand
    <3>4. toCore'[n] = Tail(toCore[n]) /\ currentHeader'[n] = h
      BY <2>2, <2>5 DEF TypeOK
    <3>5. \A i \in DOMAIN toCore'[n] :
            i + 1 \in DOMAIN toCore[n] /\ toCore'[n][i] = toCore[n][i + 1]
      BY <3>1, <3>4
    <3> QED
      BY <2>2, <2>4, <2>5, <3>3, <3>4, <3>5, HeaderEffect, FrameTurn
  <2>6. CASE n # m
    <3>1. toCore'[n] = toCore[n] /\ currentHeader'[n] = currentHeader[n]
      BY <2>2, <2>6 DEF TypeOK
    <3> QED
      BY <2>2, <2>4, <2>6, <3>1, HeaderEffect, FrameElsewhere
  <2> QED
    BY <2>5, <2>6
<1>5. ASSUME NEW a, ReceiveVote(m, a) PROVE Frame(n)
  <2>1. PICK h : h = currentHeader[m]
    OBVIOUS
  <2>2. UNCHANGED <<votes, currentHeader, toCore, waitingHeaders, payloads>>
    BY <1>5 DEF ReceiveVote
  <2>3. DeliverCertificate(m, h) \/ UNCHANGED <<stored, waitingCertificates>>
    BY <1>5, <2>1 DEF ReceiveVote
  <2>4. /\ stored[n] \subseteq stored'[n]
        /\ waitingCertificates'[n] \subseteq waitingCertificates[n]
                                               \cup (IF n = m THEN {h} ELSE {})
    BY <2>3, DeliveryEffect
  <2>5. CASE n = m
    <3>1. h \in InHand(n)
      BY <2>1, <2>5 DEF InHand
    <3> QED
      BY <2>2, <2>4, <2>5, <3>1, FrameTurn
  <2>6. CASE n # m
    BY <2>2, <2>4, <2>6, FrameElsewhere
  <2> QED
    BY <2>5, <2>6
<1>6. ASSUME RefuseMessage(m) PROVE Frame(n)
  <2>1. UNCHANGED <<votes, currentHeader, toCore, waitingHeaders, waitingCertificates,
                    stored, payloads>>
    BY <1>6 DEF RefuseMessage, network, channels, waiters, disk
  <2> QED
    BY <2>1, FrameElsewhere
<1>7. ASSUME NEW c, ReceiveCertificate(m, c) PROVE Frame(n)
  BY <1>3, <1>7 DEF ReceiveCertificate
<1>8. ASSUME NEW c \in waitingCertificates[m], ResumeCertificate(m, c) PROVE Frame(n)
  BY <1>3, <1>8 DEF ResumeCertificate, InHand
<1> QED
  BY <1>1, <1>2, <1>4, <1>5, <1>6, <1>7, <1>8 DEF CoreStep

LEMMA StepKnown ==
  ASSUME TypeOK, [Next]_vars, NEW n \in Correct
  PROVE  Frame(n)
<1>1. ASSUME NEW m \in Correct, MakeHeader(m) PROVE Frame(n)
  <2>1. /\ UNCHANGED <<votes, currentHeader, waitingHeaders, waitingCertificates, stored, payloads>>
        /\ toCore' = [toCore EXCEPT ![m] = Append(toCore[m], NewHeader(m))]
    BY <1>1 DEF MakeHeader, network, core, waiters, disk
  <2>2. CASE n # m
    <3>1. toCore'[n] = toCore[n]
      BY <2>1, <2>2 DEF TypeOK
    <3> QED
      BY <2>1, <3>1, FrameElsewhere
  <2>3. CASE n = m
    <3> DEFINE h == NewHeader(n)
    <3>1. h.sound
      BY DEF NewHeader
    <3> HIDE DEF h
    <3>2. toCore[n] \in Seq(Header) /\ toCore'[n] = Append(toCore[n], h)
      BY <2>1, <2>3 DEF TypeOK, h
    <3>3. \A i \in DOMAIN toCore'[n] :
            toCore'[n][i] = h \/ (i \in DOMAIN toCore[n] /\ toCore'[n][i] = toCore[n][i])
      BY <3>2
    <3>4. \A g : g \in InHand(n)' => g \in InHand(n) \/ g = h
      BY <2>1, <3>3 DEF InHand
    <3> QED
      BY <2>1, <3>1, <3>4 DEF Frame
  <2> QED
    BY <2>2, <2>3
<1>2. ASSUME NEW m \in Correct, AdvanceRound(m) \/ Commit(m) PROVE Frame(n)
  <2>1. UNCHANGED <<votes, currentHeader, waitingHeaders, waitingCertificates, stored, payloads, toCore>>
    BY <1>2 DEF AdvanceRound, Commit, network, core, channels, waiters, disk
  <2> QED
    BY <2>1, FrameElsewhere
<1>3. ASSUME NEW m \in Correct, NEW p, PayloadArrives(m, p) PROVE Frame(n)
  <2>1. /\ UNCHANGED <<votes, currentHeader, waitingHeaders, waitingCertificates, stored, toCore>>
        /\ payloads[n] \subseteq payloads'[n]
    BY <1>3 DEF PayloadArrives, network, core, channels, waiters, TypeOK
  <2> QED
    BY <2>1, FrameElsewhere
<1>4. ASSUME NEW m \in Correct, NEW h, CancelHeader(m, h) PROVE Frame(n)
  <2>1. /\ UNCHANGED <<votes, currentHeader, waitingCertificates, stored, payloads, toCore>>
        /\ waitingHeaders'[n] \subseteq waitingHeaders[n]
    BY <1>4 DEF CancelHeader, network, core, channels, disk, TypeOK
  <2> QED
    BY <2>1, FrameElsewhere
<1>5. ASSUME NEW m \in Correct, Restart(m) PROVE Frame(n)
  <2>1. /\ UNCHANGED <<votes, stored, payloads>>
        /\ currentHeader' = [currentHeader EXCEPT ![m] = NoHeader]
        /\ toCore' = [toCore EXCEPT ![m] = << >>]
        /\ waitingHeaders' = [waitingHeaders EXCEPT ![m] = {}]
        /\ waitingCertificates' = [waitingCertificates EXCEPT ![m] = {}]
    BY <1>5 DEF Restart, network, disk
  <2>2. CASE n # m
    <3>1. /\ toCore'[n] = toCore[n] /\ currentHeader'[n] = currentHeader[n]
          /\ waitingHeaders'[n] = waitingHeaders[n]
          /\ waitingCertificates'[n] = waitingCertificates[n]
      BY <2>1, <2>2 DEF TypeOK
    <3> QED
      BY <2>1, <3>1, FrameElsewhere
  <2>3. CASE n = m
    <3>1. /\ DOMAIN toCore'[n] = {} /\ currentHeader'[n] = NoHeader
          /\ waitingHeaders'[n] = {} /\ waitingCertificates'[n] = {}
      BY <2>1, <2>3 DEF TypeOK
    <3>2. \A g : g \in InHand(n)' => g = NoHeader
      BY <3>1 DEF InHand
    <3>3. NoHeader.sound
      BY DEF NoHeader
    <3> QED
      BY <2>1, <3>2, <3>3 DEF Frame
  <2> QED
    BY <2>2, <2>3
<1>6. ASSUME (\E b \in Byzantine : ForgeHeader(b)) \/ (\E h \in headers : CertifyForged(h))
             \/ UNCHANGED vars
      PROVE  Frame(n)
  <2>1. UNCHANGED <<votes, currentHeader, waitingHeaders, waitingCertificates, stored, payloads, toCore>>
    BY <1>6 DEF ForgeHeader, CertifyForged, vars, network, core, channels, waiters, disk
  <2> QED
    BY <2>1, FrameElsewhere
<1> QED
  BY <1>1, <1>2, <1>3, <1>4, <1>5, <1>6, TurnFrame DEF Next, TaskStep, ByzantineStep

LEMMA InformedStep ==
  TypeOK /\ OwnSound /\ VotesInformed /\ [Next]_vars => OwnSound' /\ VotesInformed'
<1> SUFFICES ASSUME TypeOK, OwnSound, VotesInformed, [Next]_vars, NEW n \in Correct
             PROVE  /\ \A h : h \in InHand(n)' => (h.author = n => h.sound)
                    /\ \A h \in Header : <<n, h>> \in votes' =>
                         HasParents(n, h)' /\ HasPayload(n, h)' /\ h.sound
  BY DEF OwnSound, VotesInformed
<1>1. Frame(n)
  BY StepKnown
<1>2. ASSUME NEW h, h \in InHand(n)', h.author = n PROVE h.sound
  BY <1>1, <1>2 DEF Frame, OwnSound
<1>3. ASSUME NEW h \in Header, <<n, h>> \in votes'
      PROVE  HasParents(n, h)' /\ HasPayload(n, h)' /\ h.sound
  <2>1. HasParents(n, h) /\ HasPayload(n, h) /\ h.sound
    <3>1. CASE <<n, h>> \in votes
      BY <3>1 DEF VotesInformed
    <3>2. CASE Accepts(n, h) /\ (h \in InHand(n) \/ h.author # n)
      BY <3>2 DEF Accepts, CountsMatch, OwnSound
    <3> QED
      BY <1>1, <1>3, <3>1, <3>2 DEF Frame
  <2>2. Digests(stored[n]) \subseteq Digests(stored'[n])
    BY <1>1 DEF Frame, Digests
  <2>3. HasParents(n, h)'
    BY <2>1, <2>2 DEF HasParents, Digests
  <2>4. HasPayload(n, h)'
    BY <1>1, <2>1 DEF Frame, HasPayload
  <2> QED
    BY <2>1, <2>3, <2>4
<1> QED
  BY <1>2, <1>3

LEMMA StakeOfNone == StakeOf({}) = 0
<1>1. Units({}) = {}
  BY DEF Units
<1> QED
  BY <1>1, FS_EmptySet DEF StakeOf

\* Correct authorities of f + 1 stake have what a certified header refers to, and
\* its account counts are right (Core::process_header, process_certificate).
THEOREM CertifiedIsAvailable == Spec => []CertifiedAvailable
<1>1. Init => OwnSound /\ VotesInformed
  <2> SUFFICES ASSUME Init PROVE OwnSound /\ VotesInformed
    OBVIOUS
  <2>1. ASSUME NEW n \in Correct, NEW h \in InHand(n) PROVE h = NoHeader
    <3>1. /\ DOMAIN toCore[n] = {} /\ currentHeader[n] = NoHeader
          /\ waitingHeaders[n] = {} /\ waitingCertificates[n] = {}
      BY DEF Init
    <3> QED
      BY <2>1, <3>1 DEF InHand
  <2>2. NoHeader.sound
    BY DEF NoHeader
  <2>3. votes = {}
    BY DEF Init
  <2> QED
    BY <2>1, <2>2, <2>3 DEF OwnSound, VotesInformed
<1>2. TypeOK /\ VotesInformed /\ QuorumInv => CertifiedAvailable
  <2> SUFFICES ASSUME TypeOK, VotesInformed, QuorumInv, NEW c \in certificates
               PROVE  /\ StakeOf({n \in Correct : HasParents(n, c) /\ HasPayload(n, c)})
                            >= ValidityThreshold
                      /\ c.sound
    BY DEF CertifiedAvailable
  <2> DEFINE S == Signers(c) \ Byzantine
             T == {n \in Correct : HasParents(n, c) /\ HasPayload(n, c)}
  <2>1. Signers(c) \in SUBSET Authorities /\ Byzantine \in SUBSET Authorities
    BY CertificationAssumption DEF Signers
  <2>2. StakeOf(S) >= ValidityThreshold
    BY <2>1, FaultAssumption, QuorumWithoutFaulty DEF QuorumInv, CertificatesCertified, Certifies
  <2>3. c \in Header
    BY DEF TypeOK
  <2>4. \A n \in S : n \in Correct /\ <<n, c>> \in votes
    BY DEF Signers, Correct
  <2>5. S \subseteq T /\ \A n \in S : c.sound
    BY <2>3, <2>4 DEF VotesInformed
  <2>6. T \in SUBSET Authorities
    BY DEF Correct
  <2> HIDE DEF S, T
  <2>7. StakeOf(S) <= StakeOf(T) /\ StakeOf(S) \in Nat /\ StakeOf(T) \in Nat
    BY <2>5, <2>6, StakeMonotone, UnitsFinite
  <2>8. ValidityThreshold \in Int /\ ValidityThreshold > 0
    <3>1. ValidityThreshold \in Int /\ StakeOf(Byzantine) \in Nat
      BY <2>1, UnitsFinite DEF ValidityThreshold, TotalStake
    <3> QED
      BY <3>1, FaultAssumption
  <2>9. S # {}
    BY <2>2, <2>8, StakeOfNone
  <2> QED
    BY <2>2, <2>5, <2>7, <2>8, <2>9 DEF T
<1> QED
  BY <1>1, <1>2, InformedStep, TypeCorrect, QuorumKnown, PTL DEF Spec

----------------------------------------------------------------------------
(* ParentsReady *)

WeightUnits(ps) == UNION {{p} \X (1 .. Stake[p.author]) : p \in ps}

LEMMA WeightFinite ==
  ASSUME NEW ps \in SUBSET DigestOf, IsFiniteSet(ps)
  PROVE  IsFiniteSet(WeightUnits(ps)) /\ WeightOf(ps) \in Nat
<1> DEFINE unitsOf == [p \in ps |-> {p} \X (1 .. Stake[p.author])]
           each == {{p} \X (1 .. Stake[p.author]) : p \in ps}
<1>1. unitsOf \in Surjection(ps, each)
  BY DEF Surjection
<1>2. IsFiniteSet(each)
  <2> HIDE DEF unitsOf, each
  <2> QED
    BY <1>1, FS_Surjection
<1>3. ASSUME NEW T \in each PROVE IsFiniteSet(T)
  <2>1. PICK p \in ps : T = {p} \X (1 .. Stake[p.author])
    OBVIOUS
  <2>2. Stake[p.author] \in Int
    <3>1. p.author \in Authorities
      BY DEF DigestOf
    <3> QED
      BY <3>1, CommitteeAssumption
  <2>3. IsFiniteSet({p})
    BY FS_Singleton
  <2>4. IsFiniteSet(1 .. Stake[p.author])
    BY <2>2, FS_Interval
  <2> QED
    BY <2>1, <2>3, <2>4, FS_Product
<1>4. IsFiniteSet(UNION each)
  <2> HIDE DEF each
  <2> QED
    BY <1>2, <1>3, FS_UNION
<1>5. IsFiniteSet(WeightUnits(ps))
  BY <1>4, Zenon DEF WeightUnits
<1> QED
  BY <1>5, FS_CardinalityType, Zenon DEF WeightOf, WeightUnits

LEMMA OneWeight ==
  ASSUME NEW d, NEW k \in Nat
  PROVE  IsFiniteSet({d} \X (1 .. k)) /\ Cardinality({d} \X (1 .. k)) = k
<1> DEFINE one == {d}
           units == 1 .. k
<1>1. IsFiniteSet(one) /\ Cardinality(one) = 1
  BY FS_Singleton
<1>2. IsFiniteSet(units) /\ Cardinality(units) = k
  BY FS_Interval
<1> HIDE DEF one, units
<1>3. /\ IsFiniteSet(one \X units)
      /\ Cardinality(one \X units) = Cardinality(one) * Cardinality(units)
  BY <1>1, <1>2, FS_Product
<1>4. IsFiniteSet(one \X units) /\ Cardinality(one \X units) = k
  BY <1>1, <1>2, <1>3
<1> QED
  BY <1>4 DEF one, units

\* A digest of another author adds the stake of that author.
LEMMA WeightAdded ==
  ASSUME NEW ps \in SUBSET DigestOf, IsFiniteSet(ps), NEW d \in DigestOf, d \notin ps
  PROVE  WeightOf(ps \cup {d}) = WeightOf(ps) + Stake[d.author]
<1> DEFINE old == WeightUnits(ps)
           more == {d} \X (1 .. Stake[d.author])
<1>1. Stake[d.author] \in Nat
  <2>1. d.author \in Authorities
    BY DEF DigestOf
  <2> QED
    BY <2>1, CommitteeAssumption
<1>2. IsFiniteSet(more) /\ Cardinality(more) = Stake[d.author]
  BY <1>1, OneWeight
<1>3. WeightUnits(ps \cup {d}) = old \cup more
  BY DEF WeightUnits
<1>4. old \cap more = {}
  BY DEF WeightUnits
<1>5. IsFiniteSet(old) /\ Cardinality(old) \in Nat
  BY WeightFinite, FS_CardinalityType
<1> HIDE DEF old, more
<1>6. Cardinality(old \cup more) = Cardinality(old) + Cardinality(more) - Cardinality(old \cap more)
  BY <1>2, <1>5, FS_Union
<1>7. Cardinality(old \cap more) = 0
  BY <1>4, FS_EmptySet
<1>8. Cardinality(old \cup more) = Cardinality(old) + Stake[d.author]
  BY <1>1, <1>2, <1>5, <1>6, <1>7
<1>9. \A qs : WeightOf(qs) = Cardinality(WeightUnits(qs))
  BY DEF WeightOf, WeightUnits
<1>10. Cardinality(WeightUnits(ps \cup {d})) = Cardinality(WeightUnits(ps)) + Stake[d.author]
  BY <1>3, <1>8, Zenon DEF old
<1> QED
  BY <1>9, <1>10, Zenon

LEMMA WeightOfNone == WeightOf({}) = 0
<1>1. UNION {{p} \X (1 .. Stake[p.author]) : p \in {}} = {}
  OBVIOUS
<1> QED
  BY <1>1, FS_EmptySet DEF WeightOf

\* The genesis certificates are a quorum of parents.
LEMMA GenesisWeight ==
  /\ Genesis # {} /\ \A p \in Genesis : p.round = 0
  /\ WeightOf(Genesis) >= QuorumThreshold
<1> DEFINE genesisOf(a) == [author |-> a, round |-> 0, payload |-> NoHeader.payload]
           f == [u \in Units(Authorities) |-> <<genesisOf(u[1]), u[2]>>]
<1>1. f \in Bijection(Units(Authorities), WeightUnits(Genesis))
  <2>1. \A u \in Units(Authorities) : /\ u = <<u[1], u[2]>> /\ u[1] \in Authorities
                                      /\ u[2] \in 1 .. Stake[u[1]]
    BY DEF Units
  <2>2. \A a \in Authorities : genesisOf(a) \in Genesis /\ genesisOf(a).author = a
    BY DEF Genesis
  <2>3. \A u \in Units(Authorities) : f[u] \in WeightUnits(Genesis)
    <3> SUFFICES ASSUME NEW u \in Units(Authorities)
                 PROVE  <<genesisOf(u[1]), u[2]>> \in WeightUnits(Genesis)
      OBVIOUS
    <3>1. PICK g \in Genesis : g = genesisOf(u[1]) /\ g.author = u[1]
      BY <2>1, <2>2
    <3>2. <<g, u[2]>> \in {g} \X (1 .. Stake[g.author])
      BY <2>1, <3>1
    <3> QED
      BY <3>1, <3>2 DEF WeightUnits
  <2>4. \A u, v \in Units(Authorities) : f[u] = f[v] => u = v
    <3> SUFFICES ASSUME NEW u \in Units(Authorities), NEW v \in Units(Authorities),
                        genesisOf(u[1]) = genesisOf(v[1]), u[2] = v[2]
                 PROVE  u = v
      OBVIOUS
    <3>1. u[1] = v[1]
      BY <2>1, <2>2
    <3> QED
      BY <2>1, <3>1
  <2>5. \A w \in WeightUnits(Genesis) : \E u \in Units(Authorities) : f[u] = w
    <3> SUFFICES ASSUME NEW w \in WeightUnits(Genesis)
                 PROVE  \E u \in Units(Authorities) : f[u] = w
      OBVIOUS
    <3>1. PICK g \in Genesis : w \in {g} \X (1 .. Stake[g.author])
      BY DEF WeightUnits
    <3>2. PICK a \in Authorities : g = genesisOf(a) /\ g.author = a
      BY DEF Genesis
    <3>3. PICK i \in 1 .. Stake[a] : w = <<g, i>>
      BY <3>1, <3>2
    <3>4. <<a, i>> \in Units(Authorities)
      BY <3>3 DEF Units
    <3> QED
      BY <3>2, <3>3, <3>4
  <2> HIDE DEF f
  <2>6. f \in [Units(Authorities) -> WeightUnits(Genesis)]
    BY <2>3 DEF f
  <2> QED
    BY <2>4, <2>5, <2>6 DEF Bijection, Injection, Surjection, IsInjective
<1> HIDE DEF f
<1>2. Cardinality(WeightUnits(Genesis)) = Cardinality(Units(Authorities))
  BY <1>1, UnitsFinite, FS_Bijection DEF ExistsBijection
<1>3. WeightOf(Genesis) = TotalStake
  BY <1>2 DEF WeightOf, WeightUnits, TotalStake, StakeOf
<1>4. TotalStake \in Nat /\ TotalStake >= 1
  <2>1. TotalStake \in Nat /\ StakeOf(Byzantine) \in Nat
    BY CertificationAssumption, UnitsFinite DEF TotalStake
  <2> QED
    BY <2>1, FaultAssumption DEF ValidityThreshold
<1>5. TotalStake >= QuorumThreshold
  BY <1>4 DEF QuorumThreshold
<1>6. Genesis # {}
  <2>1. CASE Authorities = {}
    BY <1>4, <2>1, StakeOfNone DEF TotalStake
  <2> QED
    BY <2>1 DEF Genesis
<1> QED
  BY <1>3, <1>5, <1>6 DEF Genesis

\* ps are parents for a header of round r, all of them in the store s or genesis.
Ready(s, ps, r) ==
  /\ ps # {} /\ ps \subseteq Digests(s) \cup Genesis
  /\ \A p \in ps : p.round + 1 = r
  /\ WeightOf(ps) >= QuorumThreshold

\* What an aggregator of round r has counted: one certificate of each author, all
\* of them in the store s.
Counted(s, r, agg) ==
  /\ IsFiniteSet(agg.certificates) /\ agg.certificates \subseteq Digests(s)
  /\ \A p \in agg.certificates : p.round = r /\ p.author \in agg.used
  /\ agg.weight <= WeightOf(agg.certificates)

Collecting(n) == \A r \in Rounds : Counted(stored[n], r, aggregators[n][r])

Sending(n) ==
  \A i \in DOMAIN toProposer[n] :
    Ready(stored[n], toProposer[n][i].parents, toProposer[n][i].round + 1)

Proposing(n) ==
  proposer[n].lastParents # {} =>
    Ready(stored[n], proposer[n].lastParents, proposer[n].round)

Proposed(n) ==
  \A i \in DOMAIN toCore[n] : Ready(stored[n], toCore[n][i].parents, toCore[n][i].round)

ParentsInv ==
  \A n \in Correct : Collecting(n) /\ Sending(n) /\ Proposing(n) /\ Proposed(n)

LEMMA ReadyGrows ==
  ASSUME NEW s, NEW t, s \subseteq t, NEW ps, NEW r, Ready(s, ps, r)
  PROVE  Ready(t, ps, r)
  BY DEF Ready, Digests

LEMMA CountedGrows ==
  ASSUME NEW s, NEW t, s \subseteq t, NEW r, NEW agg, Counted(s, r, agg)
  PROVE  Counted(t, r, agg)
  BY DEF Counted, Digests

LEMMA FirstReady ==
  ASSUME NEW s
  PROVE  Ready(s, FirstRound.lastParents, FirstRound.round)
<1>1. FirstRound.lastParents = Genesis /\ FirstRound.round = 1
  BY DEF FirstRound
<1> QED
  BY <1>1, GenesisWeight DEF Ready

LEMMA NoneCounted ==
  ASSUME NEW s, NEW r
  PROVE  Counted(s, r, EmptyAggregator)
<1>1. /\ EmptyAggregator.certificates = {} /\ EmptyAggregator.weight = 0
  BY DEF EmptyAggregator
<1>2. IsFiniteSet({})
  BY FS_EmptySet
<1> QED
  BY <1>1, <1>2, WeightOfNone DEF Counted

\* CertificatesAggregator::append counts a stored certificate at most once, and
\* what it hands over is a quorum of parents.
LEMMA CountedOne ==
  ASSUME NEW s, NEW c \in Header, c \in s, NEW agg \in Aggregator,
         Counted(s, c.round, agg)
  PROVE  /\ Counted(s, c.round, AppendCertificate(agg, c))
         /\ Completes(agg, c) =>
              Ready(s, agg.certificates \cup {Digest(c)}, c.round + 1)
<1> DEFINE d == Digest(c)
           all == agg.certificates \cup {d}
<1>1. /\ d \in DigestOf /\ d \in Digests(s) /\ d.round = c.round /\ d.author = c.author
      /\ c.author \in Authorities
  BY DigestTyped DEF Digests, Digest, Header
<1>2. /\ agg.certificates \in SUBSET DigestOf /\ IsFiniteSet(agg.certificates)
      /\ agg.weight \in Nat /\ agg.weight <= WeightOf(agg.certificates)
  BY DEF Aggregator, Counted
<1>3. WeightOf(agg.certificates) \in Nat /\ Stake[c.author] \in Nat
  BY <1>1, <1>2, WeightFinite, CommitteeAssumption
<1>4. CASE c.author \in agg.used
  <2>1. AppendCertificate(agg, c) = agg /\ ~ Completes(agg, c)
    BY <1>4 DEF AppendCertificate, Completes
  <2> QED
    BY <2>1
<1>5. CASE c.author \notin agg.used
  <2>1. d \notin agg.certificates
    BY <1>1, <1>5 DEF Counted
  <2> HIDE DEF d
  <2>2. WeightOf(all) = WeightOf(agg.certificates) + Stake[c.author]
    BY <1>1, <1>2, <2>1, WeightAdded
  <2>3. agg.weight + Stake[c.author] <= WeightOf(all) /\ WeightOf(all) \in Nat
    BY <1>2, <1>3, <2>2
  <2>4. IsFiniteSet(all) /\ all \subseteq Digests(s) /\ all # {}
    BY <1>1, <1>2, FS_AddElement DEF Counted
  <2>5. \A p \in all : p.round = c.round /\ p.author \in agg.used \cup {c.author}
    BY <1>1 DEF Counted
  <2>6. CASE Reaches(agg, c.author)
    <3> DEFINE after == AppendCertificate(agg, c)
    <3>1. after.certificates = {} /\ after.weight = 0
      BY <1>5, <2>6 DEF AppendCertificate
    <3> HIDE DEF after
    <3>2. Counted(s, c.round, after)
      BY <3>1, WeightOfNone, FS_EmptySet DEF Counted
    <3>3. QuorumThreshold \in Int
      BY UnitsFinite DEF QuorumThreshold, TotalStake
    <3>4. WeightOf(all) >= QuorumThreshold
      BY <1>2, <1>3, <2>3, <2>6, <3>3 DEF Reaches
    <3>5. \A p \in all : p.round + 1 = c.round + 1
      BY <2>5
    <3>6. Ready(s, all, c.round + 1)
      BY <2>4, <3>4, <3>5 DEF Ready
    <3> QED
      BY <3>2, <3>6 DEF after, d
  <2>7. CASE ~ Reaches(agg, c.author)
    <3> DEFINE after == AppendCertificate(agg, c)
    <3>1. /\ after.certificates = all /\ after.weight = agg.weight + Stake[c.author]
          /\ after.used = agg.used \cup {c.author} /\ ~ Completes(agg, c)
      BY <1>5, <2>7 DEF AppendCertificate, Completes, d
    <3> HIDE DEF after, all
    <3>2. Counted(s, c.round, after)
      BY <2>3, <2>4, <2>5, <3>1 DEF Counted
    <3> QED
      BY <3>1, <3>2 DEF after
  <2> QED
    BY <2>6, <2>7
<1> QED
  BY <1>4, <1>5

\* What the clean-up leaves of the aggregators of n.
LEMMA CleanedUp ==
  ASSUME TypeOK, NEW n \in Correct, NEW voted, NEW seen, NEW agg, Cleanup(n, voted, seen, agg),
         NEW m \in Correct, NEW r \in Rounds
  PROVE  /\ m # n => aggregators'[m] = aggregators[m]
         /\ m = n => aggregators'[m][r] = agg[r] \/ aggregators'[m][r] = EmptyAggregator
<1> DEFINE left(gc) == [q \in Rounds |-> IF q >= gc THEN agg[q] ELSE EmptyAggregator]
<1>1. PICK gc : aggregators' = [aggregators EXCEPT ![n] = left(gc)]
  BY DEF Cleanup
<1>2. left(gc)[r] = agg[r] \/ left(gc)[r] = EmptyAggregator
  OBVIOUS
<1> HIDE DEF left
<1> QED
  BY <1>1, <1>2 DEF TypeOK

\* A turn that delivers no certificate.
LEMMA QuietTurn ==
  ASSUME TypeOK, ParentsInv, NEW n \in Correct, NEW voted, NEW seen,
         Cleanup(n, voted, seen, aggregators[n]) \/ UNCHANGED aggregators,
         UNCHANGED <<stored, toProposer>>, NEW m \in Correct
  PROVE  Collecting(m)' /\ Sending(m)'
<1>1. ASSUME NEW r \in Rounds PROVE Counted(stored'[m], r, aggregators'[m][r])
  <2>1. \/ aggregators'[m][r] = aggregators[m][r]
        \/ aggregators'[m][r] = EmptyAggregator
    BY CleanedUp
  <2> QED
    BY <2>1, NoneCounted DEF ParentsInv, Collecting
<1>2. Collecting(m)'
  BY <1>1 DEF Collecting
<1>3. Sending(m)'
  BY DEF ParentsInv, Sending
<1> QED
  BY <1>2, <1>3

\* A turn that delivers the certificate c.
LEMMA DeliveryTurn ==
  ASSUME TypeOK, ParentsInv, NEW n \in Correct, NEW c \in Header, NEW voted, NEW seen,
         DeliverCertificate(n, c), Cleanup(n, voted, seen, AggregatorsAfter(n, c)),
         NEW m \in Correct
  PROVE  Collecting(m)' /\ Sending(m)'
<1>1. CASE ~ HasParents(n, c)
  <2>1. UNCHANGED <<stored, toProposer>> /\ AggregatorsAfter(n, c) = aggregators[n]
    BY <1>1 DEF DeliverCertificate, AggregatorsAfter
  <2> QED
    BY <2>1, QuietTurn
<1>2. CASE m # n
  <2>1. stored'[m] = stored[m] /\ toProposer'[m] = toProposer[m] /\ aggregators'[m] = aggregators[m]
    <3>1. ASSUME NEW r \in Rounds PROVE aggregators'[m] = aggregators[m]
      BY <1>2, CleanedUp
    <3>2. aggregators'[m] = aggregators[m]
      BY <3>1 DEF Header
    <3>3. stored'[m] = stored[m] /\ toProposer'[m] = toProposer[m]
      BY <1>2 DEF DeliverCertificate, TypeOK
    <3> QED
      BY <3>2, <3>3
  <2>2. Collecting(m)'
    BY <2>1 DEF ParentsInv, Collecting
  <2>3. Sending(m)'
    BY <2>1 DEF ParentsInv, Sending
  <2> QED
    BY <2>2, <2>3
<1>3. CASE m = n /\ HasParents(n, c)
  <2> DEFINE agg == aggregators[n][c.round]
             next == [parents |-> agg.certificates \cup {Digest(c)}, round |-> c.round]
  <2>1. /\ c.round \in Rounds /\ agg \in Aggregator
        /\ aggregators[n] \in [Rounds -> Aggregator]
    BY DEF TypeOK, Header
  <2>2. stored'[n] = stored[n] \cup {c}
    BY <1>3 DEF DeliverCertificate, TypeOK
  <2>3. \A r \in Rounds : Counted(stored'[n], r, aggregators[n][r])
    BY <2>2, CountedGrows DEF ParentsInv, Collecting
  <2>4. /\ Counted(stored'[n], c.round, AppendCertificate(agg, c))
        /\ Completes(agg, c) => Ready(stored'[n], next.parents, next.round + 1)
    BY <2>1, <2>2, <2>3, CountedOne
  <2>5. ASSUME NEW r \in Rounds PROVE Counted(stored'[n], r, aggregators'[n][r])
    <3> DEFINE after == AggregatorsAfter(n, c)
    <3>1. IF r = c.round THEN after[r] = AppendCertificate(agg, c)
                         ELSE after[r] = aggregators[n][r]
      BY <1>3, <2>1 DEF AggregatorsAfter
    <3>2. Counted(stored'[n], r, after[r])
      BY <2>3, <2>4, <3>1
    <3> HIDE DEF after
    <3>3. aggregators'[n][r] = after[r] \/ aggregators'[n][r] = EmptyAggregator
      BY CleanedUp DEF after
    <3> QED
      BY <3>2, <3>3, NoneCounted
  <2>6. ASSUME NEW i \in DOMAIN toProposer'[n]
        PROVE  Ready(stored'[n], toProposer'[n][i].parents, toProposer'[n][i].round + 1)
    <3> DEFINE Message == [parents : SUBSET DigestOf, round : Rounds]
    <3>1. toProposer[n] \in Seq(Message)
      BY DEF TypeOK
    <3>2. \/ toProposer'[n] = toProposer[n]
          \/ Completes(agg, c) /\ toProposer'[n] = Append(toProposer[n], next)
      BY <1>3 DEF DeliverCertificate, TypeOK
    <3> HIDE DEF next, Message, agg
    <3>3. \/ i \in DOMAIN toProposer[n] /\ toProposer'[n][i] = toProposer[n][i]
          \/ Completes(agg, c) /\ toProposer'[n][i] = next
      BY <3>1, <3>2
    <3>4. ASSUME i \in DOMAIN toProposer[n]
          PROVE  Ready(stored'[n], toProposer[n][i].parents, toProposer[n][i].round + 1)
      BY <2>2, <3>4, ReadyGrows DEF ParentsInv, Sending
    <3> QED
      BY <2>4, <3>3, <3>4
  <2>7. Collecting(m)'
    BY <1>3, <2>5 DEF Collecting
  <2>8. Sending(m)'
    BY <1>3, <2>6 DEF Sending
  <2> QED
    BY <2>7, <2>8
<1> QED
  BY <1>1, <1>2, <1>3

LEMMA CoreTurn ==
  ASSUME TypeOK, ParentsInv, NEW n \in Correct, CoreStep(n), NEW m \in Correct
  PROVE  Collecting(m)' /\ Sending(m)'
<1>1. ASSUME NEW h, ReceiveHeader(n, h) \/ ResumeHeader(n, h)
      PROVE  Collecting(m)' /\ Sending(m)'
  BY <1>1, QuietTurn DEF ReceiveHeader, ResumeHeader, channels, disk
<1>2. ASSUME NEW c \in Header, ProcessCertificate(n, c) PROVE Collecting(m)' /\ Sending(m)'
  <2> DEFINE failed == c \notin processing[n] /\ Rejects(n, c)
  <2>1. PICK voted, seen : Cleanup(n, voted, seen,
                             IF failed THEN aggregators[n] ELSE AggregatorsAfter(n, c))
    BY <1>2 DEF ProcessCertificate
  <2>2. CASE failed
    BY <1>2, <2>1, <2>2, QuietTurn DEF ProcessCertificate
  <2>3. CASE ~ failed
    <3>1. DeliverCertificate(n, c)
      BY <1>2, <2>3 DEF ProcessCertificate
    <3> QED
      BY <2>1, <2>3, <3>1, DeliveryTurn
  <2> QED
    BY <2>2, <2>3
<1>3. ASSUME OwnHeader(n) PROVE Collecting(m)' /\ Sending(m)'
  <2>1. PICK h : h = Head(toCore[n])
    OBVIOUS
  <2>2. toCore[n] \in Seq(Header) /\ toCore[n] # << >>
    BY <1>3 DEF OwnHeader, TypeOK
  <2>3. h \in Header
    BY <2>1, <2>2
  <2>4. PICK certified, voted, seen :
          /\ IF certified THEN DeliverCertificate(n, h)
                          ELSE UNCHANGED <<stored, toProposer, waitingCertificates>>
          /\ Cleanup(n, voted, seen, IF certified THEN AggregatorsAfter(n, h) ELSE aggregators[n])
    BY <1>3, <2>1 DEF OwnHeader
  <2>5. CASE certified
    BY <2>3, <2>4, <2>5, DeliveryTurn
  <2>6. CASE ~ certified
    BY <2>4, <2>6, QuietTurn
  <2> QED
    BY <2>5, <2>6
<1>4. ASSUME NEW a, ReceiveVote(n, a) PROVE Collecting(m)' /\ Sending(m)'
  <2>1. PICK h : h = currentHeader[n]
    OBVIOUS
  <2>2. h \in Header
    BY <1>4, <2>1 DEF ReceiveVote, TypeOK
  <2>3. PICK certified, refused, seen :
          /\ IF certified /\ ~ refused THEN DeliverCertificate(n, h)
                                       ELSE UNCHANGED <<stored, toProposer, waitingCertificates>>
          /\ IF certified /\ refused
             THEN UNCHANGED aggregators
             ELSE Cleanup(n, lastVoted[n], seen,
                          IF certified THEN AggregatorsAfter(n, h) ELSE aggregators[n])
    BY <1>4, <2>1 DEF ReceiveVote
  <2>4. CASE certified /\ ~ refused
    BY <2>2, <2>3, <2>4, DeliveryTurn
  <2>5. CASE ~ (certified /\ ~ refused)
    BY <2>3, <2>5, QuietTurn
  <2> QED
    BY <2>4, <2>5
<1>5. ASSUME RefuseMessage(n) PROVE Collecting(m)' /\ Sending(m)'
  BY <1>5, QuietTurn DEF RefuseMessage, channels, disk
<1>6. certificates \subseteq Header /\ waitingCertificates[n] \subseteq Header
  BY DEF TypeOK
<1> QED
  BY <1>1, <1>2, <1>3, <1>4, <1>5, <1>6 DEF CoreStep, ReceiveCertificate, ResumeCertificate

\* The other steps take nothing from an aggregator or a channel but what a
\* restart or the Proposer takes.
LEMMA OtherStep ==
  ASSUME TypeOK, ParentsInv, [Next]_vars, ~ \E n \in Correct : CoreStep(n), NEW m \in Correct
  PROVE  Collecting(m)' /\ Sending(m)'
<1>1. CASE UNCHANGED <<stored, aggregators, toProposer>>
  BY <1>1 DEF ParentsInv, Collecting, Sending
<1>2. ASSUME NEW n \in Correct, TaskStep(n), ~ AdvanceRound(n)
      PROVE  UNCHANGED <<stored, aggregators, toProposer>>
  BY <1>2 DEF TaskStep, MakeHeader, Commit, PayloadArrives, CancelHeader, core, channels, disk
<1>3. ASSUME ByzantineStep \/ UNCHANGED vars
      PROVE  UNCHANGED <<stored, aggregators, toProposer>>
  BY <1>3 DEF ByzantineStep, ForgeHeader, CertifyForged, vars, core, channels, disk
<1>4. ASSUME NEW n \in Correct, AdvanceRound(n) PROVE Collecting(m)' /\ Sending(m)'
  <2>1. /\ UNCHANGED <<stored, aggregators>> /\ toProposer[n] # << >>
        /\ toProposer' = [toProposer EXCEPT ![n] = Tail(toProposer[n])]
    BY <1>4 DEF AdvanceRound, core, disk
  <2>2. Collecting(m)'
    BY <2>1 DEF ParentsInv, Collecting
  <2>3. CASE m # n
    <3>1. toProposer'[m] = toProposer[m]
      BY <2>1, <2>3 DEF TypeOK
    <3> QED
      BY <2>1, <2>2, <3>1 DEF ParentsInv, Sending
  <2>4. CASE m = n
    <3> DEFINE Message == [parents : SUBSET DigestOf, round : Rounds]
    <3>1. /\ toProposer[m] \in Seq(Message) /\ toProposer[m] # << >>
          /\ toProposer'[m] = Tail(toProposer[m])
      BY <2>1, <2>4 DEF TypeOK
    <3> HIDE DEF Message
    <3>2. \A i \in DOMAIN toProposer'[m] :
            i + 1 \in DOMAIN toProposer[m] /\ toProposer'[m][i] = toProposer[m][i + 1]
      BY <3>1
    <3>3. Sending(m)'
      BY <2>1, <3>2 DEF ParentsInv, Sending
    <3> QED
      BY <2>2, <3>3
  <2> QED
    BY <2>3, <2>4
<1>5. ASSUME NEW n \in Correct, Restart(n) PROVE Collecting(m)' /\ Sending(m)'
  <2>1. /\ stored' = stored
        /\ aggregators' = [aggregators EXCEPT ![n] = [r \in Rounds |-> EmptyAggregator]]
        /\ toProposer' = [toProposer EXCEPT ![n] = << >>]
    BY <1>5 DEF Restart, disk
  <2>2. CASE m # n
    <3>1. aggregators'[m] = aggregators[m] /\ toProposer'[m] = toProposer[m]
      BY <2>1, <2>2 DEF TypeOK
    <3> QED
      BY <2>1, <3>1 DEF ParentsInv, Collecting, Sending
  <2>3. CASE m = n
    <3>1. /\ \A r \in Rounds : aggregators'[m][r] = EmptyAggregator
          /\ DOMAIN toProposer'[m] = {}
      BY <2>1, <2>3 DEF TypeOK
    <3>2. Collecting(m)'
      BY <3>1, NoneCounted DEF Collecting
    <3>3. Sending(m)'
      BY <3>1 DEF Sending
    <3> QED
      BY <3>2, <3>3
  <2> QED
    BY <2>2, <2>3
<1> QED
  BY <1>1, <1>2, <1>3, <1>4, <1>5 DEF Next, TaskStep

\* What the Proposer takes from its channel, and what it puts in the other.
LEMMA ProposerStep ==
  ASSUME TypeOK, ParentsInv, [Next]_vars, NEW m \in Correct
  PROVE  Proposing(m)' /\ Proposed(m)'
<1>1. stored[m] \subseteq stored'[m]
  BY StepKnown DEF Frame
<1>2. ASSUME proposer'[m].lastParents = {} \/ proposer'[m] = proposer[m] PROVE Proposing(m)'
  BY <1>1, <1>2, ReadyGrows DEF ParentsInv, Proposing
<1>3. ASSUME \A i \in DOMAIN toCore'[m] :
               \E j \in DOMAIN toCore[m] : toCore'[m][i] = toCore[m][j]
      PROVE  Proposed(m)'
  <2> SUFFICES ASSUME NEW i \in DOMAIN toCore'[m]
               PROVE  Ready(stored'[m], toCore'[m][i].parents, toCore'[m][i].round)
    BY DEF Proposed
  <2>1. PICK j \in DOMAIN toCore[m] : toCore'[m][i] = toCore[m][j]
    BY <1>3
  <2> QED
    BY <1>1, <2>1, ReadyGrows DEF ParentsInv, Proposed
<1>4. CASE UNCHANGED <<proposer, toCore>>
  BY <1>2, <1>3, <1>4
<1>5. ASSUME NEW n \in Correct, OwnHeader(n) PROVE Proposing(m)' /\ Proposed(m)'
  <2>1. /\ proposer' = proposer /\ toCore[n] # << >>
        /\ toCore' = [toCore EXCEPT ![n] = Tail(toCore[n])]
    BY <1>5 DEF OwnHeader
  <2>2. toCore[m] \in Seq(Header) /\ toCore \in [Correct -> Seq(Header)]
    BY DEF TypeOK
  <2>3. CASE m # n
    BY <1>2, <1>3, <2>1, <2>2, <2>3
  <2>4. CASE m = n
    <3>1. toCore'[m] = Tail(toCore[m])
      BY <2>1, <2>2, <2>4
    <3>2. \A i \in DOMAIN toCore'[m] :
            i + 1 \in DOMAIN toCore[m] /\ toCore'[m][i] = toCore[m][i + 1]
      BY <2>1, <2>2, <2>4, <3>1
    <3> QED
      BY <1>2, <1>3, <2>1, <3>2
  <2> QED
    BY <2>3, <2>4
<1>6. ASSUME NEW n \in Correct, MakeHeader(n) PROVE Proposing(m)' /\ Proposed(m)'
  <2>1. /\ proposer[n].lastParents # {}
        /\ toCore' = [toCore EXCEPT ![n] = Append(toCore[n], NewHeader(n))]
        /\ proposer' = [proposer EXCEPT ![n].lastParents = {}]
    BY <1>6 DEF MakeHeader
  <2>2. toCore[m] \in Seq(Header) /\ toCore \in [Correct -> Seq(Header)]
    BY DEF TypeOK
  <2>3. CASE m # n
    <3>1. toCore'[m] = toCore[m] /\ proposer'[m] = proposer[m]
      BY <2>1, <2>2, <2>3 DEF TypeOK
    <3> QED
      BY <1>2, <1>3, <3>1
  <2>4. CASE m = n
    <3> DEFINE h == NewHeader(m)
    <3>1. proposer'[m].lastParents = {}
      BY <2>1, <2>4 DEF TypeOK
    <3>2. toCore'[m] = Append(toCore[m], h)
      BY <2>1, <2>2, <2>4
    <3>3. h.parents = proposer[m].lastParents /\ h.round = proposer[m].round
      BY DEF NewHeader
    <3> HIDE DEF h
    <3>4. Ready(stored'[m], h.parents, h.round)
      BY <1>1, <2>1, <2>4, <3>3, ReadyGrows DEF ParentsInv, Proposing
    <3>5. ASSUME NEW i \in DOMAIN toCore'[m]
          PROVE  toCore'[m][i] = h \/ (i \in DOMAIN toCore[m] /\ toCore'[m][i] = toCore[m][i])
      BY <2>2, <3>2, <3>5
    <3>6. \A i \in DOMAIN toCore[m] : Ready(stored'[m], toCore[m][i].parents, toCore[m][i].round)
      BY <1>1, ReadyGrows DEF ParentsInv, Proposed
    <3>7. Proposed(m)'
      BY <3>4, <3>5, <3>6 DEF Proposed
    <3> QED
      BY <1>2, <3>1, <3>7
  <2> QED
    BY <2>3, <2>4
<1>7. ASSUME NEW n \in Correct, AdvanceRound(n) PROVE Proposing(m)' /\ Proposed(m)'
  <2>1. PICK next : next = Head(toProposer[n])
    OBVIOUS
  <2>2. /\ toProposer[n] # << >> /\ toCore' = toCore
        /\ \/ proposer' = proposer
           \/ proposer' = [proposer EXCEPT ![n] = [round |-> next.round + 1,
                                                   lastParents |-> next.parents]]
    BY <1>7, <2>1 DEF AdvanceRound
  <2>3. Proposed(m)'
    BY <1>3, <2>2
  <2>4. CASE proposer'[m] = proposer[m]
    BY <1>2, <2>3, <2>4
  <2>5. CASE m = n /\ proposer'[m] = [round |-> next.round + 1, lastParents |-> next.parents]
    <3> DEFINE Message == [parents : SUBSET DigestOf, round : Rounds]
    <3>1. toProposer[m] \in Seq(Message)
      BY DEF TypeOK
    <3> HIDE DEF Message
    <3>2. 1 \in DOMAIN toProposer[m] /\ next = toProposer[m][1]
      BY <2>1, <2>2, <2>5, <3>1
    <3>3. Ready(stored'[m], next.parents, next.round + 1)
      BY <1>1, <3>2, ReadyGrows DEF ParentsInv, Sending
    <3> QED
      BY <2>3, <2>5, <3>3 DEF Proposing
  <2> QED
    BY <2>2, <2>4, <2>5 DEF TypeOK
<1>8. ASSUME NEW n \in Correct, Restart(n) PROVE Proposing(m)' /\ Proposed(m)'
  <2>1. /\ proposer' = [proposer EXCEPT ![n] = FirstRound]
        /\ toCore' = [toCore EXCEPT ![n] = << >>]
    BY <1>8 DEF Restart
  <2>2. CASE m # n
    <3>1. toCore'[m] = toCore[m] /\ proposer'[m] = proposer[m]
      BY <2>1, <2>2 DEF TypeOK
    <3> QED
      BY <1>2, <1>3, <3>1
  <2>3. CASE m = n
    <3>1. proposer'[m] = FirstRound /\ DOMAIN toCore'[m] = {}
      BY <2>1, <2>3 DEF TypeOK
    <3> QED
      BY <3>1, FirstReady DEF Proposing, Proposed
  <2> QED
    BY <2>2, <2>3
<1>9. ASSUME NEW b, ForgeHeader(b) PROVE UNCHANGED <<proposer, toCore>>
  BY <1>9 DEF ForgeHeader, channels
<1> QED
  BY <1>4, <1>5, <1>6, <1>7, <1>8, <1>9, StepFrame

\* What the Proposer holds or has sent to Core is ready to be voted for by Core
\* (CertificatesAggregator::append, Proposer::run, Core::process_header).
THEOREM ParentsAreReady == Spec => []ParentsReady
<1>1. Init => ParentsInv /\ OwnHeaders
  <2> SUFFICES ASSUME Init, NEW n \in Correct
               PROVE  /\ Collecting(n) /\ Sending(n) /\ Proposing(n) /\ Proposed(n)
                      /\ \A i \in DOMAIN toCore[n] : toCore[n][i].author = n
    BY DEF ParentsInv, OwnHeaders
  <2>1. /\ \A r \in Rounds : aggregators[n][r] = EmptyAggregator
        /\ DOMAIN toProposer[n] = {} /\ DOMAIN toCore[n] = {} /\ proposer[n] = FirstRound
    BY DEF Init
  <2> QED
    BY <2>1, NoneCounted, FirstReady DEF Collecting, Sending, Proposing, Proposed
<1>2. TypeOK /\ ParentsInv /\ [Next]_vars => ParentsInv'
  <2> SUFFICES ASSUME TypeOK, ParentsInv, [Next]_vars, NEW m \in Correct
               PROVE  Collecting(m)' /\ Sending(m)' /\ Proposing(m)' /\ Proposed(m)'
    BY DEF ParentsInv
  <2> QED
    BY CoreTurn, OtherStep, ProposerStep
<1>3. TypeOK /\ ParentsInv /\ OwnHeaders => ParentsReady
  <2> SUFFICES ASSUME TypeOK, ParentsInv, OwnHeaders, NEW n \in Correct
               PROVE  /\ \A i \in DOMAIN toCore[n] : Accepts(n, toCore[n][i])
                      /\ proposer[n].lastParents # {} =>
                           /\ \A p \in proposer[n].lastParents : p.round + 1 = proposer[n].round
                           /\ WeightOf(proposer[n].lastParents) >= QuorumThreshold
    BY DEF ParentsReady
  <2>1. ASSUME NEW i \in DOMAIN toCore[n] PROVE Accepts(n, toCore[n][i])
    <3>1. Ready(stored[n], toCore[n][i].parents, toCore[n][i].round) /\ toCore[n][i].author = n
      BY <2>1 DEF ParentsInv, Proposed, OwnHeaders
    <3> QED
      BY <3>1 DEF Ready, Accepts, HasParents, ValidParents, HasPayload, CountsMatch
  <2>2. Proposing(n)
    BY DEF ParentsInv
  <2> QED
    BY <2>1, <2>2 DEF Proposing, Ready
<1> QED
  BY <1>1, <1>2, <1>3, OwnHeadersStep, TypeCorrect, PTL DEF Spec
=============================================================================
