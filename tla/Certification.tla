---------------------------- MODULE Certification ----------------------------
(***************************************************************************)
(* How the primaries certify headers: Proposer, Core, the two aggregators  *)
(* and GarbageCollector of every correct authority, among Byzantine ones,  *)
(* over a network that loses, repeats and reorders messages.               *)
(*                                                                         *)
(* One action is one turn of a task's loop. The messages sent so far are   *)
(* sets that only grow: any of them may be received at any time, again, or *)
(* never. A certificate stands for its header (its digest and its equality *)
(* leave the votes out).                                                   *)
(***************************************************************************)
EXTENDS Committee

CONSTANTS
  Byzantine,  \* the authorities that sign what they like
  MayRestart, \* bound: the correct authorities that restart, each at most once
  GcDepth,    \* Parameters::gc_depth
  CommitLag,  \* how far the rounds that consensus commits trail the last one
  MaxRound,   \* bound: the last round in which headers are made
  MaxForged,  \* bound: how many headers the Byzantine authorities make
  Forms,      \* bound: the kinds of header they make: the content, whether its
              \* account counts are right, and the authors of the parents
  Payload,    \* the contents of headers
  Contents,   \* <<what each correct authority puts in its headers, what it puts
              \* there after a restart>>: created_at makes them differ
  Late        \* the contents whose batches are not in the stores at the start

Correct == Authorities \ Byzantine
Rounds == 1 .. MaxRound

ASSUME CertificationAssumption ==
  /\ Byzantine \subseteq Authorities
  /\ MayRestart \subseteq Correct
  /\ GcDepth \in Nat /\ CommitLag \in Nat /\ MaxRound \in Nat /\ MaxForged \in Nat
  /\ Contents \in [Correct -> Payload \X Payload]
  /\ \A form \in Forms : form.payload \in Payload /\ form.sound \in BOOLEAN

\* At most f of stake is Byzantine.
ASSUME FaultAssumption == StakeOf(Byzantine) < ValidityThreshold

\* Header::default.
NoHeader ==
  [author |-> "none", round |-> 0, parents |-> {}, payload |-> "none", sound |-> TRUE]

VARIABLES
  \* The network.
  headers,             \* headers broadcast
  votes,               \* <<voter, header>>: votes of correct authorities
  certificates,        \* certificates broadcast
  \* Core of each correct authority.
  gcRound, lastVoted, processing, currentHeader, votesAggregator, aggregators,
  down,                \* an expect of Core failed: the task is gone
  \* Proposer, and the two channels between it and Core.
  proposer, toProposer, toCore,
  \* HeaderWaiter and CertificateWaiter, GarbageCollector, Store.
  waitingHeaders, waitingCertificates, consensusRound,
  stored,              \* certificates in the store
  payloads,            \* contents of which the store has every batch
  restarted            \* the authorities that restarted

network == <<headers, votes, certificates>>
core == <<gcRound, lastVoted, processing, currentHeader, votesAggregator,
          aggregators, down>>
channels == <<proposer, toProposer, toCore>>
waiters == <<waitingHeaders, waitingCertificates, consensusRound>>
disk == <<stored, payloads>>

vars == <<network, core, channels, waiters, disk, restarted>>

-----------------------------------------------------------------------------
Slot(h) == <<h.round, h.author>>

\* What parents are named by. The payload stands for everything else that enters
\* the digest of a header, created_at included: no two headers share a digest.
Digest(h) == [author |-> h.author, round |-> h.round, payload |-> h.payload]
Digests(hs) == {Digest(h) : h \in hs}

\* The digests of Certificate::genesis.
Genesis == {[author |-> a, round |-> 0, payload |-> NoHeader.payload] : a \in Authorities}

EmptyVotes == [weight |-> 0, used |-> {}]
EmptyAggregator == [weight |-> 0, used |-> {}, certificates |-> {}]

\* The state of a task that has just been spawned.
FirstRound == [round |-> 1, lastParents |-> Genesis]

Init ==
  /\ headers = {} /\ votes = {} /\ certificates = {}
  /\ gcRound = [n \in Correct |-> 0]
  /\ lastVoted = [n \in Correct |-> {}]
  /\ processing = [n \in Correct |-> {}]
  /\ currentHeader = [n \in Correct |-> NoHeader]
  /\ votesAggregator = [n \in Correct |-> EmptyVotes]
  /\ aggregators = [n \in Correct |-> [r \in Rounds |-> EmptyAggregator]]
  /\ down = [n \in Correct |-> FALSE]
  /\ proposer = [n \in Correct |-> FirstRound]
  /\ toProposer = [n \in Correct |-> << >>]
  /\ toCore = [n \in Correct |-> << >>]
  /\ waitingHeaders = [n \in Correct |-> {}]
  /\ waitingCertificates = [n \in Correct |-> {}]
  /\ consensusRound = [n \in Correct |-> 0]
  /\ stored = [n \in Correct |-> {}]
  /\ payloads = [n \in Correct |-> Payload \ Late]
  /\ restarted = {}

-----------------------------------------------------------------------------
\* What process_header finds out about a header.

HasParents(n, h) == h.parents \subseteq Digests(stored[n]) \cup Genesis

\* The parents are of the round before, and their stakes add up to a quorum; an
\* author counts once for each of its certificates.
WeightOf(ps) == Cardinality(UNION {{p} \X (1 .. Stake[p.author]) : p \in ps})
ValidParents(h) ==
  /\ \A p \in h.parents : p.round + 1 = h.round
  /\ WeightOf(h.parents) >= QuorumThreshold

\* A primary does not look for the batches of its own workers, nor does it
\* recount their accounts.
HasPayload(n, h) == n = h.author \/ h.payload \in payloads[n]
CountsMatch(n, h) == n = h.author \/ h.sound

\* get_parents or missing_payload handed the header to the HeaderWaiter.
Suspends(n, h) ==
  \/ ~ HasParents(n, h)
  \/ /\ h.parents # {} /\ ValidParents(h)
     /\ ~ HasPayload(n, h)

\* Faulty variant: the payload is fetched after the vote.
AcceptsWithoutPayload(n, h) ==
  h.parents # {} /\ HasParents(n, h) /\ ValidParents(h) /\ CountsMatch(n, h)

\* process_header reaches the vote.
Accepts(n, h) ==
  /\ h.parents # {} /\ HasParents(n, h) /\ ValidParents(h)
  /\ HasPayload(n, h) /\ CountsMatch(n, h)

\* process_header returns an error.
Rejects(n, h) ==
  /\ h.parents # {} /\ HasParents(n, h)
  /\ \/ ~ ValidParents(h)
     \/ HasPayload(n, h) /\ ~ CountsMatch(n, h)

\* Faulty variant: an author may be voted for in every header.
MayVoteAgain(n, h) == Accepts(n, h)

\* An accepted header gets a vote unless its author got one for that round.
MayVote(n, h) == Accepts(n, h) /\ Slot(h) \notin lastVoted[n]

LastVotedAfter(n, h) ==
  IF Accepts(n, h) THEN lastVoted[n] \cup {Slot(h)} ELSE lastVoted[n]

-----------------------------------------------------------------------------
\* The two aggregators.

\* Faulty variant: more than a quorum is asked for.
ReachesStrictly(agg, a) == agg.weight + Stake[a] > QuorumThreshold

Reaches(agg, a) == agg.weight + Stake[a] >= QuorumThreshold

\* VotesAggregator::append, for an author that is not in `used`.
AppendVote(agg, a) ==
  [weight |-> IF Reaches(agg, a) THEN 0 ELSE agg.weight + Stake[a],
   used |-> agg.used \cup {a}]

\* CertificatesAggregator::append hands over the parents of the next round.
Completes(agg, c) == c.author \notin agg.used /\ Reaches(agg, c.author)

\* Faulty variant: an author that was seen before counts again.
AppendCertificateAgain(agg, c) ==
  [weight |-> IF Reaches(agg, c.author) THEN 0 ELSE agg.weight + Stake[c.author],
   used |-> {},
   certificates |-> IF Reaches(agg, c.author) THEN {} ELSE agg.certificates \cup {Digest(c)}]

AppendCertificate(agg, c) ==
  IF c.author \in agg.used
  THEN agg
  ELSE [weight |-> IF Reaches(agg, c.author) THEN 0 ELSE agg.weight + Stake[c.author],
        used |-> agg.used \cup {c.author},
        certificates |-> IF Reaches(agg, c.author) THEN {} ELSE agg.certificates \cup {Digest(c)}]

\* The end of process_certificate: a certificate without its parents waits; the
\* others are stored and may complete the parents of a new round. What is
\* stored is also sent to consensus.
AggregatorsAfter(n, c) ==
  IF HasParents(n, c)
  THEN [aggregators[n] EXCEPT ![c.round] = AppendCertificate(@, c)]
  ELSE aggregators[n]

DeliverCertificate(n, c) ==
  IF HasParents(n, c)
  THEN /\ stored' = [stored EXCEPT ![n] = @ \cup {c}]
       /\ waitingCertificates' = [waitingCertificates EXCEPT ![n] = @ \ {c}]
       /\ toProposer' =
            IF Completes(aggregators[n][c.round], c)
            THEN [toProposer EXCEPT ![n] = Append(@,
                    [parents |-> aggregators[n][c.round].certificates \cup {Digest(c)},
                     round |-> c.round])]
            ELSE toProposer
  ELSE /\ waitingCertificates' = [waitingCertificates EXCEPT ![n] = @ \cup {c}]
       /\ UNCHANGED <<stored, toProposer>>

-----------------------------------------------------------------------------
\* Core::run

\* Faulty variants: the subtraction is not guarded; the votes of the collected
\* round itself go too.
CleanupUnguarded(n, voted, seen, agg) ==
  LET gc == consensusRound[n] - GcDepth
  IN  /\ gcRound' = [gcRound EXCEPT ![n] = gc]
      /\ lastVoted' = [lastVoted EXCEPT ![n] = {s \in voted : s[1] >= gc}]
      /\ processing' = [processing EXCEPT ![n] = {h \in seen : h.round >= gc}]
      /\ aggregators' = [aggregators EXCEPT ![n] = agg]
CleanupOneMore(n, voted, seen, agg) ==
  LET gc == IF consensusRound[n] > GcDepth THEN consensusRound[n] - GcDepth
                                           ELSE gcRound[n]
  IN  /\ gcRound' = [gcRound EXCEPT ![n] = gc]
      /\ lastVoted' = [lastVoted EXCEPT ![n] = {s \in voted : s[1] > gc}]
      /\ processing' = [processing EXCEPT ![n] = {h \in seen : h.round >= gc}]
      /\ aggregators' = [aggregators EXCEPT ![n] =
           [r \in Rounds |-> IF r >= gc THEN agg[r] ELSE EmptyAggregator]]

\* Every turn of the loop ends with the clean-up, on what the turn left in the
\* collections: voted, seen and agg.
Cleanup(n, voted, seen, agg) ==
  LET gc == IF consensusRound[n] > GcDepth THEN consensusRound[n] - GcDepth
                                           ELSE gcRound[n]
  IN  /\ gcRound' = [gcRound EXCEPT ![n] = gc]
      /\ lastVoted' = [lastVoted EXCEPT ![n] = {s \in voted : s[1] >= gc}]
      /\ processing' = [processing EXCEPT ![n] = {h \in seen : h.round >= gc}]
      /\ aggregators' = [aggregators EXCEPT ![n] =
           [r \in Rounds |-> IF r >= gc THEN agg[r] ELSE EmptyAggregator]]

\* process_header for a header of another authority.
ProcessHeader(n, h) ==
  /\ votes' = IF MayVote(n, h) THEN votes \cup {<<n, h>>} ELSE votes
  /\ waitingHeaders' = [waitingHeaders EXCEPT ![n] =
       IF Suspends(n, h) THEN @ \cup {h} ELSE @ \ {h}]

\* A header arrives from its author; one below the collected round is refused.
ReceiveHeader(n, h) ==
  /\ ~ down[n]
  /\ h \in headers /\ h.author # n
  /\ gcRound[n] <= h.round
  /\ ProcessHeader(n, h)
  /\ Cleanup(n, LastVotedAfter(n, h), processing[n] \cup {h}, aggregators[n])
  /\ UNCHANGED <<headers, certificates, currentHeader, votesAggregator, down, channels,
                 waitingCertificates, consensusRound, disk, restarted>>

\* The HeaderWaiter loops a header back once the store has what it lacked. Its
\* round is not compared with the collected one.
ResumeHeader(n, h) ==
  /\ ~ down[n]
  /\ h \in waitingHeaders[n]
  /\ HasParents(n, h) /\ (ValidParents(h) => HasPayload(n, h))
  /\ ProcessHeader(n, h)
  /\ Cleanup(n, LastVotedAfter(n, h), processing[n] \cup {h}, aggregators[n])
  /\ UNCHANGED <<headers, certificates, currentHeader, votesAggregator, down, channels,
                 waitingCertificates, consensusRound, disk, restarted>>

\* process_certificate for a certificate of another authority. The header is
\* processed first unless it was already; its error is the certificate's.
ProcessCertificate(n, c) ==
  LET known == c \in processing[n]
      failed == ~ known /\ Rejects(n, c)
  IN  /\ IF known THEN UNCHANGED <<votes, waitingHeaders>> ELSE ProcessHeader(n, c)
      /\ IF failed
         THEN /\ waitingCertificates' = [waitingCertificates EXCEPT ![n] = @ \ {c}]
              /\ UNCHANGED <<stored, toProposer>>
         ELSE DeliverCertificate(n, c)
      /\ Cleanup(n, IF known THEN lastVoted[n] ELSE LastVotedAfter(n, c),
                 processing[n] \cup {c},
                 IF failed THEN aggregators[n] ELSE AggregatorsAfter(n, c))
      /\ UNCHANGED <<headers, certificates, currentHeader, votesAggregator, down,
                     proposer, toCore, consensusRound, payloads, restarted>>

ReceiveCertificate(n, c) ==
  /\ ~ down[n]
  /\ c \in certificates /\ c.author # n
  /\ gcRound[n] <= c.round
  /\ ProcessCertificate(n, c)

\* The CertificateWaiter loops a certificate back once its parents are stored.
ResumeCertificate(n, c) ==
  /\ ~ down[n]
  /\ c \in waitingCertificates[n]
  /\ HasParents(n, c)
  /\ ProcessCertificate(n, c)

\* process_own_header: broadcast, then process_header, whose vote goes straight
\* to the new aggregator and may be a quorum by itself.
OwnHeader(n) ==
  /\ ~ down[n]
  /\ toCore[n] # << >>
  /\ LET h == Head(toCore[n])
         certified == MayVote(n, h) /\ Reaches(EmptyVotes, n)
     IN  /\ headers' = headers \cup {h}
         /\ currentHeader' = [currentHeader EXCEPT ![n] = h]
         /\ votesAggregator' = [votesAggregator EXCEPT ![n] =
              IF MayVote(n, h) THEN AppendVote(EmptyVotes, n) ELSE EmptyVotes]
         /\ toCore' = [toCore EXCEPT ![n] = Tail(@)]
         /\ ProcessHeader(n, h)
         /\ certificates' = IF certified THEN certificates \cup {h} ELSE certificates
         /\ IF certified THEN DeliverCertificate(n, h)
                         ELSE UNCHANGED <<stored, toProposer, waitingCertificates>>
         /\ Cleanup(n, LastVotedAfter(n, h), processing[n] \cup {h},
                    IF certified THEN AggregatorsAfter(n, h) ELSE aggregators[n])
  /\ UNCHANGED <<down, proposer, consensusRound, payloads, restarted>>

\* a's signature on the current header of n has reached n.
VoteArrives(n, a) == a \in Byzantine \/ <<a, currentHeader[n]>> \in votes

\* process_vote: a vote for the current header. At a quorum the certificate is
\* broadcast and processed; process_header comes first if the clean-up made
\* Core forget the header, and then votes again: the aggregator refuses the
\* second vote of n and the expect on it fails.
ReceiveVote(n, a) ==
  /\ ~ down[n]
  /\ a # n /\ currentHeader[n] # NoHeader
  /\ VoteArrives(n, a)
  /\ a \notin votesAggregator[n].used
  /\ LET h == currentHeader[n]
         certified == Reaches(votesAggregator[n], a)
         refused == h \notin processing[n] /\ MayVote(n, h) /\ n \in votesAggregator[n].used
     IN  /\ votesAggregator' =
              [votesAggregator EXCEPT ![n] = AppendVote(@, a)]
         /\ certificates' = IF certified THEN certificates \cup {h} ELSE certificates
         /\ IF certified /\ ~ refused
            THEN DeliverCertificate(n, h)
            ELSE UNCHANGED <<stored, toProposer, waitingCertificates>>
         /\ IF certified /\ refused
            THEN /\ down' = [down EXCEPT ![n] = TRUE]
                 /\ UNCHANGED <<gcRound, lastVoted, processing, aggregators>>
            ELSE /\ Cleanup(n, lastVoted[n],
                            IF certified THEN processing[n] \cup {h} ELSE processing[n],
                            IF certified THEN AggregatorsAfter(n, h) ELSE aggregators[n])
                 /\ UNCHANGED down
  /\ UNCHANGED <<headers, votes, currentHeader, proposer, toCore, waitingHeaders,
                 consensusRound, payloads, restarted>>

\* A message that a sanitize function or an aggregator refuses: the turn has
\* nothing but the clean-up.
RefuseMessage(n) ==
  /\ ~ down[n]
  /\ Cleanup(n, lastVoted[n], processing[n], aggregators[n])
  /\ UNCHANGED <<network, currentHeader, votesAggregator, down, channels, waiters,
                 disk, restarted>>

-----------------------------------------------------------------------------
\* The other tasks of a primary.

NewHeader(n) ==
  [author |-> n, round |-> proposer[n].round, parents |-> proposer[n].lastParents,
   payload |-> Contents[n][IF n \in restarted THEN 2 ELSE 1], sound |-> TRUE]

\* Faulty variant: last_parents stays, for another header with other batches.
MakeHeaderAgain(n) ==
  /\ ~ down[n]
  /\ proposer[n].lastParents # {}
  /\ proposer[n].round <= MaxRound
  /\ Len(toCore[n]) < 2
  /\ \E p \in Payload :
       toCore' = [toCore EXCEPT ![n] = Append(@, [NewHeader(n) EXCEPT !.payload = p])]
  /\ UNCHANGED <<network, core, proposer, toProposer, waiters, disk, restarted>>

\* make_header: the header takes last_parents with it.
MakeHeader(n) ==
  /\ ~ down[n]
  /\ proposer[n].lastParents # {}
  /\ proposer[n].round <= MaxRound
  /\ toCore' = [toCore EXCEPT ![n] = Append(@, NewHeader(n))]
  /\ proposer' = [proposer EXCEPT ![n].lastParents = {}]
  /\ UNCHANGED <<network, core, toProposer, waiters, disk, restarted>>

\* Proposer::run takes the parents of a round from Core.
AdvanceRound(n) ==
  /\ ~ down[n]
  /\ toProposer[n] # << >>
  /\ LET next == Head(toProposer[n])
     IN  proposer' = IF next.round < proposer[n].round
                     THEN proposer
                     ELSE [proposer EXCEPT ![n] =
                            [round |-> next.round + 1, lastParents |-> next.parents]]
  /\ toProposer' = [toProposer EXCEPT ![n] = Tail(@)]
  /\ UNCHANGED <<network, core, toCore, waiters, disk, restarted>>

\* GarbageCollector::run: consensus has committed a certificate of round r.
Commit(n) ==
  /\ \E c \in stored[n], top \in stored[n] :
       /\ c.round > consensusRound[n]
       /\ top.round >= c.round + CommitLag
       /\ consensusRound' = [consensusRound EXCEPT ![n] = c.round]
  /\ UNCHANGED <<network, core, channels, waitingHeaders, waitingCertificates,
                 disk, restarted>>

\* PayloadReceiver: a worker reports a batch of another authority.
PayloadArrives(n, p) ==
  /\ p \notin payloads[n]
  /\ payloads' = [payloads EXCEPT ![n] = @ \cup {p}]
  /\ UNCHANGED <<network, core, channels, waiters, stored, restarted>>

\* The HeaderWaiter gives up headers at or below the collected round.
CancelHeader(n, h) ==
  /\ h \in waitingHeaders[n]
  /\ consensusRound[n] > GcDepth
  /\ h.round <= consensusRound[n] - GcDepth
  /\ waitingHeaders' = [waitingHeaders EXCEPT ![n] = @ \ {h}]
  /\ UNCHANGED <<network, core, channels, waitingCertificates, consensusRound,
                 disk, restarted>>

\* The primary starts again, with nothing but its store.
Restart(n) ==
  /\ n \in MayRestart \ restarted
  /\ restarted' = restarted \cup {n}
  /\ gcRound' = [gcRound EXCEPT ![n] = 0]
  /\ lastVoted' = [lastVoted EXCEPT ![n] = {}]
  /\ processing' = [processing EXCEPT ![n] = {}]
  /\ currentHeader' = [currentHeader EXCEPT ![n] = NoHeader]
  /\ votesAggregator' = [votesAggregator EXCEPT ![n] = EmptyVotes]
  /\ aggregators' = [aggregators EXCEPT ![n] = [r \in Rounds |-> EmptyAggregator]]
  /\ down' = [down EXCEPT ![n] = FALSE]
  /\ proposer' = [proposer EXCEPT ![n] = FirstRound]
  /\ toProposer' = [toProposer EXCEPT ![n] = << >>]
  /\ toCore' = [toCore EXCEPT ![n] = << >>]
  /\ waitingHeaders' = [waitingHeaders EXCEPT ![n] = {}]
  /\ waitingCertificates' = [waitingCertificates EXCEPT ![n] = {}]
  /\ consensusRound' = [consensusRound EXCEPT ![n] = 0]
  /\ UNCHANGED <<network, disk>>

-----------------------------------------------------------------------------
\* The Byzantine authorities: they sign any header and vote for every header of
\* theirs, but cannot sign for others.

ForgeHeader(b) ==
  /\ Cardinality({h \in headers : h.author \in Byzantine}) < MaxForged
  /\ \E r \in Rounds, form \in Forms :
       LET h == [author |-> b, round |-> r,
                 parents |-> {d \in Digests(certificates) \cup Genesis :
                                d.round = r - 1 /\ d.author \in form.parents},
                 payload |-> form.payload, sound |-> form.sound]
       IN  /\ Digest(h) \notin Digests(headers)
           /\ headers' = headers \cup {h}
  /\ UNCHANGED <<votes, certificates, core, channels, waiters, disk, restarted>>

\* Who has signed, or can at any time sign, h.
Signers(h) == {a \in Authorities : a \in Byzantine \/ <<a, h>> \in votes}

\* Certificate::verify accepts a certificate of h.
Certifies(h) == IsQuorum(Signers(h))

CertifyForged(h) ==
  /\ h \in headers /\ h.author \in Byzantine
  /\ Certifies(h)
  /\ certificates' = certificates \cup {h}
  /\ UNCHANGED <<headers, votes, core, channels, waiters, disk, restarted>>

-----------------------------------------------------------------------------
CoreStep(n) ==
  \/ \E h \in headers : ReceiveHeader(n, h)
  \/ \E h \in waitingHeaders[n] : ResumeHeader(n, h)
  \/ \E c \in certificates : ReceiveCertificate(n, c)
  \/ \E c \in waitingCertificates[n] : ResumeCertificate(n, c)
  \/ OwnHeader(n)
  \/ \E a \in Authorities : ReceiveVote(n, a)
  \/ RefuseMessage(n)

TaskStep(n) ==
  \/ MakeHeader(n)
  \/ AdvanceRound(n)
  \/ Commit(n)
  \/ \E p \in Payload : PayloadArrives(n, p)
  \/ \E h \in waitingHeaders[n] : CancelHeader(n, h)

ByzantineStep ==
  \/ \E b \in Byzantine : ForgeHeader(b)
  \/ \E h \in headers : CertifyForged(h)

Next ==
  \/ \E n \in Correct : CoreStep(n) \/ TaskStep(n) \/ Restart(n)
  \/ ByzantineStep

Spec == Init /\ [][Next]_vars

-----------------------------------------------------------------------------
\* The fields of Core, Proposer, the aggregators and the waiters hold what their
\* declarations say: in particular no collected round is negative (core.rs
\* subtracts unsigned numbers) and a header cites digests.
DigestOf ==
  [author : Authorities, round : 0 .. MaxRound, payload : Payload \cup {NoHeader.payload}]
Header ==
  [author : Authorities, round : Rounds, parents : SUBSET DigestOf, payload : Payload,
   sound : BOOLEAN]
Aggregator ==
  [weight : Nat, used : SUBSET Authorities, certificates : SUBSET DigestOf]

TypeOK ==
  /\ headers \subseteq Header
  /\ votes \subseteq Correct \X Header
  /\ certificates \subseteq Header
  /\ gcRound \in [Correct -> Nat] /\ consensusRound \in [Correct -> Nat]
  /\ lastVoted \in [Correct -> SUBSET (Rounds \X Authorities)]
  /\ processing \in [Correct -> SUBSET Header]
  /\ currentHeader \in [Correct -> Header \cup {NoHeader}]
  /\ votesAggregator \in [Correct -> [weight : Nat, used : SUBSET Authorities]]
  /\ aggregators \in [Correct -> [Rounds -> Aggregator]]
  /\ down \in [Correct -> BOOLEAN]
  /\ proposer \in [Correct -> [round : Nat \ {0}, lastParents : SUBSET DigestOf]]
  /\ toProposer \in [Correct -> Seq([parents : SUBSET DigestOf, round : Rounds])]
  /\ toCore \in [Correct -> Seq(Header)]
  /\ waitingHeaders \in [Correct -> SUBSET Header]
  /\ waitingCertificates \in [Correct -> SUBSET Header]
  /\ stored \in [Correct -> SUBSET Header]
  /\ payloads \in [Correct -> SUBSET Payload]
  /\ restarted \subseteq Correct

-----------------------------------------------------------------------------
\* A node that forgot its votes in a restart is as bad as a Byzantine one, and
\* one that collected the round may have voted again in it.
Forgetful(r) == Byzantine \cup restarted \cup {n \in Correct : r < gcRound[n]}

\* One certificate for each author and round, which Tusk and the parents' check
\* assume: two different ones need f + 1 of stake whose last_voted is lost, by
\* fault, by restart or by garbage collection.
CertificateUniqueness ==
  \A c, d \in certificates :
    Slot(c) = Slot(d) /\ StakeOf(Forgetful(c.round)) < ValidityThreshold => c = d

\* The comment in process_certificate: of a certified header "we are sure that
\* all the data it refers to (ie. its payload and its parents) are available".
\* Correct authorities of f + 1 stake have it, and its account counts are right.
CertifiedAvailable ==
  \A c \in certificates :
    /\ StakeOf({n \in Correct : HasParents(n, c) /\ HasPayload(n, c)}) >= ValidityThreshold
    /\ c.sound

\* What the Proposer makes a header of, or has made one of, are certificates of a
\* quorum in the round before, all of them in the store: Core never suspends or
\* rejects a header of its own.
ParentsReady ==
  \A n \in Correct :
    /\ \A i \in DOMAIN toCore[n] : Accepts(n, toCore[n][i])
    /\ proposer[n].lastParents # {} =>
         /\ \A p \in proposer[n].lastParents : p.round + 1 = proposer[n].round
         /\ WeightOf(proposer[n].lastParents) >= QuorumThreshold

\* A correct authority that has not restarted never broadcasts two headers for
\* one round, whatever order the parents of several rounds arrive in.
NoEquivocation ==
  \A h, i \in headers :
    Slot(h) = Slot(i) /\ h.author \in Correct \ restarted => h = i

\* "Failed to process our own vote" (Core::process_header) is an expect: nothing
\* makes the aggregator refuse a vote of the node itself.
OwnVoteAccepted == \A n \in Correct : ~ down[n]

-----------------------------------------------------------------------------
\* Every task is polled while it has something to do, and what correct
\* authorities send each other arrives in the end (ReliableSender resends).
Fairness ==
  \A n \in Correct :
    /\ WF_vars(\E h \in headers : h.author \in Correct /\ ReceiveHeader(n, h))
    /\ WF_vars(\E h \in waitingHeaders[n] : ResumeHeader(n, h))
    /\ WF_vars(\E c \in certificates : c.author \in Correct /\ ReceiveCertificate(n, c))
    /\ WF_vars(\E c \in waitingCertificates[n] : ResumeCertificate(n, c))
    /\ WF_vars(OwnHeader(n))
    /\ WF_vars(\E a \in Correct : ReceiveVote(n, a))
    /\ WF_vars(MakeHeader(n))
    /\ WF_vars(AdvanceRound(n))

FairSpec == Spec /\ Fairness

\* Every correct authority gets past the last round: the rounds do not stop.
RoundProgress ==
  \A n \in Correct : <>(proposer[n].round > MaxRound)
==============================================================================
