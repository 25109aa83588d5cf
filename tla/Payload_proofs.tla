--------------------------- MODULE Payload_proofs ---------------------------
(***************************************************************************)
(* AcceptedAvailable for every set of headers and batches, whoever holds   *)
(* them, every GC depth and number of losses.  What the primary goes by    *)
(* are reports; a report is made of what is stored, and the worker deletes *)
(* nothing but the batches of headers committed long ago.  RequestKept     *)
(* follows a request from the worker to the report that makes it needless. *)
(***************************************************************************)
EXTENDS Payload, TLAPS

Shape ==
  /\ toWaiter \in [Headers -> SUBSET Batches]
  /\ waiting \in [Headers -> SUBSET Batches]
  /\ accepted \subseteq Headers /\ committed \subseteq Headers
  /\ consensusRound \in Nat /\ workerRound \in Nat
  /\ cleanups \in Seq(Nat)
  /\ commits \in Seq([round : Rounds, digests : SUBSET Batches])
  /\ committedBatches \in [Rounds -> SUBSET Batches]

\* A header waits for all of its batches that were not reported, and is accepted
\* when none is left.
Complete(h) ==
  /\ toWaiter[h] # {} => PayloadOf[h] \subseteq toWaiter[h] \cup reported
  /\ waiting[h] # {} => PayloadOf[h] \subseteq waiting[h] \cup reported
  /\ h \in accepted => PayloadOf[h] \subseteq reported

\* What the worker is told, and recorded, as committed was committed.
Truthful ==
  /\ \A i \in DOMAIN commits : \E g \in committed :
       Round[g] = commits[i].round /\ PayloadOf[g] = commits[i].digests
  /\ \A r \in Rounds : \A b \in committedBatches[r] : \E g \in committed :
       Round[g] = r /\ b \in PayloadOf[g]

\* The rounds that the worker is told of do not fall.
Rising ==
  /\ workerRound <= consensusRound
  /\ \A i \in DOMAIN cleanups :
       /\ workerRound <= cleanups[i] /\ cleanups[i] <= consensusRound
       /\ \A j \in DOMAIN cleanups : i < j => cleanups[i] <= cleanups[j]

\* A batch the worker may have deleted.
Old(b) == \E g \in committed : b \in PayloadOf[g] /\ Round[g] + 2 * GcDepth <= workerRound

Kept == \A b \in reported \cup reports : b \in stored \/ Old(b)

Availability ==
  /\ Shape /\ Truthful /\ Rising /\ Kept
  /\ \A h \in Headers : Complete(h)

----------------------------------------------------------------------------
LEMMA RoundTyped ==
  /\ \A h \in Headers : Round[h] \in Nat /\ Round[h] \in Rounds
  /\ Rounds \subseteq Nat
  /\ \A h \in Headers : PayloadOf[h] \in SUBSET Batches
  /\ GcDepth \in Nat
<1>1. \A h \in Headers : Round[h] \in Nat
  BY PayloadAssumption
<1> QED
  BY <1>1, PayloadAssumption DEF Rounds

\* Taking the first message of a queue leaves the others.
LEMMA TailShift ==
  ASSUME NEW S, NEW s \in Seq(S), s # << >>
  PROVE  /\ Tail(s) \in Seq(S) /\ Head(s) \in S
         /\ 1 \in DOMAIN s /\ Head(s) = s[1]
         /\ \A i \in DOMAIN Tail(s) :
              i \in Nat /\ i > 0 /\ i + 1 \in DOMAIN s /\ Tail(s)[i] = s[i + 1]
  OBVIOUS

LEMMA AppendShift ==
  ASSUME NEW S, NEW s \in Seq(S), NEW e \in S
  PROVE  /\ Append(s, e) \in Seq(S)
         /\ \A i \in DOMAIN Append(s, e) :
              \/ i \in DOMAIN s /\ Append(s, e)[i] = s[i]
              \/ Append(s, e)[i] = e /\ \A j \in DOMAIN s : j < i
  OBVIOUS

LEMMA OldStays ==
  ASSUME NEW b, Old(b), committed \subseteq committed', workerRound <= workerRound',
         workerRound \in Nat, workerRound' \in Nat, committed \subseteq Headers
  PROVE  Old(b)'
<1>1. PICK g \in committed : b \in PayloadOf[g] /\ Round[g] + 2 * GcDepth <= workerRound
  BY DEF Old
<1>2. Round[g] \in Nat /\ GcDepth \in Nat
  BY RoundTyped
<1>3. Round[g] + 2 * GcDepth <= workerRound'
  BY <1>1, <1>2
<1> QED
  BY <1>1, <1>3 DEF Old

\* What a step must leave in order for the rest to stay.
LEMMA TruthStays ==
  ASSUME Truthful, committed \subseteq committed', UNCHANGED <<commits, committedBatches>>
  PROVE  Truthful'
  BY DEF Truthful

LEMMA RisingStays ==
  ASSUME Rising, UNCHANGED <<cleanups, workerRound, consensusRound>>
  PROVE  Rising'
  BY DEF Rising

LEMMA KeptStays ==
  ASSUME Kept, Shape, workerRound' = workerRound, committed \subseteq committed',
         stored \subseteq stored',
         \A b \in reported' \cup reports' : b \in reported \cup reports \cup stored'
  PROVE  Kept'
  BY OldStays DEF Kept, Shape

LEMMA CompleteStays ==
  ASSUME NEW h, Complete(h), reported \subseteq reported',
         h \in accepted' => h \in accepted,
         toWaiter'[h] = toWaiter[h] \/ toWaiter'[h] = {},
         waiting'[h] = waiting[h] \/ waiting'[h] = {}
  PROVE  Complete(h)'
  BY DEF Complete

LEMMA RetainedEffect ==
  ASSUME NEW w \in [Headers -> SUBSET Batches]
  PROVE  /\ Retained(w) \in [Headers -> SUBSET Batches]
         /\ \A h \in Headers : Retained(w)[h] = w[h] \/ Retained(w)[h] = {}
  BY DEF Retained

----------------------------------------------------------------------------
\* The primary: what is not reported is waited for.
LEMMA HeaderStep ==
  ASSUME Availability, NEW h \in Headers,
         ProcessHeader(h) \/ SyncBatches(h) \/ Resume(h) \/ Tick
  PROVE  Availability'
<1>1. Shape /\ Truthful /\ Rising /\ Kept /\ \A k \in Headers : Complete(k)
  BY DEF Availability
<1>2. UNCHANGED <<reported, committed, consensusRound, cleanups, commits, reports, workerRound,
                  committedBatches, stored>>
  BY DEF ProcessHeader, SyncBatches, Resume, Tick, consensusVars, primaryLinks, workerVars
<1>3. Truthful' /\ Rising' /\ Kept'
  BY <1>1, <1>2, TruthStays, RisingStays, KeptStays
<1>4. PayloadOf[h] \in SUBSET Batches
  BY RoundTyped
<1>5. CASE ProcessHeader(h)
  <2>1. /\ waiting' = waiting
        /\ \/ PayloadOf[h] \subseteq reported /\ accepted' = accepted \cup {h} /\ toWaiter' = toWaiter
           \/ toWaiter' = [toWaiter EXCEPT ![h] = PayloadOf[h] \ reported] /\ accepted' = accepted
    BY <1>5 DEF ProcessHeader
  <2>2. Shape'
    BY <1>1, <1>2, <1>4, <2>1 DEF Shape
  <2>3. ASSUME NEW k \in Headers PROVE Complete(k)'
    BY <1>1, <1>2, <2>1 DEF Complete, Shape
  <2> QED
    BY <1>3, <2>2, <2>3 DEF Availability
<1>6. CASE SyncBatches(h)
  <2> DEFINE w == [waiting EXCEPT ![h] = toWaiter[h]]
  <2>1. /\ toWaiter' = [toWaiter EXCEPT ![h] = {}] /\ waiting' = Retained(w)
        /\ accepted' = accepted
    BY <1>6 DEF SyncBatches
  <2>2. w \in [Headers -> SUBSET Batches]
    BY <1>1 DEF Shape
  <2>3. \A k \in Headers : waiting'[k] = w[k] \/ waiting'[k] = {}
    BY <2>1, <2>2, RetainedEffect
  <2>4. Shape'
    BY <1>1, <1>2, <2>1, <2>2, RetainedEffect DEF Shape
  <2>5. ASSUME NEW k \in Headers PROVE Complete(k)'
    <3>1. CASE k = h
      <4>1. w[k] = toWaiter[k] /\ toWaiter'[k] = {}
        BY <1>1, <2>1, <3>1 DEF Shape
      <4> QED
        BY <1>1, <1>2, <2>1, <2>3, <4>1 DEF Complete
    <3>2. CASE k # h
      <4>1. w[k] = waiting[k] /\ toWaiter'[k] = toWaiter[k]
        BY <1>1, <2>1, <3>2 DEF Shape
      <4> QED
        BY <1>1, <1>2, <2>1, <2>3, <4>1, CompleteStays
    <3> QED
      BY <3>1, <3>2
  <2> QED
    BY <1>3, <2>4, <2>5 DEF Availability
<1>7. CASE Resume(h)
  <2> DEFINE w == [waiting EXCEPT ![h] = {}]
  <2>1. /\ toWaiter' = toWaiter /\ waiting' = Retained(w) /\ accepted' = accepted \cup {h}
        /\ waiting[h] # {} /\ waiting[h] \subseteq reported
    BY <1>7 DEF Resume
  <2>2. w \in [Headers -> SUBSET Batches] /\ \A k \in Headers : w[k] = waiting[k] \/ w[k] = {}
    BY <1>1 DEF Shape
  <2>3. \A k \in Headers : waiting'[k] = waiting[k] \/ waiting'[k] = {}
    BY <2>1, <2>2, RetainedEffect
  <2>4. Shape'
    BY <1>1, <1>2, <2>1, <2>2, RetainedEffect DEF Shape
  <2>5. PayloadOf[h] \subseteq reported
    BY <1>1, <2>1 DEF Complete
  <2>6. ASSUME NEW k \in Headers PROVE Complete(k)'
    BY <1>1, <1>2, <2>1, <2>3, <2>5 DEF Complete
  <2> QED
    BY <1>3, <2>4, <2>6 DEF Availability
<1>8. CASE Tick
  <2>1. UNCHANGED <<toWaiter, accepted>> /\ waiting' = Retained(waiting)
    BY <1>8 DEF Tick
  <2>2. \A k \in Headers : waiting'[k] = waiting[k] \/ waiting'[k] = {}
    BY <1>1, <2>1, RetainedEffect DEF Shape
  <2>3. Shape'
    BY <1>1, <1>2, <2>1, RetainedEffect DEF Shape
  <2>4. ASSUME NEW k \in Headers PROVE Complete(k)'
    BY <1>1, <1>2, <2>1, <2>2, CompleteStays
  <2> QED
    BY <1>3, <2>3, <2>4 DEF Availability
<1> QED
  BY <1>5, <1>6, <1>7, <1>8

----------------------------------------------------------------------------
\* A commit, and what the worker makes of it.
LEMMA CommitStep ==
  ASSUME Availability, NEW h \in Headers, Commit(h)
  PROVE  Availability'
<1>1. Shape /\ Truthful /\ Rising /\ Kept /\ \A k \in Headers : Complete(k)
  BY DEF Availability
<1> DEFINE m == [round |-> Round[h], digests |-> PayloadOf[h]]
           Message == [round : Rounds, digests : SUBSET Batches]
<1>2. /\ committed' = committed \cup {h} /\ commits' = Append(commits, m)
      /\ UNCHANGED <<toWaiter, waiting, reported, accepted, reports, workerRound,
                     committedBatches, stored>>
      /\ \/ Round[h] > consensusRound /\ consensusRound' = Round[h]
            /\ cleanups' = Append(cleanups, Round[h])
         \/ UNCHANGED <<consensusRound, cleanups>>
  BY DEF Commit, primaryVars, workerVars
<1>3. /\ Round[h] \in Nat /\ m \in Message
      /\ m.round = Round[h] /\ m.digests = PayloadOf[h]
  BY RoundTyped
<1>4. commits \in Seq(Message) /\ cleanups \in Seq(Nat)
      /\ consensusRound \in Nat /\ workerRound \in Nat
  BY <1>1 DEF Shape
<1> HIDE DEF m, Message
<1>5. commits' \in Seq(Message) /\ cleanups' \in Seq(Nat) /\ consensusRound' \in Nat
  BY <1>2, <1>3, <1>4, AppendShift
<1>6. Shape'
  BY <1>1, <1>2, <1>5 DEF Shape, Message
<1>7. Truthful'
  <2>1. ASSUME NEW i \in DOMAIN commits'
        PROVE  \E g \in committed' : Round[g] = commits'[i].round /\ PayloadOf[g] = commits'[i].digests
    <3>1. \/ i \in DOMAIN commits /\ commits'[i] = commits[i]
          \/ commits'[i] = m
      BY <1>2, <1>3, <1>4, AppendShift
    <3> QED
      BY <1>1, <1>2, <1>3, <3>1 DEF Truthful
  <2>2. \A r \in Rounds : \A b \in committedBatches'[r] : \E g \in committed' :
          Round[g] = r /\ b \in PayloadOf[g]
    BY <1>1, <1>2 DEF Truthful
  <2> QED
    BY <2>1, <2>2 DEF Truthful
<1>8. Rising'
  <2>1. CASE UNCHANGED <<consensusRound, cleanups>>
    BY <1>1, <1>2, <2>1, RisingStays
  <2>2. CASE Round[h] > consensusRound /\ consensusRound' = Round[h]
             /\ cleanups' = Append(cleanups, Round[h])
    <3>1. \A i \in DOMAIN cleanups : cleanups[i] \in Nat
      BY <1>4
    <3>2. \A i \in DOMAIN cleanups' : \/ i \in DOMAIN cleanups /\ cleanups'[i] = cleanups[i]
                                      \/ cleanups'[i] = Round[h] /\ \A j \in DOMAIN cleanups : j < i
      BY <1>3, <1>4, <2>2, AppendShift
    <3>3. \A i \in DOMAIN cleanups' :
            workerRound <= cleanups'[i] /\ cleanups'[i] <= Round[h]
      BY <1>1, <1>3, <1>4, <2>2, <3>1, <3>2 DEF Rising
    <3>4. ASSUME NEW i \in DOMAIN cleanups', NEW j \in DOMAIN cleanups', i < j
          PROVE  cleanups'[i] <= cleanups'[j]
      <4>1. CASE cleanups'[j] = Round[h]
        BY <3>3, <4>1
      <4>2. CASE j \in DOMAIN cleanups /\ cleanups'[j] = cleanups[j]
        <5>1. i \in Nat /\ j \in Nat
          BY <1>4, <1>5
        <5>2. i \in DOMAIN cleanups /\ cleanups'[i] = cleanups[i]
          BY <3>2, <3>4, <4>2, <5>1
        <5> QED
          BY <1>1, <3>4, <4>2, <5>2 DEF Rising
      <4> QED
        BY <3>2, <4>1, <4>2
    <3> QED
      BY <1>1, <1>2, <1>3, <1>4, <2>2, <3>3, <3>4 DEF Rising
  <2> QED
    BY <1>2, <2>1, <2>2
<1>9. Kept'
  BY <1>1, <1>2, KeptStays
<1>10. \A k \in Headers : Complete(k)'
  BY <1>1, <1>2 DEF Complete
<1> QED
  BY <1>6, <1>7, <1>8, <1>9, <1>10 DEF Availability

\* The worker notes the batches of a commit, or loses the message.
LEMMA CommitsTaken ==
  ASSUME Availability, commits # << >>, commits' = Tail(commits),
         \/ committedBatches' = [committedBatches EXCEPT
              ![Head(commits).round] = committedBatches[Head(commits).round]
                                         \cup Head(commits).digests]
         \/ committedBatches' = committedBatches,
         UNCHANGED <<primaryVars, consensusVars, cleanups, reports, workerRound, stored>>
  PROVE  Availability'
<1>1. Shape /\ Truthful /\ Rising /\ Kept /\ \A k \in Headers : Complete(k)
  BY DEF Availability
<1> DEFINE m == Head(commits)
           Message == [round : Rounds, digests : SUBSET Batches]
<1>2. UNCHANGED <<toWaiter, waiting, reported, accepted, committed, consensusRound, cleanups,
                  reports, workerRound, stored>>
  BY DEF primaryVars, consensusVars
<1>3. commits \in Seq(Message) /\ committedBatches \in [Rounds -> SUBSET Batches]
  BY <1>1 DEF Shape
<1>4. /\ Tail(commits) \in Seq(Message) /\ m \in Message /\ 1 \in DOMAIN commits /\ m = commits[1]
      /\ \A i \in DOMAIN Tail(commits) : i + 1 \in DOMAIN commits /\ Tail(commits)[i] = commits[i + 1]
  <2> HIDE DEF Message
  <2> QED
    BY <1>3, TailShift
<1>5. m.round \in Rounds /\ m.digests \in SUBSET Batches
  BY <1>4
<1> HIDE DEF m, Message
<1>6. \/ committedBatches' = [committedBatches EXCEPT
           ![m.round] = committedBatches[m.round] \cup m.digests]
      \/ committedBatches' = committedBatches
  BY DEF m
<1>7. Shape'
  <2>1. committedBatches' \in [Rounds -> SUBSET Batches]
    BY <1>3, <1>5, <1>6
  <2> QED
    BY <1>1, <1>2, <1>4, <2>1 DEF Shape, Message
<1>8. Truthful'
  <2>1. \A i \in DOMAIN commits' : \E g \in committed' :
          Round[g] = commits'[i].round /\ PayloadOf[g] = commits'[i].digests
    BY <1>1, <1>2, <1>4 DEF Truthful
  <2>2. ASSUME NEW r \in Rounds, NEW b \in committedBatches'[r]
        PROVE  \E g \in committed' : Round[g] = r /\ b \in PayloadOf[g]
    <3>1. b \in committedBatches[r] \/ (r = m.round /\ b \in m.digests)
      BY <1>3, <1>5, <1>6, <2>2
    <3>2. \E g \in committed : Round[g] = m.round /\ PayloadOf[g] = m.digests
      BY <1>1, <1>4 DEF Truthful
    <3> QED
      BY <1>1, <1>2, <3>1, <3>2 DEF Truthful
  <2> QED
    BY <2>1, <2>2 DEF Truthful
<1>9. Rising' /\ Kept' /\ \A k \in Headers : Complete(k)'
  BY <1>1, <1>2, RisingStays, KeptStays DEF Complete
<1> QED
  BY <1>7, <1>8, <1>9 DEF Availability

\* The worker cleans up for a round, or loses the message.
LEMMA CleanupsTaken ==
  ASSUME Availability, cleanups # << >>, cleanups' = Tail(cleanups),
         \/ /\ workerRound' = Head(cleanups)
            /\ committedBatches' = [r \in Rounds |->
                 IF r \in Deleted(Head(cleanups)) THEN {} ELSE committedBatches[r]]
            /\ stored' = stored \ UNION {committedBatches[r] : r \in Deleted(Head(cleanups))}
         \/ UNCHANGED <<workerRound, committedBatches, stored>>,
         UNCHANGED <<primaryVars, consensusVars, commits, reports>>
  PROVE  Availability'
<1>1. Shape /\ Truthful /\ Rising /\ Kept /\ \A k \in Headers : Complete(k)
  BY DEF Availability
<1>2. UNCHANGED <<toWaiter, waiting, reported, accepted, committed, consensusRound, commits, reports>>
  BY DEF primaryVars, consensusVars
<1>3. cleanups \in Seq(Nat) /\ workerRound \in Nat /\ consensusRound \in Nat
  BY <1>1 DEF Shape
<1>4. PICK round : round = Head(cleanups)
  OBVIOUS
<1>5. /\ Tail(cleanups) \in Seq(Nat) /\ round \in Nat /\ 1 \in DOMAIN cleanups /\ round = cleanups[1]
      /\ \A i \in DOMAIN Tail(cleanups) :
           /\ i \in Nat /\ i > 0 /\ i + 1 \in DOMAIN cleanups
           /\ Tail(cleanups)[i] = cleanups[i + 1]
  BY <1>3, <1>4, TailShift
<1>6. /\ workerRound <= round /\ round <= consensusRound
      /\ \A i \in DOMAIN cleanups' : /\ round <= cleanups'[i] /\ workerRound <= cleanups'[i]
                                     /\ cleanups'[i] <= consensusRound
  <2>1. ASSUME NEW i \in DOMAIN cleanups'
        PROVE  /\ round <= cleanups'[i] /\ workerRound <= cleanups'[i]
               /\ cleanups'[i] <= consensusRound
    <3>1. 1 < i + 1 /\ i + 1 \in DOMAIN cleanups /\ cleanups'[i] = cleanups[i + 1]
      BY <1>5
    <3> QED
      BY <1>1, <1>5, <3>1 DEF Rising
  <2> QED
    BY <1>1, <1>5, <2>1 DEF Rising
<1>7. \A i, j \in DOMAIN cleanups' : i < j => cleanups'[i] <= cleanups'[j]
  <2> SUFFICES ASSUME NEW i \in DOMAIN cleanups', NEW j \in DOMAIN cleanups', i < j
               PROVE  cleanups'[i] <= cleanups'[j]
    OBVIOUS
  <2>1. /\ i + 1 < j + 1 /\ i + 1 \in DOMAIN cleanups /\ j + 1 \in DOMAIN cleanups
        /\ cleanups'[i] = cleanups[i + 1] /\ cleanups'[j] = cleanups[j + 1]
    BY <1>5
  <2> QED
    BY <1>1, <2>1 DEF Rising
<1>8. workerRound' = workerRound \/ workerRound' = round
  BY <1>4
<1>9. Rising'
  BY <1>1, <1>2, <1>6, <1>7, <1>8 DEF Rising
<1>10. \A r \in Rounds : committedBatches'[r] = committedBatches[r] \/ committedBatches'[r] = {}
  OBVIOUS
<1>11. Shape'
  <2>1. committedBatches' \in [Rounds -> SUBSET Batches]
    BY <1>1 DEF Shape
  <2> QED
    BY <1>1, <1>2, <1>3, <1>5, <1>8, <2>1 DEF Shape
<1>12. Truthful'
  BY <1>1, <1>2, <1>10 DEF Truthful
<1>13. Kept'
  <2> SUFFICES ASSUME NEW b \in reported \cup reports PROVE b \in stored' \/ Old(b)'
    BY <1>2 DEF Kept
  <2>1. CASE Old(b)
    <3>1. workerRound <= workerRound' /\ workerRound' \in Nat /\ committed \subseteq Headers
      BY <1>1, <1>3, <1>5, <1>6, <1>8 DEF Shape
    <3> QED
      BY <1>2, <1>3, <2>1, <3>1, OldStays
  <2>2. CASE b \in stored /\ b \notin stored'
    <3>1. PICK r \in Deleted(round) : b \in committedBatches[r] /\ workerRound' = round
      BY <1>4, <2>2
    <3>2. r \in Rounds /\ r \in Nat /\ r + 2 * GcDepth <= round
      <4>1. r \in Rounds /\ round >= 2 * GcDepth /\ r <= round - 2 * GcDepth
        BY <3>1 DEF Deleted
      <4> QED
        BY <1>5, <4>1, RoundTyped
    <3>3. PICK g \in committed : Round[g] = r /\ b \in PayloadOf[g]
      BY <1>1, <3>1, <3>2 DEF Truthful
    <3> QED
      BY <1>2, <3>1, <3>2, <3>3 DEF Old
  <2>3. b \in stored \/ Old(b)
    BY <1>1 DEF Kept
  <2> QED
    BY <2>1, <2>2, <2>3
<1>14. \A k \in Headers : Complete(k)'
  BY <1>1, <1>2 DEF Complete
<1> QED
  BY <1>9, <1>11, <1>12, <1>13, <1>14 DEF Availability

\* A batch is stored before it is reported, and reported before it counts.
LEMMA ReportStep ==
  ASSUME Availability,
         UNCHANGED <<toWaiter, waiting, accepted, consensusVars, commits, cleanups,
                     workerRound, committedBatches>>,
         stored \subseteq stored', reported \subseteq reported',
         \A b \in reported' \cup reports' : b \in reported \cup reports \cup stored'
  PROVE  Availability'
<1>1. Shape /\ Truthful /\ Rising /\ Kept /\ \A k \in Headers : Complete(k)
  BY DEF Availability
<1>2. UNCHANGED <<committed, consensusRound>>
  BY DEF consensusVars
<1>3. Shape'
  BY <1>1, <1>2 DEF Shape
<1>4. Truthful' /\ Rising' /\ Kept'
  BY <1>1, <1>2, TruthStays, RisingStays, KeptStays
<1>5. \A k \in Headers : Complete(k)'
  BY <1>1, CompleteStays
<1> QED
  BY <1>3, <1>4, <1>5 DEF Availability

----------------------------------------------------------------------------
LEMMA AlwaysAvailable == Spec => []Availability
<1>1. Init => Availability
  <2> SUFFICES ASSUME Init PROVE Availability
    OBVIOUS
  <2>1. Shape
    BY DEF Init, Shape
  <2>2. DOMAIN commits = {} /\ DOMAIN cleanups = {} /\ workerRound = 0 /\ consensusRound = 0
    BY DEF Init
  <2>3. Truthful /\ Rising
    BY <2>2 DEF Init, Truthful, Rising
  <2>4. Kept /\ \A h \in Headers : Complete(h)
    BY DEF Init, Kept, Complete
  <2> QED
    BY <2>1, <2>3, <2>4 DEF Availability
<1>2. Availability /\ [Next]_vars => Availability'
  <2> SUFFICES ASSUME Availability, [Next]_vars PROVE Availability'
    OBVIOUS
  <2>1. ASSUME NEW h \in Headers, ProcessHeader(h) \/ SyncBatches(h) \/ Resume(h) \/ Tick
        PROVE  Availability'
    BY <2>1, HeaderStep
  <2>2. ASSUME Tick PROVE Availability'
    <3>1. CASE Headers = {}
      <4>1. waiting \in [Headers -> SUBSET Batches]
        BY DEF Availability, Shape
      <4>2. waiting = Retained(waiting)
        BY <3>1, <4>1 DEF Retained
      <4> QED
        BY <2>2, <4>2 DEF Tick
    <3> QED
      BY <2>1, <2>2, <3>1
  <2>3. ASSUME NEW h \in Headers, Commit(h) PROVE Availability'
    BY <2>3, CommitStep
  <2>4. ASSUME CommittedBatches PROVE Availability'
    BY <2>4, CommitsTaken DEF CommittedBatches
  <2>5. ASSUME Cleanup PROVE Availability'
    BY <2>5, CleanupsTaken DEF Cleanup
  <2>6. ASSUME \/ Synchronize \/ UNCHANGED vars
               \/ \E b \in Batches : Record(b) \/ ReadCommitted(b) \/ Arrived(b)
               \/ \E p \in Peers : Retry(p)
        PROVE  Availability'
    BY <2>6, ReportStep DEF Synchronize, Record, ReadCommitted, Arrived, Retry, RetryWith, vars,
       primaryVars, primaryLinks, workerVars
  <2>7. ASSUME NEW b, Broadcast(b) \/ \E p \in Peers : Help(p, b) PROVE Availability'
    BY <2>7, ReportStep DEF Broadcast, Help, ProcessBatch, primaryVars, primaryLinks, workerVars
  <2>8. ASSUME Lose PROVE Availability'
    <3>1. UNCHANGED <<primaryVars, consensusVars, workerVars, stored>>
      BY <2>8 DEF Lose
    <3>2. \/ commits # << >> /\ commits' = Tail(commits) /\ UNCHANGED <<cleanups, reports>>
          \/ cleanups # << >> /\ cleanups' = Tail(cleanups) /\ UNCHANGED <<commits, reports>>
          \/ reports' \subseteq reports /\ UNCHANGED <<commits, cleanups>>
      BY <2>8 DEF Lose, primaryLinks
    <3>3. CASE commits # << >> /\ commits' = Tail(commits) /\ UNCHANGED <<cleanups, reports>>
      BY <3>1, <3>3, CommitsTaken DEF workerVars
    <3>4. CASE cleanups # << >> /\ cleanups' = Tail(cleanups) /\ UNCHANGED <<commits, reports>>
      BY <3>1, <3>4, CleanupsTaken DEF workerVars
    <3>5. CASE reports' \subseteq reports /\ UNCHANGED <<commits, cleanups>>
      BY <3>1, <3>5, ReportStep DEF primaryVars, workerVars
    <3> QED
      BY <3>2, <3>3, <3>4, <3>5
  <2> QED
    BY <2>1, <2>2, <2>3, <2>4, <2>5, <2>6, <2>7, <2>8 DEF Next, WaiterStep, SynchronizerStep
<1> QED
  BY <1>1, <1>2, PTL DEF Spec

\* The worker has every batch of every header that the primary accepted, until two
\* GC depths after the commit of one that cites it (Core::process_header,
\* Synchronizer::missing_payload, the worker's Processor and Cleanup).
THEOREM AcceptedIsAvailable == Spec => []AcceptedAvailable
<1>1. Availability => AcceptedAvailable
  <2> SUFFICES ASSUME Availability, NEW h \in accepted, NEW b \in PayloadOf[h] \ stored
               PROVE  \E g \in committed : b \in PayloadOf[g] /\ Round[g] + 2 * GcDepth <= workerRound
    BY DEF AcceptedAvailable
  <2>1. b \in reported
    BY DEF Availability, Complete, Shape
  <2> QED
    BY <2>1 DEF Availability, Kept, Old
<1> QED
  BY <1>1, AlwaysAvailable, PTL

----------------------------------------------------------------------------
(* Type correctness, task by task *)

Sync == [digests : SUBSET Batches, target : Peers]
CommitMessage == [round : Rounds, digests : SUBSET Batches]

PrimaryTyped ==
  /\ toWaiter \in [Headers -> SUBSET Batches]
  /\ waiting \in [Headers -> SUBSET Batches]
  /\ batchRequests \subseteq Batches /\ reported \subseteq Batches
  /\ accepted \subseteq Headers /\ committed \subseteq Headers
  /\ consensusRound \in Rounds \cup {0}

LinksTyped ==
  /\ syncs \in Seq(Sync) /\ commits \in Seq(CommitMessage) /\ cleanups \in Seq(Rounds)
  /\ requests \subseteq Peers \X Batches
  /\ reports \subseteq Batches
  /\ lost \in Seq(SUBSET Batches)

WorkerTyped ==
  /\ workerRound \in Rounds \cup {0}
  /\ asked \in [Batches -> Rounds \cup {0, None}]
  /\ dropped \subseteq Batches
  /\ committedBatches \in [Rounds -> SUBSET Batches]
  /\ awaiting \subseteq Batches /\ stored \subseteq Batches

\* No request is as old as one GC depth.
Fresh(b) == asked[b] # None => asked[b] <= workerRound /\ workerRound < asked[b] + GcDepth

Typed == PrimaryTyped /\ LinksTyped /\ WorkerTyped /\ \A b \in Batches : Fresh(b)

LEMMA TypedIsTypeOK == Typed <=> TypeOK
  BY DEF Typed, PrimaryTyped, LinksTyped, WorkerTyped, Fresh, TypeOK, Sync, CommitMessage

LEMMA ConstantsTyped ==
  /\ \A h \in Headers : Author[h] \in Peers /\ Round[h] \in Rounds /\ PayloadOf[h] \subseteq Batches
  /\ Rounds \subseteq Nat /\ None \notin Nat
  /\ GcDepth \in Nat /\ GcDepth > 0
  BY PayloadAssumption, RoundTyped

LEMMA PrimaryStepTyped ==
  ASSUME Typed, NEW h \in Headers, ProcessHeader(h) \/ SyncBatches(h) \/ Resume(h) \/ Commit(h)
  PROVE  Typed'
<1>1. /\ PrimaryTyped /\ LinksTyped /\ \A b \in Batches : Fresh(b)
      /\ PayloadOf[h] \subseteq Batches /\ Round[h] \in Rounds /\ Author[h] \in Peers
  BY ConstantsTyped DEF Typed
<1>2. UNCHANGED <<workerRound, asked, dropped, committedBatches, awaiting, stored, requests,
                  reports, lost, reported>>
  BY DEF ProcessHeader, SyncBatches, Resume, Commit, primaryVars, workerVars
<1>3. WorkerTyped' /\ \A b \in Batches : Fresh(b)'
  BY <1>1, <1>2 DEF Typed, WorkerTyped, Fresh
<1>4. CASE ProcessHeader(h)
  <2>1. PrimaryTyped'
    BY <1>1, <1>4 DEF ProcessHeader, PrimaryTyped, consensusVars
  <2>2. LinksTyped'
    BY <1>1, <1>2, <1>4 DEF ProcessHeader, LinksTyped, primaryLinks
  <2> QED
    BY <1>3, <2>1, <2>2 DEF Typed
<1>5. CASE SyncBatches(h)
  <2> DEFINE new == toWaiter[h] \ batchRequests
             m == [digests |-> new, target |-> Author[h]]
             w == [waiting EXCEPT ![h] = toWaiter[h]]
  <2>1. new \subseteq Batches /\ w \in [Headers -> SUBSET Batches] /\ m \in Sync
    BY <1>1 DEF PrimaryTyped, Sync
  <2>2. waiting' = Retained(w) /\ batchRequests' = batchRequests \cup new
        /\ toWaiter' = [toWaiter EXCEPT ![h] = {}]
        /\ UNCHANGED <<reported, accepted, committed, consensusRound, commits, cleanups>>
        /\ (syncs' = syncs \/ syncs' = Append(syncs, m))
    BY <1>5 DEF SyncBatches, consensusVars
  <2> HIDE DEF new, m, w
  <2>3. PrimaryTyped'
    BY <1>1, <2>1, <2>2, RetainedEffect DEF PrimaryTyped
  <2>4. syncs' \in Seq(Sync)
    <3>1. syncs \in Seq(Sync)
      BY <1>1 DEF LinksTyped
    <3>2. Append(syncs, m) \in Seq(Sync)
      BY <2>1, <3>1, AppendShift
    <3> QED
      BY <2>2, <3>1, <3>2
  <2> QED
    BY <1>1, <1>2, <1>3, <2>2, <2>3, <2>4 DEF Typed, LinksTyped
<1>6. CASE Resume(h)
  <2> DEFINE w == [waiting EXCEPT ![h] = {}]
  <2>1. w \in [Headers -> SUBSET Batches]
    BY <1>1 DEF PrimaryTyped
  <2>2. waiting' = Retained(w) /\ batchRequests' = batchRequests \ PayloadOf[h]
        /\ accepted' = accepted \cup {h}
        /\ UNCHANGED <<toWaiter, reported, committed, consensusRound, syncs, commits, cleanups>>
    BY <1>6 DEF Resume, consensusVars, primaryLinks
  <2> HIDE DEF w
  <2>3. PrimaryTyped'
    BY <1>1, <2>1, <2>2, RetainedEffect DEF PrimaryTyped
  <2> QED
    BY <1>1, <1>2, <1>3, <2>2, <2>3 DEF Typed, LinksTyped
<1>7. CASE Commit(h)
  <2> DEFINE m == [round |-> Round[h], digests |-> PayloadOf[h]]
  <2>1. m \in CommitMessage
    BY <1>1 DEF CommitMessage
  <2>2. /\ committed' = committed \cup {h} /\ commits' = Append(commits, m)
        /\ UNCHANGED <<toWaiter, waiting, batchRequests, reported, accepted, syncs>>
        /\ \/ consensusRound' = Round[h] /\ cleanups' = Append(cleanups, Round[h])
           \/ UNCHANGED <<consensusRound, cleanups>>
    BY <1>7 DEF Commit, primaryVars
  <2> HIDE DEF m
  <2>3. commits' \in Seq(CommitMessage) /\ cleanups' \in Seq(Rounds)
    BY <1>1, <2>1, <2>2, AppendShift DEF LinksTyped
  <2>4. PrimaryTyped'
    BY <1>1, <2>2 DEF PrimaryTyped
  <2> QED
    BY <1>1, <1>2, <1>3, <2>2, <2>3, <2>4 DEF Typed, LinksTyped
<1> QED
  BY <1>4, <1>5, <1>6, <1>7

LEMMA SynchronizerStepTyped ==
  ASSUME Typed, Rising, SynchronizerStep
  PROVE  Typed'
<1>1. PrimaryTyped /\ LinksTyped /\ WorkerTyped /\ \A b \in Batches : Fresh(b)
  BY DEF Typed
<1>2. UNCHANGED <<primaryVars, consensusVars, reports, lost>>
  BY DEF SynchronizerStep, Synchronize, CommittedBatches, Cleanup, ReadCommitted, Arrived,
     primaryLinks
<1>3. PrimaryTyped'
  BY <1>1, <1>2 DEF PrimaryTyped, primaryVars, consensusVars
<1>4. CASE Synchronize
  <2>1. syncs \in Seq(Sync) /\ syncs # << >>
    BY <1>1, <1>4 DEF LinksTyped, Synchronize
  <2>2. Tail(syncs) \in Seq(Sync) /\ Head(syncs) \in Sync
    BY <2>1, TailShift
  <2>3. PICK digests : digests = {b \in Head(syncs).digests : asked[b] = None}
    OBVIOUS
  <2>4. digests \subseteq Batches /\ Head(syncs).target \in Peers
    BY <2>2, <2>3 DEF Sync
  <2>5. /\ syncs' = Tail(syncs)
        /\ asked' = [b \in Batches |-> IF b \in digests THEN workerRound ELSE asked[b]]
        /\ requests' = requests \cup ({Head(syncs).target} \X (digests \ stored))
        /\ UNCHANGED <<commits, cleanups, workerRound, dropped, committedBatches, awaiting, stored>>
    BY <1>4, <2>3 DEF Synchronize
  <2>6. LinksTyped'
    BY <1>1, <1>2, <2>2, <2>4, <2>5 DEF LinksTyped
  <2>7. WorkerTyped'
    BY <1>1, <2>5 DEF WorkerTyped
  <2>8. ASSUME NEW b \in Batches PROVE Fresh(b)'
    BY <1>1, <2>5, ConstantsTyped DEF Fresh, WorkerTyped
  <2> QED
    BY <1>3, <2>6, <2>7, <2>8 DEF Typed
<1>5. CASE CommittedBatches
  <2>1. commits \in Seq(CommitMessage) /\ commits # << >>
    BY <1>1, <1>5 DEF LinksTyped, CommittedBatches
  <2>2. Tail(commits) \in Seq(CommitMessage) /\ Head(commits) \in CommitMessage
    BY <2>1, TailShift
  <2>3. Head(commits).round \in Rounds /\ Head(commits).digests \subseteq Batches
    BY <2>2 DEF CommitMessage
  <2>4. LinksTyped'
    BY <1>1, <1>2, <1>5, <2>2 DEF LinksTyped, CommittedBatches
  <2>5. WorkerTyped'
    BY <1>1, <1>5, <2>3 DEF WorkerTyped, CommittedBatches
  <2>6. \A b \in Batches : Fresh(b)'
    BY <1>1, <1>5 DEF Fresh, CommittedBatches
  <2> QED
    BY <1>3, <2>4, <2>5, <2>6 DEF Typed
<1>6. CASE Cleanup
  <2>1. cleanups \in Seq(Rounds) /\ cleanups # << >>
    BY <1>1, <1>6 DEF LinksTyped, Cleanup
  <2>2. PICK round : round = Head(cleanups)
    OBVIOUS
  <2>3. /\ Tail(cleanups) \in Seq(Rounds) /\ round \in Rounds
        /\ 1 \in DOMAIN cleanups /\ round = cleanups[1]
    BY <2>1, <2>2, TailShift
  <2>4. workerRound <= round
    BY <2>3 DEF Rising
  <2>5. /\ cleanups' = Tail(cleanups) /\ workerRound' = round
        /\ asked' = [b \in Batches |-> IF b \in Expired(round) THEN None ELSE asked[b]]
        /\ dropped' = dropped \cup Expired(round)
        /\ committedBatches' = [r \in Rounds |->
                                  IF r \in Deleted(round) THEN {} ELSE committedBatches[r]]
        /\ stored' = stored \ UNION {committedBatches[r] : r \in Deleted(round)}
        /\ UNCHANGED <<syncs, commits, requests, awaiting>>
    BY <1>6, <2>2 DEF Cleanup
  <2>6. LinksTyped'
    BY <1>1, <1>2, <2>3, <2>5 DEF LinksTyped
  <2>7. WorkerTyped'
    <3>1. Expired(round) \subseteq Batches
      BY DEF Expired
    <3> QED
      BY <1>1, <2>3, <2>5, <3>1 DEF WorkerTyped
  <2>8. ASSUME NEW b \in Batches, asked'[b] # None
        PROVE  asked'[b] <= workerRound' /\ workerRound' < asked'[b] + GcDepth
    <3>1. b \notin Expired(round) /\ asked'[b] = asked[b]
      BY <2>5, <2>8
    <3>2. asked[b] \in Nat /\ workerRound \in Nat /\ round \in Nat
      <4>1. asked[b] \in Rounds \cup {0, None} /\ workerRound \in Rounds \cup {0}
        BY <1>1 DEF WorkerTyped
      <4>2. asked[b] # None
        BY <2>8, <3>1
      <4>3. Rounds \subseteq Nat
        BY ConstantsTyped
      <4>4. \A x : x \in Rounds => x \in Nat
        BY <4>3
      <4>5. asked[b] \in Rounds \/ asked[b] = 0
        BY <4>1, <4>2
      <4>6. workerRound \in Rounds \/ workerRound = 0
        BY <4>1
      <4> QED
        BY <2>3, <4>4, <4>5, <4>6
    <3>3. asked[b] <= workerRound
      BY <1>1, <2>8, <3>1 DEF Fresh
    <3>4. round < GcDepth \/ ~ (asked[b] <= round - GcDepth)
      BY <2>8, <3>1, <3>2, ConstantsTyped DEF Expired
    <3> QED
      BY <2>4, <2>5, <3>1, <3>2, <3>3, <3>4, ConstantsTyped
  <2> QED
    BY <1>3, <2>6, <2>7, <2>8 DEF Typed, Fresh
<1>7. ASSUME NEW b \in Batches, ReadCommitted(b) \/ Arrived(b)
      PROVE  Typed'
  <2>1. LinksTyped'
    BY <1>1, <1>2, <1>7 DEF LinksTyped, ReadCommitted, Arrived, primaryLinks
  <2>2. WorkerTyped'
    BY <1>1, <1>7 DEF WorkerTyped, ReadCommitted, Arrived
  <2>3. \A c \in Batches : Fresh(c)'
    BY <1>1, <1>7 DEF Fresh, WorkerTyped, ReadCommitted, Arrived
  <2> QED
    BY <1>3, <2>1, <2>2, <2>3 DEF Typed
<1> QED
  BY <1>4, <1>5, <1>6, <1>7 DEF SynchronizerStep

LEMMA NetworkStepTyped ==
  ASSUME Typed,
         \/ \E b \in Batches : Record(b) \/ Broadcast(b)
         \/ \E p \in Peers : Retry(p) \/ \E b \in Batches : Help(p, b)
         \/ Lose \/ Tick
  PROVE  Typed'
<1>1. PrimaryTyped /\ LinksTyped /\ WorkerTyped /\ \A b \in Batches : Fresh(b)
  BY DEF Typed
<1>2. UNCHANGED <<consensusVars, workerVars, toWaiter, accepted>>
  BY DEF Record, Broadcast, Retry, RetryWith, Help, Lose, Tick, primaryVars
<1>3. \A b \in Batches : Fresh(b)'
  BY <1>1, <1>2 DEF Fresh, workerVars
<1>4. CASE \E b \in Batches : Record(b) \/ Broadcast(b)
  BY <1>1, <1>2, <1>3, <1>4 DEF Typed, PrimaryTyped, LinksTyped, WorkerTyped, Record, Broadcast,
     ProcessBatch, primaryVars, consensusVars, primaryLinks, workerVars
<1>5. CASE \E p \in Peers : Retry(p) \/ \E b \in Batches : Help(p, b)
  BY <1>1, <1>2, <1>3, <1>5 DEF Typed, PrimaryTyped, LinksTyped, WorkerTyped, Retry, RetryWith,
     Help, ProcessBatch, primaryVars, consensusVars, primaryLinks, workerVars
<1>6. CASE Lose
  <2>1. PrimaryTyped' /\ WorkerTyped'
    BY <1>1, <1>6 DEF Lose, PrimaryTyped, WorkerTyped, primaryVars, consensusVars, workerVars
  <2>2. \E B \in SUBSET Batches : lost' = Append(lost, B)
    <3>1. ASSUME syncs # << >> PROVE Head(syncs).digests \subseteq Batches
      <4>1. Head(syncs) \in Sync
        BY <1>1, <3>1, TailShift DEF LinksTyped
      <4> QED
        BY <4>1 DEF Sync
    <3> QED
      BY <1>1, <1>6, <3>1 DEF Lose, LostOne, LinksTyped
  <2>3. lost' \in Seq(SUBSET Batches)
    <3>1. lost \in Seq(SUBSET Batches)
      BY <1>1 DEF LinksTyped
    <3>2. PICK B \in SUBSET Batches : lost' = Append(lost, B)
      BY <2>2
    <3>3. \A S : lost \in Seq(S) /\ B \in S => Append(lost, B) \in Seq(S)
      BY AppendShift
    <3> QED
      BY <3>1, <3>2, <3>3
  <2>4. /\ syncs' = syncs \/ (syncs # << >> /\ syncs' = Tail(syncs))
        /\ commits' = commits \/ (commits # << >> /\ commits' = Tail(commits))
        /\ cleanups' = cleanups \/ (cleanups # << >> /\ cleanups' = Tail(cleanups))
        /\ requests' \subseteq requests /\ reports' \subseteq reports
    BY <1>6 DEF Lose, primaryLinks
  <2>5. syncs' \in Seq(Sync) /\ commits' \in Seq(CommitMessage) /\ cleanups' \in Seq(Rounds)
    BY <1>1, <2>4, TailShift DEF LinksTyped
  <2> QED
    BY <1>1, <1>3, <2>1, <2>3, <2>4, <2>5 DEF Typed, LinksTyped
<1>7. CASE Tick
  BY <1>1, <1>2, <1>3, <1>7, RetainedEffect DEF Typed, PrimaryTyped, LinksTyped, WorkerTyped, Tick,
     consensusVars, primaryLinks, workerVars
<1> QED
  BY <1>4, <1>5, <1>6, <1>7

\* The types of the primary's and the worker's state, and a bound on the age of what
\* the worker asks for (worker Synchronizer, PrimaryWorkerMessage::Cleanup).
THEOREM TypeCorrect == Spec => []TypeOK
<1>1. Init => Typed
  BY ConstantsTyped DEF Init, Typed, PrimaryTyped, LinksTyped, WorkerTyped, Fresh
<1>2. Typed /\ Availability /\ [Next]_vars => Typed'
  <2> SUFFICES ASSUME Typed, Availability, [Next]_vars PROVE Typed'
    OBVIOUS
  <2>1. CASE UNCHANGED vars
    BY <2>1 DEF Typed, PrimaryTyped, LinksTyped, WorkerTyped, Fresh, vars, primaryVars,
       consensusVars, primaryLinks, workerVars
  <2>2. CASE Next
    BY <2>2, PrimaryStepTyped, SynchronizerStepTyped, NetworkStepTyped
       DEF Availability, Next, WaiterStep
  <2> QED
    BY <2>1, <2>2
<1> QED
  BY <1>1, <1>2, AlwaysAvailable, TypedIsTypeOK, PTL DEF Spec

----------------------------------------------------------------------------
(* What is being fetched *)

\* The task that acts next on a requested batch: the worker's Synchronizer has
\* the request before it or is at it, or the primary's PayloadReceiver is.
InHand(b) ==
  \/ \E i \in DOMAIN syncs : b \in syncs[i].digests
  \/ asked[b] # None
  \/ b \in reports

\* batch_requests may name batches that no header waits for any more, and they
\* have to be in hand as well: nobody would ask for them a second time.
Fetching ==
  /\ \A h \in Headers : waiting[h] \subseteq batchRequests \cup reported
  /\ \A b \in batchRequests \ reported : IsUntroubled(b) => InHand(b)
  /\ \A b \in stored : IsUntroubled(b) => b \in reports \cup reported

\* A batch that was in trouble remains so.
TroubleStays ==
  /\ dropped \subseteq dropped'
  /\ lost' = lost \/ \E B \in SUBSET Batches : lost' = Append(lost, B)

LEMMA UntroubledBefore ==
  ASSUME Typed, TroubleStays, NEW b, IsUntroubled(b)'
  PROVE  IsUntroubled(b)
<1>1. lost \in Seq(SUBSET Batches)
  BY DEF Typed, LinksTyped
<1>2. ASSUME NEW i \in DOMAIN lost PROVE i \in DOMAIN lost' /\ lost'[i] = lost[i]
  <2>1. CASE lost' = lost
    BY <2>1
  <2>2. ASSUME NEW B \in SUBSET Batches, lost' = Append(lost, B)
        PROVE  i \in DOMAIN lost' /\ lost'[i] = lost[i]
    BY <1>1, <2>2
  <2> QED
    BY <2>1, <2>2 DEF TroubleStays
<1> QED
  BY <1>2 DEF IsUntroubled, TroubleStays

\* A step that takes nothing out of the hands of a task, and stores nothing that it
\* does not report.
LEMMA FetchingStays ==
  ASSUME Fetching, Typed, TroubleStays, reported \subseteq reported',
         batchRequests' = batchRequests,
         \A h \in Headers : waiting'[h] = waiting[h] \/ waiting'[h] = {},
         \A b \in Batches : InHand(b) => InHand(b)' \/ b \in reported' \/ ~ IsUntroubled(b)',
         \A b \in stored' : b \in stored \/ b \in reports',
         \A b \in reports : b \in reports' \/ b \in reported' \/ ~ IsUntroubled(b)'
  PROVE  Fetching'
<1>1. \A h \in Headers : waiting'[h] \subseteq batchRequests' \cup reported'
  BY DEF Fetching
<1>2. ASSUME NEW b \in batchRequests' \ reported', IsUntroubled(b)' PROVE InHand(b)'
  <2>1. b \in batchRequests \ reported /\ IsUntroubled(b) /\ b \in Batches
    BY <1>2, UntroubledBefore DEF Typed, PrimaryTyped
  <2> QED
    BY <1>2, <2>1 DEF Fetching
<1>3. ASSUME NEW b \in stored', IsUntroubled(b)' PROVE b \in reports' \cup reported'
  BY <1>3, UntroubledBefore DEF Fetching
<1> QED
  BY <1>1, <1>2, <1>3 DEF Fetching

LEMMA FetchingByWaiter ==
  ASSUME Fetching, Typed, Availability, NEW h \in Headers, SyncBatches(h) \/ Resume(h)
  PROVE  Fetching'
<1>1. /\ \A k \in Headers : waiting[k] \subseteq batchRequests \cup reported
      /\ \A b \in batchRequests \ reported : IsUntroubled(b) => InHand(b)
      /\ \A b \in stored : IsUntroubled(b) => b \in reports \cup reported
  BY DEF Fetching
<1>2. UNCHANGED <<dropped, lost, reported, reports, stored, asked>>
  BY DEF SyncBatches, Resume, workerVars, primaryLinks
<1>3. \A b : IsUntroubled(b)' <=> IsUntroubled(b)
  BY <1>2 DEF IsUntroubled
<1>4. waiting \in [Headers -> SUBSET Batches] /\ toWaiter \in [Headers -> SUBSET Batches]
      /\ syncs \in Seq(Sync)
  BY DEF Typed, PrimaryTyped, LinksTyped
<1>5. CASE SyncBatches(h)
  <2> DEFINE new == toWaiter[h] \ batchRequests
             m == [digests |-> new, target |-> Author[h]]
             w == [waiting EXCEPT ![h] = toWaiter[h]]
  <2>1. /\ waiting' = Retained(w) /\ batchRequests' = batchRequests \cup new
        /\ syncs' = IF new = {} THEN syncs ELSE Append(syncs, m)
    BY <1>5 DEF SyncBatches
  <2>2. w \in [Headers -> SUBSET Batches] /\ m \in Sync
    BY <1>4, ConstantsTyped DEF Sync
  <2>3. \A k \in Headers : waiting'[k] = w[k] \/ waiting'[k] = {}
    BY <2>1, <2>2, RetainedEffect
  <2>4. ASSUME NEW k \in Headers PROVE waiting'[k] \subseteq batchRequests' \cup reported'
    <3>1. w[k] = toWaiter[h] \/ w[k] = waiting[k]
      BY <1>4
    <3> QED
      BY <1>1, <1>2, <2>1, <2>3, <3>1
  <2>5. ASSUME NEW b \in batchRequests' \ reported', IsUntroubled(b) PROVE InHand(b)'
    <3>1. CASE b \in batchRequests
      <4>1. \A i \in DOMAIN syncs : i \in DOMAIN syncs' /\ syncs'[i] = syncs[i]
        <5> HIDE DEF m, new
        <5> QED
          BY <1>4, <2>1, <2>2
      <4> QED
        BY <1>1, <1>2, <2>5, <3>1, <4>1 DEF InHand
    <3>2. CASE b \in new
      <4>1. syncs' = Append(syncs, m)
        BY <2>1, <3>2
      <4>2. Len(syncs) + 1 \in DOMAIN syncs' /\ syncs'[Len(syncs) + 1] = m
        <5> HIDE DEF m
        <5> QED
          BY <1>4, <2>2, <4>1
      <4> QED
        BY <3>2, <4>2 DEF InHand
    <3> QED
      BY <2>1, <2>5, <3>1, <3>2
  <2> QED
    BY <1>1, <1>2, <1>3, <2>4, <2>5 DEF Fetching
<1>6. CASE Resume(h)
  <2>1. /\ waiting[h] # {} /\ waiting[h] \subseteq reported
        /\ waiting' = Retained([waiting EXCEPT ![h] = {}])
        /\ batchRequests' = batchRequests \ PayloadOf[h] /\ syncs' = syncs
    BY <1>6 DEF Resume, primaryLinks
  <2>2. PayloadOf[h] \subseteq reported
    BY <2>1 DEF Availability, Complete
  <2>3. \A k \in Headers : waiting'[k] = waiting[k] \/ waiting'[k] = {}
    <3>1. [waiting EXCEPT ![h] = {}] \in [Headers -> SUBSET Batches]
      BY <1>4
    <3>2. \A k \in Headers : [waiting EXCEPT ![h] = {}][k] \in {waiting[k], {}}
      BY <1>4
    <3> QED
      BY <2>1, <3>1, <3>2, RetainedEffect
  <2>4. \A b : InHand(b)' <=> InHand(b)
    BY <1>2, <2>1 DEF InHand
  <2> QED
    BY <1>1, <1>2, <1>3, <2>1, <2>2, <2>3, <2>4 DEF Fetching
<1> QED
  BY <1>5, <1>6

\* The worker takes a Synchronize message, or loses it.
LEMMA FetchingBySync ==
  ASSUME Fetching, Typed, syncs # << >>, syncs' = Tail(syncs),
         \/ /\ asked' = [b \in Batches |-> IF b \in {c \in Head(syncs).digests : asked[c] = None}
                                           THEN workerRound ELSE asked[b]]
            /\ UNCHANGED lost
         \/ asked' = asked /\ lost' = Append(lost, Head(syncs).digests),
         UNCHANGED <<dropped, reported, reports, waiting, batchRequests, stored>>
  PROVE  Fetching'
<1>1. PICK m : m = Head(syncs)
  OBVIOUS
<1>2. /\ m \in Sync /\ syncs \in Seq(Sync) /\ lost \in Seq(SUBSET Batches)
      /\ workerRound \in Rounds \cup {0}
  BY <1>1, TailShift DEF Typed, LinksTyped, WorkerTyped
<1>3. \A i \in DOMAIN syncs : \/ syncs[i] = m
                              \/ i - 1 \in DOMAIN syncs' /\ syncs'[i - 1] = syncs[i]
  BY <1>1, <1>2
<1>4. workerRound # None
  <2>1. \A r \in Rounds : r \in Nat
    BY ConstantsTyped
  <2>2. workerRound \in Nat
    BY <1>2, <2>1
  <2> QED
    BY <2>2, ConstantsTyped
<1>5. m.digests \subseteq Batches
  BY <1>2 DEF Sync
<1>6. TroubleStays
  BY <1>1, <1>5 DEF TroubleStays
<1>7. ASSUME NEW b \in Batches, InHand(b), IsUntroubled(b)' PROVE InHand(b)'
  <2>1. CASE b \in m.digests
    <3>1. CASE lost' = Append(lost, m.digests)
      <4>1. Len(lost) + 1 \in DOMAIN lost' /\ lost'[Len(lost) + 1] = m.digests
        BY <1>2, <1>5, <3>1
      <4> QED
        BY <1>7, <2>1, <4>1 DEF IsUntroubled
    <3>2. CASE asked' = [c \in Batches |-> IF c \in {d \in m.digests : asked[d] = None}
                                           THEN workerRound ELSE asked[c]]
      <4>1. asked'[b] # None
        BY <1>4, <2>1, <3>2
      <4> QED
        BY <4>1 DEF InHand
    <3> QED
      BY <1>1, <3>1, <3>2
  <2>2. CASE b \notin m.digests
    <3>1. asked'[b] = asked[b]
      BY <1>1, <2>2
    <3> QED
      BY <1>3, <1>7, <2>2, <3>1 DEF InHand
  <2> QED
    BY <2>1, <2>2
<1> QED
  BY <1>6, <1>7, FetchingStays

\* The worker drops or completes a request.
LEMMA FetchingByWorker ==
  ASSUME Fetching, Typed, Cleanup \/ \E b \in Batches : Arrived(b)
  PROVE  Fetching'
<1>1. UNCHANGED <<waiting, batchRequests, reported, reports, lost, syncs>>
  BY DEF Cleanup, Arrived, primaryVars, primaryLinks
<1>2. asked \in [Batches -> Rounds \cup {0, None}]
  BY DEF Typed, WorkerTyped
<1>3. CASE Cleanup
  <2>1. PICK expired : /\ asked' = [b \in Batches |-> IF b \in expired THEN None ELSE asked[b]]
                       /\ dropped' = dropped \cup expired /\ stored' \subseteq stored
    BY <1>3 DEF Cleanup
  <2>2. TroubleStays
    BY <1>1, <2>1 DEF TroubleStays
  <2>3. \A b \in Batches : InHand(b) => InHand(b)' \/ ~ IsUntroubled(b)'
    BY <1>1, <2>1 DEF InHand, IsUntroubled
  <2> QED
    BY <1>1, <2>1, <2>2, <2>3, FetchingStays
<1>4. ASSUME NEW b \in Batches, Arrived(b) PROVE Fetching'
  <2>1. /\ asked' = [asked EXCEPT ![b] = None] /\ b \in stored
        /\ UNCHANGED <<dropped, stored>>
    BY <1>4 DEF Arrived
  <2>2. TroubleStays
    BY <1>1, <2>1 DEF TroubleStays
  <2>3. ASSUME NEW c \in Batches, InHand(c), IsUntroubled(c)' PROVE InHand(c)' \/ c \in reported'
    <3>1. CASE c = b
      <4>1. IsUntroubled(b)
        BY <1>1, <2>1, <2>3, <3>1 DEF IsUntroubled
      <4>2. b \in reports \cup reported
        BY <2>1, <4>1 DEF Fetching
      <4> QED
        BY <1>1, <3>1, <4>2 DEF InHand
    <3>2. CASE c # b
      BY <1>1, <1>2, <2>1, <2>3, <3>2 DEF InHand
    <3> QED
      BY <3>1, <3>2
  <2> QED
    BY <1>1, <2>1, <2>2, <2>3, FetchingStays
<1> QED
  BY <1>3, <1>4

\* Whatever a suspended header lacks is in the hands of exactly the task that has
\* to act next: nothing is asked for once and then forgotten, unless the request was
\* lost or the worker cancelled it (HeaderWaiter's batch_requests, the worker's
\* Synchronizer and Processor, PayloadReceiver).
THEOREM RequestIsKept == Spec => []RequestKept
<1>1. Init => Fetching
  BY DEF Init, Fetching
<1>2. Fetching /\ Typed /\ Availability /\ [Next]_vars => Fetching'
  <2> SUFFICES ASSUME Fetching, Typed, Availability, [Next]_vars PROVE Fetching'
    OBVIOUS
  <2>1. ASSUME NEW h \in Headers, SyncBatches(h) \/ Resume(h) PROVE Fetching'
    BY <2>1, FetchingByWaiter
  <2>2. CASE Synchronize
    BY <2>2, FetchingBySync DEF Synchronize, primaryVars
  <2>3. CASE Cleanup \/ \E b \in Batches : Arrived(b)
    BY <2>3, FetchingByWorker
  <2>4. CASE \/ \E h \in Headers : ProcessHeader(h) \/ Commit(h)
             \/ CommittedBatches \/ \E b \in Batches : ReadCommitted(b)
             \/ \E p \in Peers : Retry(p)
             \/ UNCHANGED vars
    <3>1. UNCHANGED <<waiting, batchRequests, reported, reports, lost, syncs, asked, dropped, stored>>
      BY <2>4 DEF ProcessHeader, Commit, CommittedBatches, ReadCommitted, Retry, RetryWith, vars,
         primaryVars, primaryLinks, workerVars
    <3> QED
      BY <3>1, FetchingStays DEF InHand, TroubleStays
  <2>5. CASE Tick
    <3>1. /\ waiting' = Retained(waiting)
          /\ UNCHANGED <<batchRequests, reported, reports, lost, syncs, asked, dropped, stored>>
      BY <2>5 DEF Tick, primaryLinks, workerVars
    <3>2. \A h \in Headers : waiting'[h] = waiting[h] \/ waiting'[h] = {}
      BY <3>1, RetainedEffect DEF Typed, PrimaryTyped
    <3> QED
      BY <3>1, <3>2, FetchingStays DEF InHand, TroubleStays
  <2>6. CASE \E b \in Batches : Record(b)
    <3>1. /\ \A b \in reports : b \in reports' \/ b \in reported'
          /\ reported \subseteq reported'
          /\ UNCHANGED <<waiting, batchRequests, lost, syncs, asked, dropped, stored>>
      BY <2>6 DEF Record, primaryLinks, workerVars
    <3> QED
      BY <3>1, FetchingStays DEF InHand, TroubleStays
  <2>7. CASE \E b \in Batches : Broadcast(b) \/ \E p \in Peers : Help(p, b)
    <3>1. /\ \A b \in stored' : b \in stored \/ b \in reports'
          /\ reports \subseteq reports'
          /\ UNCHANGED <<waiting, batchRequests, reported, lost, syncs, asked, dropped>>
      BY <2>7 DEF Broadcast, Help, ProcessBatch, primaryVars, primaryLinks, workerVars
    <3> QED
      BY <3>1, FetchingStays DEF InHand, TroubleStays
  <2>8. CASE Lose
    <3>1. UNCHANGED <<waiting, batchRequests, reported, asked, dropped, stored>>
      BY <2>8 DEF Lose, primaryVars, workerVars
    <3>2. \/ /\ syncs # << >> /\ syncs' = Tail(syncs) /\ reports' = reports
             /\ lost' = Append(lost, Head(syncs).digests)
          \/ /\ syncs' = syncs /\ reports' = reports /\ lost' = Append(lost, {})
          \/ \E b \in reports : /\ syncs' = syncs /\ reports' = reports \ {b}
                                /\ lost' = Append(lost, {b})
      BY <2>8 DEF Lose, LostOne, primaryLinks
    <3>3. CASE /\ syncs # << >> /\ syncs' = Tail(syncs) /\ reports' = reports
               /\ lost' = Append(lost, Head(syncs).digests)
      BY <3>1, <3>3, FetchingBySync
    <3>4. CASE syncs' = syncs /\ reports' = reports /\ lost' = Append(lost, {})
      BY <3>1, <3>4, FetchingStays DEF InHand, TroubleStays
    <3>5. ASSUME NEW b \in reports, syncs' = syncs, reports' = reports \ {b},
                 lost' = Append(lost, {b})
          PROVE  Fetching'
      <4>1. b \in Batches /\ lost \in Seq(SUBSET Batches)
        BY DEF Typed, LinksTyped
      <4>2. Len(lost) + 1 \in DOMAIN lost' /\ lost'[Len(lost) + 1] = {b}
        BY <3>5, <4>1
      <4>3. ~ IsUntroubled(b)' /\ TroubleStays
        BY <3>1, <3>5, <4>1, <4>2 DEF IsUntroubled, TroubleStays
      <4>4. \A c \in Batches : InHand(c) => InHand(c)' \/ c = b
        BY <3>1, <3>5 DEF InHand
      <4> QED
        BY <3>1, <3>5, <4>3, <4>4, FetchingStays
    <3> QED
      BY <3>2, <3>3, <3>4, <3>5
  <2> QED
    BY <2>1, <2>2, <2>3, <2>4, <2>5, <2>6, <2>7, <2>8 DEF Next, WaiterStep, SynchronizerStep
<1>3. Typed /\ Fetching => RequestKept
  BY DEF Typed, PrimaryTyped, Fetching, InHand, RequestKept
<1>4. Spec => []Typed
  BY TypeCorrect, TypedIsTypeOK, PTL
<1> QED
  BY <1>1, <1>2, <1>3, <1>4, AlwaysAvailable, PTL DEF Spec
=============================================================================
