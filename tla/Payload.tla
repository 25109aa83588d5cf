------------------------------ MODULE Payload ------------------------------
(***************************************************************************)
(* How one validator gets the batches it lacks.  The primary's Synchronizer*)
(* suspends a header whose payload its worker has not reported, the        *)
(* HeaderWaiter tells the worker to fetch it, the worker's Synchronizer    *)
(* asks the header's author and then others, their Helpers answer, the     *)
(* Processor stores what arrives and reports it.  Meanwhile consensus      *)
(* commits headers: the worker waits for their batches inside the loop     *)
(* that does all the rest, cancels old requests, and deletes old batches.  *)
(*                                                                         *)
(* Certified headers, complete or not, may be committed.  The messages of  *)
(* three tasks of the primary reach the worker over three connections;     *)
(* every sender is a SimpleSender, which loses what it cannot deliver.     *)
(***************************************************************************)
EXTENDS Naturals, SequencesExt, FiniteSetsExt

CONSTANTS
  Headers, Batches,  \* headers of other authorities, digests of their batches
  Author, Round,     \* the author and the round of each header
  PayloadOf,         \* the batches each header cites
  Peers,             \* the other authorities' workers of this worker's id
  Holds,             \* the batches in the store of each peer
  GcDepth,           \* Parameters::gc_depth, of the primary and the worker
  None,              \* no request pending
  MaxLost            \* bound: messages lost

Rounds == {Round[h] : h \in Headers}

ASSUME PayloadAssumption ==
  /\ Author \in [Headers -> Peers]
  /\ Round \in [Headers -> Nat \ {0}]
  /\ PayloadOf \in [Headers -> SUBSET Batches]
  /\ Holds \in [Peers -> SUBSET Batches]
  /\ GcDepth \in Nat \ {0} /\ MaxLost \in Nat /\ None \notin Nat

VARIABLES
  toWaiter,        \* the batches missing in SyncBatches on its way, per header
  waiting,         \* HeaderWaiter::pending: the batches each header waits for
  batchRequests,   \* HeaderWaiter::batch_requests
  reported,        \* the batches recorded in the primary's store
  accepted         \* headers whose payload was found complete

VARIABLES
  committed,       \* headers committed by consensus
  consensusRound   \* the round shared with the primary's tasks

VARIABLES
  syncs, commits, cleanups, \* the primary's three connections to the worker
  requests,        \* BatchRequests on their way: a peer and a batch
  reports,         \* digests on their way to the primary
  lost             \* the messages lost, as the sets of batches they named

VARIABLES
  workerRound,     \* worker Synchronizer::round
  asked,           \* worker Synchronizer::pending: the round of each request
  dropped,         \* batches whose request the worker cancelled
  committedBatches,\* Synchronizer::committed_batches
  awaiting,        \* the batches handle_committed_batches still waits for
  stored           \* the worker's store

primaryVars   == <<toWaiter, waiting, batchRequests, reported, accepted>>
consensusVars == <<committed, consensusRound>>
primaryLinks  == <<syncs, commits, cleanups>>
workerVars    == <<workerRound, asked, dropped, committedBatches, awaiting>>
vars == <<primaryVars, consensusVars, primaryLinks, requests, reports, lost,
          workerVars, stored>>

Init ==
  /\ toWaiter = [h \in Headers |-> {}]
  /\ waiting = [h \in Headers |-> {}]
  /\ batchRequests = {} /\ reported = {} /\ accepted = {}
  /\ committed = {} /\ consensusRound = 0
  /\ syncs = <<>> /\ commits = <<>> /\ cleanups = <<>>
  /\ requests = {} /\ reports = {} /\ lost = <<>>
  /\ workerRound = 0
  /\ asked = [b \in Batches |-> None]
  /\ dropped = {}
  /\ committedBatches = [r \in Rounds |-> {}]
  /\ awaiting = {}
  /\ stored = {}

----------------------------------------------------------------------------
(* The primary *)

\* Core: a header, or the certificate of one, that is not too old.
IsRecent(h) == consensusRound <= GcDepth \/ Round[h] >= consensusRound - GcDepth

\* Core::process_header calls missing_payload.
ProcessHeader(h) ==
  LET missing == PayloadOf[h] \ reported
  IN  /\ h \notin accepted /\ toWaiter[h] = {} /\ waiting[h] = {}
      /\ IsRecent(h)
      /\ IF missing = {}
         THEN /\ accepted' = accepted \cup {h}
              /\ UNCHANGED toWaiter
         ELSE /\ toWaiter' = [toWaiter EXCEPT ![h] = missing]
              /\ UNCHANGED accepted
      /\ UNCHANGED <<waiting, batchRequests, reported, consensusVars, primaryLinks,
                     requests, reports, lost, workerVars, stored>>

\* The end of every turn of the HeaderWaiter's loop: SyncBatches registers its
\* headers as if they waited for parents, and they are cancelled like those.
Retained(w) ==
  [h \in Headers |->
     IF consensusRound > GcDepth /\ Round[h] <= consensusRound - GcDepth
     THEN {} ELSE w[h]]

\* Faulty variant: the batches are registered before the check.
SyncBatchesRegistered(h) ==
  /\ toWaiter[h] # {}
  /\ toWaiter' = [toWaiter EXCEPT ![h] = {}]
  /\ waiting' = Retained([waiting EXCEPT ![h] = toWaiter[h]])
  /\ batchRequests' = batchRequests \cup toWaiter[h]
  /\ UNCHANGED <<reported, accepted, consensusVars, primaryLinks, requests,
                 reports, lost, workerVars, stored>>

\* HeaderWaiter, WaiterMessage::SyncBatches.
SyncBatches(h) ==
  LET new == toWaiter[h] \ batchRequests
  IN  /\ toWaiter[h] # {}
      /\ toWaiter' = [toWaiter EXCEPT ![h] = {}]
      /\ waiting' = Retained([waiting EXCEPT ![h] = toWaiter[h]])
      /\ batchRequests' = batchRequests \cup new
      /\ syncs' = IF new = {} THEN syncs
                  ELSE Append(syncs, [digests |-> new, target |-> Author[h]])
      /\ UNCHANGED <<reported, accepted, consensusVars, commits, cleanups,
                     requests, reports, lost, workerVars, stored>>

\* A waiter has all it waited for: the header goes back to the Core, which
\* finds its payload complete.
Resume(h) ==
  /\ waiting[h] # {} /\ waiting[h] \subseteq reported
  /\ waiting' = Retained([waiting EXCEPT ![h] = {}])
  /\ batchRequests' = batchRequests \ PayloadOf[h]
  /\ accepted' = accepted \cup {h}
  /\ UNCHANGED <<toWaiter, reported, consensusVars, primaryLinks, requests,
                 reports, lost, workerVars, stored>>

\* A turn of the HeaderWaiter's loop for its timer: only the cleanup counts
\* here, batch_requests are not retried and not collected.
Tick ==
  /\ waiting # Retained(waiting)
  /\ waiting' = Retained(waiting)
  /\ UNCHANGED <<toWaiter, batchRequests, reported, accepted, consensusVars,
                 primaryLinks, requests, reports, lost, workerVars, stored>>

\* PayloadReceiver.
Record(b) ==
  /\ b \in reports
  /\ reports' = reports \ {b}
  /\ reported' = reported \cup {b}
  /\ UNCHANGED <<toWaiter, waiting, batchRequests, accepted, consensusVars,
                 primaryLinks, requests, lost, workerVars, stored>>

\* Consensus outputs a certificate to the GarbageCollector, which stores its
\* round and tells the worker, and to analyze, which tells the worker as well.
\* The Core has seen the header of every certificate, complete or not.
Commit(h) ==
  /\ h \notin committed
  /\ h \in accepted \/ toWaiter[h] # {} \/ waiting[h] # {}
  /\ Round[h] + GcDepth >= consensusRound
  /\ committed' = committed \cup {h}
  /\ commits' = Append(commits, [round |-> Round[h], digests |-> PayloadOf[h]])
  /\ IF Round[h] > consensusRound
     THEN /\ consensusRound' = Round[h]
          /\ cleanups' = Append(cleanups, Round[h])
     ELSE UNCHANGED <<consensusRound, cleanups>>
  /\ UNCHANGED <<primaryVars, syncs, requests, reports, lost, workerVars, stored>>

----------------------------------------------------------------------------
(* The worker's Synchronizer: a loop that takes one message, one completed  *)
(* waiter or one expiry of its timer at a time                             *)

IsFree == awaiting = {}

\* PrimaryWorkerMessage::Synchronize: one request, to the author of the header.
Synchronize ==
  LET digests == {b \in Head(syncs).digests : asked[b] = None}
  IN  /\ IsFree /\ syncs # <<>>
      /\ syncs' = Tail(syncs)
      /\ asked' = [b \in Batches |-> IF b \in digests THEN workerRound ELSE asked[b]]
      /\ requests' = requests \cup ({Head(syncs).target} \X (digests \ stored))
      /\ UNCHANGED <<primaryVars, consensusVars, commits, cleanups, reports,
                     lost, workerRound, dropped, committedBatches, awaiting, stored>>

\* PrimaryWorkerMessage::CommittedBatches: the loop stands still until every
\* one of these batches is in the store.
CommittedBatches ==
  /\ IsFree /\ commits # <<>>
  /\ commits' = Tail(commits)
  /\ committedBatches' = [committedBatches EXCEPT
                            ![Head(commits).round] = @ \cup Head(commits).digests]
  /\ awaiting' = Head(commits).digests
  /\ UNCHANGED <<primaryVars, consensusVars, syncs, cleanups, requests, reports,
                 lost, workerRound, asked, dropped, stored>>

ReadCommitted(b) ==
  /\ b \in awaiting \cap stored
  /\ awaiting' = awaiting \ {b}
  /\ UNCHANGED <<primaryVars, consensusVars, primaryLinks, requests, reports,
                 lost, workerRound, asked, dropped, committedBatches, stored>>

\* The batches of rounds at least two GC depths old.
Deleted(round) ==
  IF round >= 2 * GcDepth
  THEN {r \in Rounds : r <= round - 2 * GcDepth}
  ELSE {}

\* Faulty variant: a request lives for one round more.
ExpiredLater(round) ==
  IF round >= GcDepth
  THEN {b \in Batches : asked[b] # None /\ asked[b] < round - GcDepth}
  ELSE {}

\* The requests made at least one GC depth ago.
Expired(round) ==
  IF round >= GcDepth
  THEN {b \in Batches : asked[b] # None /\ asked[b] <= round - GcDepth}
  ELSE {}

\* PrimaryWorkerMessage::Cleanup.
Cleanup ==
  LET round   == Head(cleanups)
      expired == Expired(round)
      old     == Deleted(round)
  IN  /\ IsFree /\ cleanups # <<>>
      /\ cleanups' = Tail(cleanups)
      /\ workerRound' = round
      /\ asked' = [b \in Batches |-> IF b \in expired THEN None ELSE asked[b]]
      /\ dropped' = dropped \cup expired
      /\ committedBatches' = [r \in Rounds |->
                                IF r \in old THEN {} ELSE committedBatches[r]]
      /\ stored' = stored \ UNION {committedBatches[r] : r \in old}
      /\ UNCHANGED <<primaryVars, consensusVars, syncs, commits, requests, reports,
                     lost, awaiting>>

\* A waiter found its batch in the store.
Arrived(b) ==
  /\ IsFree /\ asked[b] # None /\ b \in stored
  /\ asked' = [asked EXCEPT ![b] = None]
  /\ UNCHANGED <<primaryVars, consensusVars, primaryLinks, requests, reports, lost,
                 workerRound, dropped, committedBatches, awaiting, stored>>

\* The timer: what was asked long enough ago is asked again of peers drawn at
\* random; the step of one of them stands for the draw.
RetryWith(p) ==
  LET late == {b \in Batches : asked[b] # None}
  IN  /\ IsFree
      /\ ~ ({p} \X late) \subseteq requests
      /\ requests' = requests \cup ({p} \X late)
      /\ UNCHANGED <<primaryVars, consensusVars, primaryLinks, reports, lost,
                     workerVars, stored>>

\* Faulty variant: the author of a suspended header is asked again.
RetryAuthor(p) ==
  /\ \E h \in Headers : Author[h] = p /\ waiting[h] # {}
  /\ RetryWith(p)

Retry(p) == RetryWith(p)

----------------------------------------------------------------------------
(* The worker's other tasks, its peers and the network *)

\* Faulty variant: a batch is reported, and not stored.
ReportOnly(b) == UNCHANGED stored /\ reports' = reports \cup {b}

\* WorkerReceiverHandler, Processor and PrimaryConnector: a batch that reaches
\* the worker is stored and then reported.
ProcessBatch(b) == stored' = stored \cup {b} /\ reports' = reports \cup {b}

\* A peer's Helper answers a request, as far as it has the batch.
Help(p, b) ==
  /\ <<p, b>> \in requests
  /\ requests' = requests \ {<<p, b>>}
  /\ IF b \in Holds[p] THEN ProcessBatch(b) ELSE UNCHANGED <<stored, reports>>
  /\ UNCHANGED <<primaryVars, consensusVars, primaryLinks, lost, workerVars>>

\* The broadcast of a batch by its author, which may come early, late or never.
Broadcast(b) ==
  /\ b \notin stored \cup reported
  /\ \E p \in Peers : b \in Holds[p]
  /\ ProcessBatch(b)
  /\ UNCHANGED <<primaryVars, consensusVars, primaryLinks, requests, lost, workerVars>>

LostOne(batches) == Len(lost) < MaxLost /\ lost' = Append(lost, batches)

\* SimpleSender: a message on a connection that fails is dropped.
Lose ==
  /\ \/ /\ syncs # <<>> /\ LostOne(Head(syncs).digests)
        /\ syncs' = Tail(syncs)
        /\ UNCHANGED <<commits, cleanups, requests, reports>>
     \/ /\ commits # <<>> /\ LostOne({})
        /\ commits' = Tail(commits)
        /\ UNCHANGED <<syncs, cleanups, requests, reports>>
     \/ /\ cleanups # <<>> /\ LostOne({})
        /\ cleanups' = Tail(cleanups)
        /\ UNCHANGED <<syncs, commits, requests, reports>>
     \/ \E m \in requests :
          /\ LostOne({}) /\ requests' = requests \ {m}
          /\ UNCHANGED <<primaryLinks, reports>>
     \/ \E b \in reports :
          /\ LostOne({b}) /\ reports' = reports \ {b}
          /\ UNCHANGED <<primaryLinks, requests>>
  /\ UNCHANGED <<primaryVars, consensusVars, workerVars, stored>>

WaiterStep == \E h \in Headers : SyncBatches(h) \/ Resume(h)

SynchronizerStep ==
  \/ Synchronize \/ CommittedBatches \/ Cleanup
  \/ \E b \in Batches : ReadCommitted(b) \/ Arrived(b)

Next ==
  \/ \E h \in Headers : ProcessHeader(h) \/ Commit(h)
  \/ WaiterStep \/ Tick \/ SynchronizerStep
  \/ \E b \in Batches : Record(b) \/ Broadcast(b)
  \/ \E p \in Peers : Retry(p) \/ \E b \in Batches : Help(p, b)
  \/ Lose

\* Every task is polled while it has work, and a draw of the retry timer picks
\* each peer again and again. Nobody need broadcast a batch, commit or lose.
Fairness ==
  /\ WF_vars(WaiterStep)
  /\ SF_vars(Synchronize) /\ SF_vars(CommittedBatches) /\ SF_vars(Cleanup)
  /\ \A b \in Batches :
       /\ WF_vars(Record(b)) /\ WF_vars(ReadCommitted(b)) /\ SF_vars(Arrived(b))
       /\ \A p \in Peers : WF_vars(Help(p, b))
  /\ \A p \in Peers : SF_vars(Retry(p))

Spec == Init /\ [][Next]_vars /\ Fairness

----------------------------------------------------------------------------
\* The shape of the state, and that the worker keeps a request for less than one
\* GC depth of the rounds it is told of.
TypeOK ==
  /\ toWaiter \in [Headers -> SUBSET Batches]
  /\ waiting \in [Headers -> SUBSET Batches]
  /\ batchRequests \subseteq Batches /\ reported \subseteq Batches
  /\ accepted \subseteq Headers /\ committed \subseteq Headers
  /\ consensusRound \in Rounds \cup {0}
  /\ syncs \in Seq([digests : SUBSET Batches, target : Peers])
  /\ commits \in Seq([round : Rounds, digests : SUBSET Batches])
  /\ cleanups \in Seq(Rounds)
  /\ requests \subseteq Peers \X Batches
  /\ reports \subseteq Batches
  /\ lost \in Seq(SUBSET Batches)
  /\ workerRound \in Rounds \cup {0}
  /\ asked \in [Batches -> Rounds \cup {0, None}]
  /\ dropped \subseteq Batches
  /\ \A b \in Batches :
       asked[b] # None => asked[b] <= workerRound /\ workerRound < asked[b] + GcDepth
  /\ committedBatches \in [Rounds -> SUBSET Batches]
  /\ awaiting \subseteq Batches /\ stored \subseteq Batches

\* A vote promises that the payload of the header can be read: the worker has
\* every batch of every header the primary accepted, until two GC depths after
\* a header that cites it was committed.
AcceptedAvailable ==
  \A h \in accepted : \A b \in PayloadOf[h] \ stored :
    \E g \in committed : b \in PayloadOf[g] /\ Round[g] + 2 * GcDepth <= workerRound

\* A batch no loss was about and no cleanup cancelled.
IsUntroubled(b) == b \notin dropped /\ \A i \in DOMAIN lost : b \notin lost[i]

\* batch_requests, the worker's pending and the store agree on what is being
\* fetched: whatever a suspended header lacks is in the hands of exactly the
\* task that has to act next, through every queue between them.
RequestKept ==
  \A h \in Headers : \A b \in waiting[h] \ reported : IsUntroubled(b) =>
    /\ b \in batchRequests
    /\ \/ \E i \in DOMAIN syncs : b \in syncs[i].digests
       \/ asked[b] # None
       \/ b \in reports

\* A header suspended for its payload goes on or is cancelled, however its
\* author behaves, as long as some peer has the batches, unless a message is
\* lost that nobody repeats, the worker cancels, or its loop stands still.
SuspendedResumes ==
  \A h \in Headers :
    waiting[h] # {} ~> \/ waiting[h] = {}
                       \/ awaiting # {}
                       \/ \E b \in PayloadOf[h] : ~ IsUntroubled(b)

\* The retry timer is there for an author that does not answer ("if this timer
\* triggers, it means we were wrong to trust it", worker synchronizer.rs): a
\* batch that was committed arrives in the end, if some peer has it.
CommittedArrives ==
  \A b \in Batches : b \in awaiting ~> b \notin awaiting
============================================================================
